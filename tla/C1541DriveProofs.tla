-------------------------- MODULE C1541DriveProofs --------------------------
(****************************************************************************)
(* Theorems about the drive, for every number of tracks, every set of image *)
(* files and every sequence of commands.                                    *)
(****************************************************************************)
EXTENDS C1541Drive, TLAPS

USE DriveAssumption

(* The mutex is held by the task or the command that is under way. *)
Owner ==
  /\ mutex = "command" <=> step # "none"
  /\ mutex = "poll" <=> pc # "delay"

(* Which function can be at which step. *)
AtStep ==
  /\ step = "open" => fn \in MountFunctions
  /\ step \in {"ask", "crashed"} => fn \in MountFunctions \cup {"remove"}
  /\ step = "mount" => fn \in MountFunctions \cup {"swap"}
  /\ step = "close" => fn \in {"remove", "blank"}
  /\ step = "unlink" => fn \in UnlinkedFunctions \cup {"unlink"}
  /\ step = "swap" => fn = "swap"
  /\ step = "reset" => fn = "reset"
  /\ step = "eject" => fn \in MountFunctions \cup {"swap", "remove", "blank"}
  /\ step \in {"load", "insert"} => fn \in MountFunctions \cup {"swap", "blank"}

(* The file that was opened and is not yet mounted. *)
NewFileHeld ==
  newFile # NoFile <=>
    step = "mount" \/ (step \in {"ask", "crashed"} /\ fn \in MountFunctions)

(* The new disk comes with a file, the blank one without. *)
MountedFile ==
  step \in {"eject", "load", "insert"} =>
    (mount_file # NoFile <=> fn \in MountFunctions \cup {"swap"})

FilesCounted ==
  open_files = (IF mount_file = NoFile THEN 0 ELSE 1) + (IF newFile = NoFile THEN 0 ELSE 1)

(* Poll works on a track of a mounted disk: no command takes it away. *)
Scanning ==
  /\ pc \in ScanSteps => Linked /\ mount_file # NoFile
  /\ pc \in ScanSteps \ {"flag"} => tr \in Tracks

CommandInv ==
  TypeOK /\ Owner /\ AtStep /\ NewFileHeld /\ MountedFile /\ FilesCounted /\ Scanning

(* The memory of the drive holds the disk that is mounted. *)
DiskMatches ==
  Linked /\ step # "eject" =>
    /\ mount_file # NoFile
    /\ \A t \in Tracks : medium[t].disk = mount_file.image

CopyMatches == pc = "write" => copied.disk = mount_file.image

LoadedDisk ==
  /\ step \in {"load", "insert"} => ~inserted /\ disk_state = "no_disk"
  /\ step = "insert" /\ mount_file # NoFile => medium = image[mount_file.image]

DiskInv == CommandInv /\ NoCrossWrite /\ DiskMatches /\ CopyMatches /\ LoadedDisk

(* A changed track keeps its mark, in the steps of a command too: only in   *)
(* "eject" is the mounted file not that of the disk in memory.              *)
Marked ==
  Linked /\ step # "eject" =>
    \A t \in Tracks : Saved(t) \/ t \in dirty \cup failed \/ (pc = "write" /\ tr = t)

CopyMarked == pc = "write" => copied = medium[tr] \/ tr \in dirty

MarkPart == Marked /\ CopyMarked
MarkInv == DiskInv /\ MarkPart

(* Nothing else than the write protection of the image keeps its file from *)
(* being written.                                                          *)
Protection ==
  /\ step \in {"ask", "mount", "crashed"} /\ fn \in {"mount", "mount_ro"} =>
       newFile.write = ~protect
  /\ step \in {"eject", "load", "insert"} /\ fn \in {"mount", "mount_ro"} =>
       mount_file.write = ~protect

Protected ==
  Linked /\ step \notin {"eject", "unlink"} /\ ~mount_file.write =>
    sensor = "dark" /\ dirty = {}

FlagStays == pc \in {"motor", "track", "clear"} => tr \in dirty

Noticed == \A t \in dirty : any_dirty \/ write_skip # 0 \/ Ahead(t)

Pending ==
  Linked /\ step \notin {"eject", "unlink"} =>
    \A t \in Tracks : t \in dirty \/ Saved(t) \/ (pc = "write" /\ tr = t)

CopyCurrent == pc = "write" => mount_file.write /\ (copied = medium[tr] \/ tr \in dirty)

WriteBackPart == Protection /\ Protected /\ FlagStays /\ Noticed /\ Pending /\ CopyCurrent

WriteBackInv == DiskInv /\ WriteBackPart

(****************************************************************************)
(* Types, and the order of the steps of a command.                          *)
(****************************************************************************)
LEMMA InitCommandInv == Init => CommandInv
<1> SUFFICES ASSUME Init PROVE CommandInv
  OBVIOUS
<1>1. power \in BOOLEAN /\ motor \in BOOLEAN /\ inserted \in BOOLEAN /\ any_dirty \in BOOLEAN
      /\ ui \in BOOLEAN /\ protect \in BOOLEAN
  BY Zenon DEF Init
<1>2. medium \in [Tracks -> Contents] /\ copied \in Contents
  BY DEF Init, Contents, Fresh, Torn
<1>3. image \in [Images -> [Tracks -> Contents]]
  BY DEF Init, Contents, Fresh, Torn
<1>4. TypeOK
  BY <1>1, <1>2, <1>3 DEF Init, TypeOK, Tracks, DiskStates, PollSteps, CommandSteps
<1> QED
  BY <1>4 DEF Init, CommandInv, Owner, AtStep, NewFileHeld, MountedFile, FilesCounted, Scanning, ScanSteps

LEMMA DriveType ==
  ASSUME TypeOK, Drive
  PROVE  TypeOK'
<1>1. CASE SwitchMotor
  <2>1. (motor \in BOOLEAN)'
    BY <1>1, Zenon DEF SwitchMotor
  <2> QED
    BY <1>1, <2>1 DEF SwitchMotor, TypeOK, storage, disk, poller, command
<1>2. ASSUME NEW t \in Tracks, StepHead(t) PROVE TypeOK'
  BY <1>2 DEF StepHead, TypeOK, storage, disk, poller, command
<1>3. CASE WriteTrack
  <2>1. (medium \in [Tracks -> Contents])'
    <3>1. medium[head].disk \in Images \cup {Blank} /\ medium[head].n + 1 \in 0 .. Torn
      BY <1>3 DEF WriteTrack, TypeOK, Contents, Torn
    <3>2. [disk |-> medium[head].disk, n |-> medium[head].n + 1] \in Contents
      BY <3>1 DEF Contents
    <3> QED
      BY <1>3, <3>2 DEF WriteTrack, TypeOK
  <2> QED
    BY <1>3, <2>1 DEF WriteTrack, TypeOK, storage, disk, poller, command
<1> QED
  BY <1>1, <1>2, <1>3 DEF Drive

LEMMA PollType ==
  ASSUME CommandInv, Poll
  PROVE  TypeOK'
<1> USE DEF CommandInv
<1>1. CASE Lock
  BY <1>1 DEF Lock, TypeOK, PollSteps, hardware, storage, disk, command
<1>2. CASE Test
  <2>1. (any_dirty \in BOOLEAN)'
    BY <1>2, Zenon DEF Test, TypeOK
  <2>2. (open_files \in Nat)'
    BY <1>2 DEF Test, TypeOK, FilesCounted, disk
  <2> QED
    BY <1>2, <2>1, <2>2 DEF Test, TypeOK, Unlock, PollSteps, ScanSteps, DiskStates,
                             storage, disk, command
<1>3. CASE ReadFlag
  BY <1>3 DEF ReadFlag, Scan, NextTrack, Unlock, TypeOK, PollSteps, ScanSteps, disk, command
<1>4. CASE ReadMotor
  BY <1>4 DEF ReadMotor, Scan, TypeOK, PollSteps, ScanSteps, disk, command
<1>5. CASE ReadTrack
  <2>1. (tr \in 1 .. LastTrack + 1)' /\ (write_skip \in Nat)'
    BY <1>5 DEF ReadTrack, Scan, NextTrack, TypeOK, Scanning, ScanSteps, Tracks
  <2> QED
    BY <1>5, <2>1 DEF ReadTrack, Scan, NextTrack, TypeOK, PollSteps, ScanSteps, disk, command
<1>6. CASE ClearFlag
  <2>1. tr \in Tracks
    BY <1>6 DEF ClearFlag, Scan, Scanning, ScanSteps
  <2>2. (copied \in Contents)' /\ (dirty \in SUBSET Tracks)'
    BY <1>6, <2>1 DEF ClearFlag, Scan, TypeOK
  <2> QED
    BY <1>6, <2>2 DEF ClearFlag, Scan, TypeOK, PollSteps, ScanSteps, disk, command
<1>7. CASE WriteBack
  <2>1. ASSUME NEW c \in Outcomes(mount_file),
               image' = [image EXCEPT ![mount_file.image] = [@ EXCEPT ![tr] = c]]
        PROVE  (image \in [Images -> [Tracks -> Contents]])'
    <3>1. tr \in Tracks /\ mount_file.image \in Images
      BY <1>7 DEF WriteBack, Scan, Scanning, ScanSteps, TypeOK, Files, NoFile
    <3>2. [disk |-> copied.disk, n |-> Torn] \in Contents
      BY DEF TypeOK, Contents, Torn
    <3>3. c \in Contents
      BY <3>1, <3>2 DEF Outcomes, TypeOK
    <3>4. [image[mount_file.image] EXCEPT ![tr] = c] \in [Tracks -> Contents]
      BY <3>1, <3>3 DEF TypeOK
    <3> QED
      BY <2>1, <3>4 DEF TypeOK
  <2>2. tr \in Tracks
    BY <1>7 DEF WriteBack, Scan, Scanning, ScanSteps
  <2>6. (image \in [Images -> [Tracks -> Contents]])' /\ (failed \in SUBSET Tracks)'
    BY <1>7, <2>1, <2>2 DEF WriteBack, TypeOK
  <2>7. (tr \in 1 .. LastTrack + 1)'
    BY <1>7, <2>2 DEF WriteBack, Scan, NextTrack, Tracks
  <2> QED
    BY <1>7, <2>6, <2>7 DEF WriteBack, Scan, NextTrack, TypeOK, PollSteps, ScanSteps, disk, command
<1> QED
  BY <1>1, <1>2, <1>3, <1>4, <1>5, <1>6, <1>7 DEF Poll

LEMMA CommandType ==
  ASSUME CommandInv, Command
  PROVE  TypeOK'
<1> USE DEF CommandInv
<1>1. ASSUME NEW f \in Functions \ {"ulticopy", "take_media"}, NEW u \in BOOLEAN, Execute(f, u)
      PROVE  TypeOK'
  <2>1. (ui \in BOOLEAN)'
    BY <1>1, Zenon DEF Execute
  <2>2. (step \in CommandSteps)'
    BY <1>1 DEF Execute, FirstStep, CommandSteps, MountFunctions, UnlinkedFunctions, AllFunctions
  <2> QED
    BY <1>1, <2>1, <2>2 DEF Execute, TypeOK, hardware, storage, disk, poller
<1>2. CASE Open
  <2>1. CASE Finish /\ UNCHANGED <<newFile, protect, open_files>>
    BY <1>2, <2>1 DEF Open, At, Finish, TypeOK, CommandSteps, poller, storage
  <2>2. ASSUME NEW i \in Images, NEW p, p = (fn = "mount_ro" \/ (fn = "mount" /\ i \in ReadOnly)),
               fopen(i, fn = "mount" /\ ~p), protect' = p, Go("ask")
        PROVE  TypeOK'
    <3>1. (protect \in BOOLEAN)' /\ (fn = "mount" /\ ~p) \in BOOLEAN
      BY <2>2, Zenon
    <3>2. (newFile \in Files)'
      BY <2>2, <3>1 DEF fopen, Files
    <3> QED
      BY <1>2, <2>2, <3>1, <3>2 DEF Open, fopen, At, Go, TypeOK, CommandSteps, poller, storage
  <2> QED
    BY <1>2, <2>1, <2>2 DEF Open
<1>3. CASE Ask
  BY <1>3 DEF Ask, At, Go, TypeOK, CommandSteps, poller, storage, disk
<1>4. CASE Mount
  BY <1>4 DEF Mount, At, Go, Closed, FilesCounted, TypeOK, CommandSteps, poller, storage
<1>5. CASE Close
  <2>1. (protect \in BOOLEAN)'
    BY <1>5, Zenon DEF Close
  <2>2. (open_files \in Nat)'
    BY <1>5 DEF Close, Closed, FilesCounted, TypeOK
  <2> QED
    BY <1>5, <2>1, <2>2 DEF Close, At, Go, TypeOK, CommandSteps, poller, storage
<1>6. CASE Eject
  <2>1. (ui \in BOOLEAN)' /\ (inserted \in BOOLEAN)'
    BY <1>6, Zenon DEF Eject, At, Go, Finish, TypeOK
  <2> QED
    BY <1>6, <2>1 DEF Eject, At, Go, Finish, TypeOK, CommandSteps, DiskStates, poller, storage
<1>7. CASE Load
  BY <1>7 DEF Load, At, Go, Loaded, Fresh, Torn, Contents, TypeOK, CommandSteps, Files, disk, poller, storage
<1>8. CASE Insert
  <2>1. (ui \in BOOLEAN)' /\ (inserted \in BOOLEAN)' /\ (any_dirty \in BOOLEAN)'
    BY <1>8, Zenon DEF Insert, At, Go, Finish, TypeOK
  <2>2. (dirty \in SUBSET Tracks)' /\ (sensor \in {"light", "dark"})'
    BY <1>8 DEF Insert
  <2> QED
    BY <1>8, <2>1, <2>2 DEF Insert, At, Go, Finish, TypeOK, CommandSteps, DiskStates, poller, storage
<1>9. CASE Unlink
  <2>1. (open_files \in Nat)'
    BY <1>9 DEF Unlink, Closed, FilesCounted, TypeOK
  <2>2. (ui \in BOOLEAN)'
    BY <1>9, Zenon DEF Unlink, Finish
  <2> QED
    BY <1>9, <2>1, <2>2 DEF Unlink, At, Finish, TypeOK, CommandSteps, DiskStates, poller, storage
<1>10. CASE Swap
  <2>1. CASE Finish /\ UNCHANGED <<newFile, open_files, protect>>
    BY <1>10, <2>1 DEF Swap, At, Finish, TypeOK, CommandSteps, poller, storage
  <2>2. ASSUME NEW i \in Images, fopen(i, FALSE), protect' = FALSE, Go("mount")
        PROVE  TypeOK'
    <3>1. (protect \in BOOLEAN)'
      BY <2>2, Zenon
    <3>2. (newFile \in Files)' /\ (open_files \in Nat)'
      BY <2>2 DEF fopen, Files, TypeOK
    <3> QED
      BY <1>10, <2>2, <3>1, <3>2 DEF Swap, At, Go, TypeOK, CommandSteps, poller, storage
  <2> QED
    BY <1>10, <2>1, <2>2 DEF Swap
<1>11. CASE Reset
  BY <1>11 DEF Reset, At, Finish, TypeOK, CommandSteps, disk, poller, storage
<1> QED
  BY <1>1, <1>2, <1>3, <1>4, <1>5, <1>6, <1>7, <1>8, <1>9, <1>10, <1>11 DEF Command

(* The steps that leave the commands alone: those of the drive hardware. *)
LEMMA DriveOrder ==
  ASSUME CommandInv, Drive \/ (\E on \in BOOLEAN : DrivePower(on)) \/ UNCHANGED vars
  PROVE  (Owner /\ AtStep /\ NewFileHeld /\ MountedFile /\ FilesCounted /\ Scanning)'
<1>1. UNCHANGED <<disk, poller, command, mutex>>
  BY DEF Drive, SwitchMotor, StepHead, WriteTrack, DrivePower, vars
<1> QED
  BY <1>1 DEF CommandInv, Owner, AtStep, NewFileHeld, MountedFile, FilesCounted, Scanning,
              Linked, disk, poller, command

LEMMA PollOrder ==
  ASSUME CommandInv, Poll
  PROVE  (Owner /\ AtStep /\ NewFileHeld /\ MountedFile /\ FilesCounted /\ Scanning)'
<1> USE DEF CommandInv
<1>1. UNCHANGED command
  BY DEF Poll, Lock, Test, ReadFlag, ReadMotor, ReadTrack, ClearFlag, WriteBack, Scan
<1>2. (AtStep /\ NewFileHeld)'
  BY <1>1 DEF AtStep, NewFileHeld, command
<1>3. CASE Lock
  BY <1>2, <1>3 DEF Lock, Owner, MountedFile, FilesCounted, Scanning, ScanSteps, Linked, disk, command
<1>4. CASE Test
  BY <1>2, <1>4 DEF Test, Unlock, TypeOK, Owner, NewFileHeld, MountedFile, FilesCounted, Scanning,
                    ScanSteps, Linked, NoFile, disk, command
<1>5. ASSUME ReadFlag \/ ReadMotor \/ ReadTrack \/ ClearFlag \/ WriteBack
      PROVE  (Owner /\ MountedFile /\ FilesCounted /\ Scanning)'
  <2>1. pc \in ScanSteps /\ UNCHANGED <<disk, command>>
    BY <1>5 DEF ReadFlag, ReadMotor, ReadTrack, ClearFlag, WriteBack, Scan, ScanSteps
  <2>2. \/ Unlock
        \/ UNCHANGED mutex /\ pc' = "flag"
        \/ UNCHANGED mutex /\ pc' \in ScanSteps /\ tr' = tr /\ tr \in Tracks
    BY <1>5 DEF ReadFlag, ReadMotor, ReadTrack, ClearFlag, WriteBack, Scan, NextTrack, Scanning,
                ScanSteps, TypeOK
  <2> QED
    BY <2>1, <2>2 DEF Unlock, Owner, MountedFile, FilesCounted, Scanning, ScanSteps, Linked, disk, command
<1> QED
  BY <1>2, <1>3, <1>4, <1>5 DEF Poll

LEMMA CommandOrder ==
  ASSUME CommandInv, Command
  PROVE  (Owner /\ AtStep /\ NewFileHeld /\ MountedFile /\ FilesCounted /\ Scanning)'
<1> USE DEF CommandInv, MountFunctions, UnlinkedFunctions, disk, poller
<1>1. ASSUME NEW f \in Functions \ {"ulticopy", "take_media"}, NEW u \in BOOLEAN, Execute(f, u)
      PROVE  (Owner /\ AtStep /\ NewFileHeld /\ MountedFile /\ FilesCounted /\ Scanning)'
  <2>1. f \in AllFunctions \ {"ulticopy", "take_media"}
    OBVIOUS
  <2> QED
    BY <1>1, <2>1 DEF Execute, FirstStep, AllFunctions, Owner, AtStep, NewFileHeld, MountedFile,
                      FilesCounted, Scanning, Linked, TypeOK
<1>2. pc \notin ScanSteps \/ step = "none"
  BY DEF Owner, ScanSteps
<1>3. CASE Open
  <2>1. CASE Finish /\ UNCHANGED <<newFile, protect, open_files>>
    BY <1>2, <1>3, <2>1 DEF Open, At, Finish, Owner, AtStep, NewFileHeld, MountedFile, FilesCounted,
                            Scanning, Linked
  <2>2. ASSUME NEW i \in Images, NEW w, fopen(i, w), Go("ask")
        PROVE  (Owner /\ AtStep /\ NewFileHeld /\ MountedFile /\ FilesCounted /\ Scanning)'
    <3>1. newFile = NoFile /\ newFile' # NoFile
      BY <1>3, <2>2 DEF Open, At, fopen, NewFileHeld, NoFile
    <3> QED
      BY <1>2, <1>3, <2>2, <3>1 DEF Open, At, Go, fopen, Owner, AtStep, NewFileHeld, MountedFile,
                                    FilesCounted, Scanning, Linked, TypeOK
  <2> QED
    BY <1>3, <2>1, <2>2 DEF Open
<1>4. CASE Ask
  BY <1>2, <1>4 DEF Ask, At, Go, Owner, AtStep, NewFileHeld, MountedFile, FilesCounted, Scanning, Linked
<1>5. CASE Mount
  BY <1>2, <1>5 DEF Mount, At, Go, Closed, Owner, AtStep, NewFileHeld, MountedFile, FilesCounted, Scanning, Linked, TypeOK
<1>6. CASE Close
  BY <1>2, <1>6 DEF Close, At, Go, Closed, Owner, AtStep, NewFileHeld, MountedFile, FilesCounted, Scanning, Linked, TypeOK
<1>7. CASE Eject
  BY <1>2, <1>7 DEF Eject, At, Go, Finish, Owner, AtStep, NewFileHeld, MountedFile, FilesCounted, Scanning, Linked
<1>8. CASE Load
  BY <1>2, <1>8 DEF Load, At, Go, Owner, AtStep, NewFileHeld, MountedFile, FilesCounted, Scanning, Linked
<1>9. CASE Insert
  BY <1>2, <1>9 DEF Insert, At, Go, Finish, Owner, AtStep, NewFileHeld, MountedFile, FilesCounted, Scanning, Linked
<1>10. CASE Unlink
  BY <1>2, <1>10 DEF Unlink, At, Closed, Finish, Owner, AtStep, NewFileHeld, MountedFile, FilesCounted, Scanning, Linked, TypeOK
<1>11. CASE Swap
  <2>1. CASE Finish /\ UNCHANGED <<newFile, open_files, protect>>
    BY <1>2, <1>11, <2>1 DEF Swap, At, Finish, Owner, AtStep, NewFileHeld, MountedFile, FilesCounted,
                             Scanning, Linked
  <2>2. ASSUME NEW i \in Images, fopen(i, FALSE), Go("mount")
        PROVE  (Owner /\ AtStep /\ NewFileHeld /\ MountedFile /\ FilesCounted /\ Scanning)'
    <3>1. newFile = NoFile /\ newFile' # NoFile
      BY <1>11, <2>2 DEF Swap, At, fopen, NewFileHeld, NoFile
    <3> QED
      BY <1>2, <1>11, <2>2, <3>1 DEF Swap, At, Go, fopen, Owner, AtStep, NewFileHeld, MountedFile,
                                     FilesCounted, Scanning, Linked, TypeOK
  <2> QED
    BY <1>11, <2>1, <2>2 DEF Swap
<1>12. CASE Reset
  BY <1>2, <1>12 DEF Reset, At, Finish, Owner, AtStep, NewFileHeld, MountedFile, FilesCounted, Scanning, Linked
<1> QED
  BY <1>1, <1>3, <1>4, <1>5, <1>6, <1>7, <1>8, <1>9, <1>10, <1>11, <1>12 DEF Command

LEMMA CommandInvNext ==
  ASSUME CommandInv, [Next]_vars
  PROVE  CommandInv'
<1>1. CASE Drive
  BY <1>1, DriveType, DriveOrder DEF CommandInv
<1>2. CASE Poll
  BY <1>2, PollType, PollOrder DEF CommandInv
<1>3. CASE Command
  BY <1>3, CommandType, CommandOrder DEF CommandInv
<1>4. ASSUME NEW on \in BOOLEAN, DrivePower(on) PROVE CommandInv'
  <2>1. (power \in BOOLEAN)' /\ (motor \in BOOLEAN)' /\ (any_dirty \in BOOLEAN)'
    BY <1>4, Zenon DEF DrivePower
  <2>2. TypeOK'
    BY <1>4, <2>1 DEF DrivePower, CommandInv, TypeOK, storage, disk, poller, command
  <2> QED
    BY <1>4, <2>2, DriveOrder DEF CommandInv
<1>5. ASSUME NEW S \in SUBSET Images, TakeMedia(S) PROVE CommandInv'
  <2>1. UNCHANGED <<hardware, image, failed, disk, poller, command, mutex>> /\ gone' = gone \cup S
    BY <1>5 DEF TakeMedia, OpenFileList, disk
  <2> QED
    BY <2>1 DEF CommandInv, TypeOK, Owner, AtStep, NewFileHeld, MountedFile, FilesCounted, Scanning,
                Linked, hardware, disk, poller, command
<1>6. CASE UNCHANGED vars
  BY <1>6, DriveOrder DEF CommandInv, TypeOK, vars, hardware, storage, disk, poller, command
<1> QED
  BY <1>1, <1>2, <1>3, <1>4, <1>5, <1>6 DEF Next

THEOREM CommandInvariant == Spec => []CommandInv
  BY InitCommandInv, CommandInvNext, PTL DEF Spec

(* Every variable of the drive, of its task and of the commands keeps its *)
(* type: the number of open files never goes below zero, the scan never   *)
(* looks at a flag behind the last track.                                 *)
THEOREM DriveTypeCorrect == Spec => []TypeOK
<1>1. CommandInv => TypeOK
  BY DEF CommandInv
<1> QED
  BY <1>1, CommandInvariant, PTL

(* C1541::executeCommand neither leaks a file nor closes one twice: between *)
(* two commands the mounted file is the only one that is open.              *)
THEOREM OneFileOpen == Spec => []OpenIsMounted
<1>1. CommandInv => OpenIsMounted
  BY DEF CommandInv, Owner, NewFileHeld, FilesCounted, OpenIsMounted
<1> QED
  BY <1>1, CommandInvariant, PTL

(****************************************************************************)
(* The disk in memory is the one whose file is mounted, when images load.   *)
(****************************************************************************)
DiskPart == NoCrossWrite /\ DiskMatches /\ CopyMatches /\ LoadedDisk

LEMMA InitDiskPart == Init => DiskPart
  BY DEF Init, DiskPart, NoCrossWrite, DiskMatches, CopyMatches, LoadedDisk, Linked, Fresh

LEMMA DriveDisk ==
  ASSUME CommandInv, DiskPart, Drive \/ (\E on \in BOOLEAN : DrivePower(on)) \/ UNCHANGED vars
  PROVE  DiskPart'
<1>1. UNCHANGED <<image, inserted, disk, poller, command>>
  BY DEF Drive, SwitchMotor, StepHead, WriteTrack, DrivePower, vars, hardware, storage
<1>2. CASE UNCHANGED medium
  BY <1>1, <1>2 DEF DiskPart, NoCrossWrite, DiskMatches, CopyMatches, LoadedDisk, Linked,
                    disk, poller, command
<1>3. CASE WriteTrack
  <2>1. inserted /\ \A t \in Tracks : medium'[t].disk = medium[t].disk
    BY <1>3 DEF WriteTrack, CommandInv, TypeOK
  <2> QED
    BY <1>1, <2>1 DEF DiskPart, NoCrossWrite, DiskMatches, CopyMatches, LoadedDisk, Linked,
                      disk, poller, command
<1> QED
  BY <1>2, <1>3 DEF Drive, SwitchMotor, StepHead, DrivePower, vars, hardware

LEMMA PollDisk ==
  ASSUME CommandInv, DiskPart, Poll
  PROVE  DiskPart'
<1> USE DEF CommandInv, DiskPart
<1>1. UNCHANGED <<medium, inserted, command>>
  BY DEF Poll, Lock, Test, ReadFlag, ReadMotor, ReadTrack, ClearFlag, WriteBack, Scan, hardware
<1>2. pc # "delay" => step = "none"
  BY DEF Owner
<1>3. CASE Lock \/ Test \/ ReadFlag \/ ReadMotor \/ ReadTrack
  <2>1. UNCHANGED <<image, copied>> /\ pc' # "write"
    BY <1>3 DEF Lock, Test, ReadFlag, ReadMotor, ReadTrack, Scan, NextTrack, Unlock, storage
  <2>2. UNCHANGED disk \/ (disk_state' = "closed" /\ step = "none")
    BY <1>2, <1>3 DEF Lock, Test, ReadFlag, ReadMotor, ReadTrack, Scan
  <2> QED
    BY <1>1, <2>1, <2>2 DEF NoCrossWrite, DiskMatches, CopyMatches, LoadedDisk, Linked, disk, command
<1>4. CASE ClearFlag
  <2>1. medium[tr].disk = mount_file.image
    BY <1>2, <1>4 DEF ClearFlag, Scan, Scanning, ScanSteps, DiskMatches
  <2> QED
    BY <1>1, <1>4, <2>1 DEF ClearFlag, Scan, NoCrossWrite, DiskMatches, CopyMatches, LoadedDisk,
                            Linked, disk, command
<1>5. CASE WriteBack
  <2>2. /\ tr \in Tracks /\ mount_file.image \in Images
        /\ medium[tr].disk = mount_file.image /\ copied.disk = mount_file.image
    BY <1>2, <1>5 DEF WriteBack, Scan, Scanning, ScanSteps, TypeOK, Files, NoFile, DiskMatches,
                      CopyMatches
  <2>3. ASSUME NEW c \in Outcomes(mount_file),
               image' = [image EXCEPT ![mount_file.image] = [@ EXCEPT ![tr] = c]]
        PROVE  NoCrossWrite'
    <3>1. c.disk = mount_file.image
      BY <2>2 DEF Outcomes, NoCrossWrite
    <3> QED
      BY <2>2, <2>3, <3>1 DEF NoCrossWrite, TypeOK
  <2>4. NoCrossWrite'
    BY <1>5, <2>3 DEF WriteBack, NoCrossWrite
  <2> QED
    BY <1>1, <1>2, <1>5, <2>4 DEF WriteBack, Scan, NextTrack, DiskMatches, CopyMatches, LoadedDisk,
                                  Linked, disk, command
<1> QED
  BY <1>3, <1>4, <1>5 DEF Poll

LEMMA CommandDisk ==
  ASSUME CommandInv, DiskPart, Command, "load" \notin Faults
  PROVE  DiskPart'
<1> USE DEF CommandInv, DiskPart, disk, poller, storage
<1>1. UNCHANGED <<image, copied>> /\ UNCHANGED pc
  BY DEF Command, Execute, Open, Ask, Mount, Close, Eject, Load, Insert, Unlink, Swap, Reset, At
<1>2. NoCrossWrite'
  BY <1>1 DEF NoCrossWrite
<1>3. pc # "write" \/ \E f \in Functions \ {"ulticopy", "take_media"}, u \in BOOLEAN : Execute(f, u)
  BY DEF Command, Open, Ask, Mount, Close, Eject, Load, Insert, Unlink, Swap, Reset, At, Owner
<1>4. CopyMatches'
  BY <1>1, <1>3 DEF CopyMatches, Execute
<1>5. ASSUME NEW f \in Functions \ {"ulticopy", "take_media"}, NEW u \in BOOLEAN, Execute(f, u)
      PROVE  (DiskMatches /\ LoadedDisk)'
  <2>1. step' = FirstStep(f) /\ UNCHANGED <<medium, inserted, disk_state, mount_file>> /\ step = "none"
    BY <1>5 DEF Execute, hardware
  <2>2. f \in AllFunctions
    OBVIOUS
  <2> QED
    BY <1>1, <2>1, <2>2 DEF DiskMatches, LoadedDisk, Linked, FirstStep, AllFunctions, MountFunctions,
                            UnlinkedFunctions
<1>6. CASE Open \/ Ask \/ Swap \/ Reset \/ Unlink
  <2>1. /\ step \notin {"eject", "load", "insert"} /\ step' \notin {"load", "insert"}
        /\ UNCHANGED medium
    BY <1>6 DEF Open, Ask, Swap, Reset, Unlink, At, Go, Finish
  <2>2. UNCHANGED <<disk_state, mount_file>> \/ disk_state' = "closed"
    BY <1>6 DEF Open, Ask, Swap, Reset, Unlink
  <2> QED
    BY <1>1, <1>2, <1>4, <2>1, <2>2 DEF DiskMatches, LoadedDisk, Linked
<1>7. CASE Mount \/ Close
  BY <1>2, <1>4, <1>7 DEF Mount, Close, At, Go, DiskMatches, LoadedDisk
<1>8. CASE Eject
  BY <1>2, <1>4, <1>8 DEF Eject, At, Go, Finish, DiskMatches, LoadedDisk, Linked
<1>9. CASE Load
  BY <1>1, <1>2, <1>4, <1>9 DEF Load, Loaded, At, Go, DiskMatches, LoadedDisk, Linked
<1>10. CASE Insert
  <2>1. disk_state' = "linked" => mount_file # NoFile
    BY <1>10 DEF Insert
  <2>2. mount_file # NoFile => \A t \in Tracks : medium[t].disk = mount_file.image
    BY <1>10 DEF Insert, At, LoadedDisk, NoCrossWrite, TypeOK, Files
  <2> QED
    BY <1>2, <1>4, <1>10, <2>1, <2>2 DEF Insert, At, Go, Finish, DiskMatches, LoadedDisk, Linked
<1> QED
  BY <1>2, <1>4, <1>5, <1>6, <1>7, <1>8, <1>9, <1>10 DEF Command

LEMMA DiskInvNext ==
  ASSUME DiskInv, [Next]_vars, "load" \notin Faults
  PROVE  DiskInv'
<1>1. CommandInv /\ DiskPart /\ CommandInv'
  BY CommandInvNext DEF DiskInv, DiskPart
<1>2. CASE \E S \in SUBSET Images : TakeMedia(S)
  <2>1. UNCHANGED <<hardware, image, disk, poller, command, mutex>>
    BY <1>2 DEF TakeMedia, OpenFileList, disk
  <2> QED
    BY <1>1, <2>1 DEF DiskInv, DiskPart, NoCrossWrite, DiskMatches, CopyMatches, LoadedDisk, Linked,
                      hardware, disk, poller, command
<1> QED
  BY <1>1, <1>2, DriveDisk, PollDisk, CommandDisk DEF Next, DiskInv, DiskPart

THEOREM DiskInvariant ==
  ASSUME "load" \notin Faults
  PROVE  Spec => []DiskInv
<1>1. Init => DiskInv
  BY InitCommandInv, InitDiskPart DEF DiskInv, DiskPart
<1>2. DiskInv /\ [Next]_vars => DiskInv'
  BY DiskInvNext
<1> QED
  BY <1>1, <1>2, PTL DEF Spec

(* C1541::poll writes into an image file only tracks of the disk that was   *)
(* loaded from it, whatever is mounted, swapped or removed at the same time *)
(* and whatever fails, provided that images load.                           *)
THEOREM ImagesKept ==
  ASSUME "load" \notin Faults
  PROVE  Spec => []NoCrossWrite
<1>1. DiskInv => NoCrossWrite
  BY DEF DiskInv
<1> QED
  BY <1>1, DiskInvariant, PTL

(****************************************************************************)
(* Marks are kept, whatever happens, when images load.                      *)
(****************************************************************************)
LEMMA InitMark == Init => MarkPart
  BY DEF Init, MarkPart, Marked, CopyMarked, Linked

LEMMA DriveMark ==
  ASSUME DiskInv, MarkPart, Drive \/ (\E on \in BOOLEAN : DrivePower(on)) \/ UNCHANGED vars
  PROVE  MarkPart'
<1>1. UNCHANGED <<image, failed, disk, poller, command>>
  BY DEF Drive, SwitchMotor, StepHead, WriteTrack, DrivePower, vars, storage
<1>2. CASE UNCHANGED <<medium, dirty>>
  BY <1>1, <1>2 DEF MarkPart, Marked, CopyMarked, Linked, Saved, disk, poller, command
<1>3. CASE WriteTrack
  <2>1. dirty' = dirty \cup {head} /\ \A t \in Tracks : t # head => medium'[t] = medium[t]
    BY <1>3 DEF WriteTrack, DiskInv, CommandInv, TypeOK
  <2>2. pc = "write" => tr \in Tracks
    BY DEF DiskInv, CommandInv, Scanning, ScanSteps
  <2>3. CopyMarked'
    BY <1>1, <2>1, <2>2 DEF MarkPart, CopyMarked, poller
  <2>4. Marked'
    BY <1>1, <2>1 DEF MarkPart, Marked, Linked, Saved, disk, poller, command
  <2> QED
    BY <2>3, <2>4 DEF MarkPart
<1> QED
  BY <1>2, <1>3 DEF Drive, SwitchMotor, StepHead, DrivePower, vars, hardware

LEMMA PollMark ==
  ASSUME DiskInv, MarkPart, Poll
  PROVE  MarkPart'
<1> USE DEF DiskInv, CommandInv, MarkPart
<1>1. UNCHANGED <<medium, command>>
  BY DEF Poll, Lock, Test, ReadFlag, ReadMotor, ReadTrack, ClearFlag, WriteBack, Scan, hardware
<1>2. CASE Lock \/ Test \/ ReadFlag \/ ReadMotor \/ ReadTrack
  <2>1. /\ UNCHANGED <<image, failed, dirty>>
        /\ pc # "write" /\ pc' # "write"
    BY <1>2 DEF Lock, Test, ReadFlag, ReadMotor, ReadTrack, Scan, NextTrack, Unlock, storage, hardware
  <2>2. UNCHANGED disk \/ disk_state' = "closed"
    BY <1>2 DEF Lock, Test, ReadFlag, ReadMotor, ReadTrack, Scan
  <2> QED
    BY <1>1, <2>1, <2>2 DEF Marked, CopyMarked, Linked, Saved, disk, command
<1>3. CASE ClearFlag
  <2>1. /\ dirty' = dirty \ {tr} /\ UNCHANGED <<image, failed, disk, tr>>
        /\ pc # "write" /\ pc' = "write" /\ copied' = medium[tr]
    BY <1>3 DEF ClearFlag, Scan
  <2> QED
    BY <1>1, <2>1 DEF Marked, CopyMarked, Linked, Saved, disk, command
<1>4. CASE WriteBack
  <2>1. /\ tr \in Tracks /\ mount_file.image \in Images /\ mount_file # NoFile /\ pc = "write"
    BY <1>4 DEF WriteBack, Scan, Scanning, ScanSteps, TypeOK, Files, NoFile
  <2>2. UNCHANGED <<disk, dirty>> /\ pc' = "flag"
    BY <1>4 DEF WriteBack, Scan, NextTrack
  <2>3. CASE failed' = failed \cup {tr} /\ UNCHANGED image
    BY <1>1, <2>2, <2>3 DEF Marked, CopyMarked, Linked, Saved, disk, command
  <2>4. ASSUME NEW c \in Outcomes(mount_file), failed' = failed \ {tr},
               image' = [image EXCEPT ![mount_file.image] = [@ EXCEPT ![tr] = c]]
        PROVE  MarkPart'
    <3>1. tr \in dirty \/ c = medium[tr]
      BY <2>1 DEF Outcomes, CopyMarked
    <3>2. image'[mount_file.image][tr] = c
          /\ \A t \in Tracks : t # tr => image'[mount_file.image][t] = image[mount_file.image][t]
      BY <2>1, <2>4 DEF TypeOK
    <3> QED
      BY <1>1, <2>1, <2>2, <2>4, <3>1, <3>2 DEF Marked, CopyMarked, Linked, Saved, disk, command
  <2> QED
    BY <1>4, <2>3, <2>4 DEF WriteBack
<1> QED
  BY <1>2, <1>3, <1>4 DEF Poll

LEMMA CommandMark ==
  ASSUME DiskInv, MarkPart, Command
  PROVE  MarkPart'
<1> USE DEF DiskInv, CommandInv, MarkPart, poller, storage
<1>1. UNCHANGED <<image, copied, pc, tr>>
  BY DEF Command, Execute, Open, Ask, Mount, Close, Eject, Load, Insert, Unlink, Swap, Reset, At
<1>2. ASSUME NEW f \in Functions \ {"ulticopy", "take_media"}, NEW u \in BOOLEAN, Execute(f, u)
      PROVE  MarkPart'
  <2>1. UNCHANGED <<hardware, storage, disk>> /\ step = "none"
    BY <1>2 DEF Execute
  <2> QED
    BY <1>1, <2>1 DEF Marked, CopyMarked, Linked, Saved, hardware, disk
<1>3. CASE Open \/ Ask \/ Mount \/ Close \/ Eject \/ Load \/ Insert \/ Unlink \/ Swap \/ Reset
  <2>1. pc = "delay"
    BY <1>3 DEF Open, Ask, Mount, Close, Eject, Load, Insert, Unlink, Swap, Reset, At, Owner
  <2>2. CopyMarked'
    BY <1>1, <2>1 DEF CopyMarked
  <2>3. CASE Open \/ Ask \/ Swap \/ Reset \/ Unlink
    <3>1. UNCHANGED <<medium, dirty, failed>> /\ step # "eject"
      BY <2>3 DEF Open, Ask, Swap, Reset, Unlink, At
    <3>2. UNCHANGED <<disk_state, mount_file>> \/ disk_state' = "closed"
      BY <2>3 DEF Open, Ask, Swap, Reset, Unlink, disk
    <3> QED
      BY <1>1, <2>2, <3>1, <3>2 DEF Marked, Linked, Saved
  <2>4. CASE Mount \/ Close \/ Eject
    BY <2>2, <2>4 DEF Mount, Close, Eject, At, Go, Marked, Linked
  <2>5. CASE Load
    BY <2>2, <2>5 DEF Load, At, LoadedDisk, Marked, Linked, disk
  <2>6. CASE Insert
    BY <1>1, <2>2, <2>6 DEF Insert, LoadedDisk, Marked, Linked, Saved
  <2> QED
    BY <1>3, <2>3, <2>4, <2>5, <2>6
<1> QED
  BY <1>2, <1>3 DEF Command

THEOREM MarkInvariant ==
  ASSUME "load" \notin Faults
  PROVE  Spec => []MarkInv
<1>1. Init => MarkInv
  BY InitCommandInv, InitDiskPart, InitMark DEF MarkInv, DiskInv, DiskPart
<1>2. MarkInv /\ [Next]_vars => MarkInv'
  <2> SUFFICES ASSUME MarkInv, [Next]_vars PROVE MarkInv'
    OBVIOUS
  <2>1. DiskInv'
    BY DiskInvNext DEF MarkInv
  <2>2. CASE \E S \in SUBSET Images : TakeMedia(S)
    <3>1. UNCHANGED <<hardware, image, failed, disk, poller, command>>
      BY <2>2 DEF TakeMedia, OpenFileList, disk
    <3> QED
      BY <2>1, <3>1 DEF MarkInv, MarkPart, Marked, CopyMarked, Linked, Saved, hardware, disk,
                        poller, command
  <2> QED
    BY <2>1, <2>2, DriveMark, PollMark, CommandMark DEF MarkInv, Next
<1> QED
  BY <1>1, <1>2, PTL DEF Spec

(* C1541::poll, the reset, UltiCopy, swaps and changes of disk never take the *)
(* flag from a track that is not in its file, in whatever order they come;   *)
(* only a write-back that fails does.                                        *)
THEOREM MarksAreKept ==
  ASSUME "load" \notin Faults
  PROVE  Spec => []MarksKept
<1>1. MarkInv => MarksKept
  BY DEF MarkInv, DiskInv, CommandInv, Owner, MarkPart, Marked, MarksKept
<1> QED
  BY <1>1, MarkInvariant, PTL

(****************************************************************************)
(* Nothing that the drive writes is forgotten, when writes to the file      *)
(* succeed and nobody resets the drive or swaps the disk.                   *)
(****************************************************************************)
LEMMA InitWriteBack == Init => WriteBackPart
  BY DEF Init, WriteBackPart, Protection, Protected, FlagStays, Noticed, Pending, CopyCurrent, Linked

LEMMA DriveWriteBack ==
  ASSUME DiskInv, WriteBackPart, Drive \/ UNCHANGED vars
  PROVE  WriteBackPart'
<1>1. UNCHANGED <<image, inserted, sensor, disk, poller, command>>
  BY DEF Drive, SwitchMotor, StepHead, WriteTrack, vars, hardware, storage
<1>2. CASE UNCHANGED <<medium, dirty, any_dirty>>
  BY <1>1, <1>2 DEF WriteBackPart, Protection, Protected, FlagStays, Noticed, Pending, CopyCurrent,
                    Linked, Saved, Ahead, disk, poller, command
<1>3. CASE WriteTrack
  <2> USE DEF WriteBackPart, disk, poller, command
  <2>1. dirty' = dirty \cup {head} /\ any_dirty' = TRUE /\ sensor = "light"
    BY <1>3 DEF WriteTrack
  <2>2. \A t \in Tracks : t # head => medium'[t] = medium[t]
    BY <1>3 DEF WriteTrack, DiskInv, CommandInv, TypeOK
  <2>3. (Protection /\ Protected /\ FlagStays)'
    BY <1>1, <2>1 DEF Protection, Protected, FlagStays, Linked
  <2>4. Noticed'
    BY <2>1 DEF Noticed
  <2>5. Pending'
    BY <1>1, <2>1, <2>2 DEF Pending, Linked, Saved
  <2>6. pc = "write" => tr \in Tracks
    BY DEF DiskInv, CommandInv, Scanning, ScanSteps
  <2>7. CopyCurrent'
    BY <1>1, <2>1, <2>2, <2>6 DEF CopyCurrent
  <2> QED
    BY <2>3, <2>4, <2>5, <2>7
<1> QED
  BY <1>2, <1>3 DEF Drive, SwitchMotor, StepHead, vars, hardware

LEMMA PollWriteBack ==
  ASSUME DiskInv, WriteBackPart, Poll, Faults = {}
  PROVE  WriteBackPart'
<1> USE DEF DiskInv, CommandInv, WriteBackPart
<1>1. UNCHANGED <<medium, inserted, sensor, command>>
  BY DEF Poll, Lock, Test, ReadFlag, ReadMotor, ReadTrack, ClearFlag, WriteBack, Scan, hardware
<1>2. pc # "delay" => step = "none"
  BY DEF Owner
<1>3. CASE Lock
  BY <1>1, <1>3 DEF Lock, Protection, Protected, FlagStays, Noticed, Pending, CopyCurrent, Linked,
                    Saved, Ahead, ScanSteps, hardware, storage, disk, command
<1>4. CASE Test
  <2>1. UNCHANGED <<dirty, image>> /\ pc' \in {"delay", "flag"} /\ pc = "test"
    BY <1>4 DEF Test, Unlock, storage
  <2>2. UNCHANGED disk \/ disk_state' = "closed"
    BY <1>4 DEF Test
  <2>3. Protection'
    BY <1>1, <1>2, <2>1 DEF Protection, command
  <2>4. (Protected /\ Pending)'
    BY <1>1, <1>2, <2>1, <2>2 DEF Protected, Pending, Linked, Saved, disk, command
  <2>5. Noticed'
    <3>1. CASE UNCHANGED <<any_dirty, write_skip>>
      BY <2>1, <3>1 DEF Noticed, Ahead, ScanSteps
    <3>2. CASE tr' = 1 /\ pc' = "flag"
      BY <2>1, <3>2 DEF Noticed, Ahead, ScanSteps, TypeOK, Tracks
    <3> QED
      BY <1>4, <3>1, <3>2 DEF Test
  <2> QED
    BY <2>1, <2>3, <2>4, <2>5 DEF FlagStays, CopyCurrent
<1>5. CASE ReadFlag \/ ReadMotor \/ ReadTrack
  <2>1. /\ UNCHANGED <<dirty, any_dirty, image, disk, copied>>
        /\ pc \in ScanSteps \ {"write"} /\ pc' # "write"
    BY <1>5 DEF ReadFlag, ReadMotor, ReadTrack, Scan, Unlock, NextTrack, ScanSteps
  <2>2. FlagStays'
    BY <1>5, <2>1 DEF ReadFlag, ReadMotor, ReadTrack, Scan, Unlock, NextTrack, FlagStays
  <2>3. Noticed'
    <3>1. CASE ReadFlag
      BY <2>1, <3>1 DEF ReadFlag, Scan, Unlock, NextTrack, Noticed, Ahead, ScanSteps, TypeOK, Tracks
    <3>2. CASE ReadMotor
      BY <2>1, <3>2 DEF ReadMotor, Scan, Noticed, Ahead, ScanSteps
    <3>3. CASE ReadTrack
      BY <2>1, <3>3 DEF ReadTrack, Scan, NextTrack, Noticed, Ahead, ScanSteps, TypeOK, Tracks
    <3> QED
      BY <1>5, <3>1, <3>2, <3>3
  <2> QED
    BY <1>1, <2>1, <2>2, <2>3 DEF Protection, Protected, Pending, CopyCurrent, Linked, Saved, disk, command
<1>6. CASE ClearFlag
  <2>1. tr \in dirty /\ tr \in Tracks /\ Linked /\ mount_file # NoFile
    BY <1>6 DEF ClearFlag, Scan, FlagStays, Scanning, ScanSteps
  <2>2. mount_file.write
    BY <1>2, <1>6, <2>1 DEF ClearFlag, Scan, Protected
  <2>3. dirty' = dirty \ {tr} /\ UNCHANGED <<image, disk, tr, any_dirty, write_skip>> /\ pc' = "write"
        /\ pc = "clear" /\ copied' = medium[tr]
    BY <1>6 DEF ClearFlag, Scan
  <2>4. Noticed'
    BY <2>3 DEF Noticed, Ahead, ScanSteps
  <2>5. (Protection /\ Protected /\ FlagStays /\ CopyCurrent)'
    BY <1>1, <2>2, <2>3 DEF Protection, Protected, FlagStays, CopyCurrent, Linked, disk, command
  <2>6. Pending'
    BY <1>1, <2>3 DEF Pending, Linked, Saved, disk, command
  <2> QED
    BY <2>4, <2>5, <2>6
<1>7. CASE WriteBack
  <2>1. PICK c \in Outcomes(mount_file) :
          image' = [image EXCEPT ![mount_file.image] = [@ EXCEPT ![tr] = c]]
    BY <1>7 DEF WriteBack, Scan, CopyCurrent
  <2>2. /\ tr \in Tracks /\ mount_file.image \in Images /\ mount_file # NoFile
        /\ mount_file.write /\ pc = "write"
    BY <1>7 DEF WriteBack, Scan, Scanning, ScanSteps, TypeOK, Files, NoFile, CopyCurrent
  <2>3. UNCHANGED <<disk, dirty, any_dirty, write_skip>> /\ tr' = tr + 1 /\ pc' = "flag"
    BY <1>7 DEF WriteBack, Scan, NextTrack
  <2>4. tr \in dirty \/ c = medium[tr]
    BY <2>2 DEF Outcomes, CopyCurrent
  <2>5. Noticed'
    BY <2>2, <2>3 DEF Noticed, Ahead, ScanSteps, TypeOK, Tracks
  <2>6. Pending'
    BY <1>1, <2>1, <2>2, <2>3, <2>4 DEF Pending, Linked, Saved, TypeOK, disk, command
  <2>7. (Protection /\ Protected /\ FlagStays /\ CopyCurrent)'
    BY <1>1, <2>3 DEF Protection, Protected, FlagStays, CopyCurrent, Linked, disk, command
  <2> QED
    BY <2>5, <2>6, <2>7
<1> QED
  BY <1>3, <1>4, <1>5, <1>6, <1>7 DEF Poll

(* Nobody resets the drive, swaps the disk or takes the medium out, and *)
(* the files can be read and written.                                   *)
Quiet == Functions \cap {"swap", "reset", "ulticopy", "take_media"} = {} /\ Faults = {}

LEMMA CommandWriteBack ==
  ASSUME DiskInv, WriteBackPart, Command, Quiet
  PROVE  WriteBackPart'
<1> USE DEF DiskInv, CommandInv, WriteBackPart, disk, poller, storage, Quiet
<1>1. UNCHANGED <<image, copied, pc, tr, write_skip>>
  BY DEF Command, Execute, Open, Ask, Mount, Close, Eject, Load, Insert, Unlink, Swap, Reset, At
<1>2. pc # "delay" => step = "none"
  BY DEF Owner
<1>3. ASSUME NEW f \in Functions \ {"ulticopy", "take_media"}, NEW u \in BOOLEAN, Execute(f, u)
      PROVE  WriteBackPart'
  <2>1. UNCHANGED <<hardware, storage, disk, newFile, protect>> /\ fn' = f
        /\ step' = FirstStep(f) /\ step = "none"
    BY <1>3 DEF Execute
  <2>2. f \in {"mount", "mount_ro", "mount_ul", "remove", "unlink", "blank"}
    BY DEF AllFunctions, MountFunctions, UnlinkedFunctions
  <2>3. FirstStep(f) \in {"open", "ask", "unlink", "close"} /\ (FirstStep(f) = "ask" => f = "remove")
    BY <2>2 DEF FirstStep, MountFunctions, UnlinkedFunctions
  <2>4. Protection'
    BY <2>1, <2>3 DEF Protection
  <2> QED
    BY <1>1, <2>1, <2>3, <2>4 DEF Protected, FlagStays, Noticed, Pending, CopyCurrent, Linked, Saved,
                                  Ahead, hardware
<1>4. CASE Open \/ Ask \/ Mount \/ Close \/ Eject \/ Load \/ Insert \/ Unlink
  <2>1. pc = "delay"
    BY <1>2, <1>4 DEF Open, Ask, Mount, Close, Eject, Load, Insert, Unlink, At
  <2>2. (FlagStays /\ CopyCurrent)'
    BY <1>1, <2>1 DEF FlagStays, CopyCurrent
  <2>3. Noticed'
    BY <1>1, <1>4, <2>1 DEF Open, Ask, Mount, Close, Eject, Load, Insert, Unlink, Noticed, Ahead
  <2>4. CASE Open
    <3>1. Protection'
      <4>1. CASE Finish
        BY <4>1 DEF Finish, Protection
      <4>2. ASSUME NEW i \in Images, NEW p, p = (fn = "mount_ro" \/ (fn = "mount" /\ i \in ReadOnly)),
                   fopen(i, fn = "mount" /\ ~p), protect' = p, Go("ask")
            PROVE  Protection'
        BY <4>2 DEF fopen, Go, Protection
      <4> QED
        BY <2>4, <4>1, <4>2 DEF Open
    <3>2. (Protected /\ Pending)'
      BY <1>1, <2>4 DEF Open, At, Go, Finish, Protected, Pending, Linked, Saved
    <3> QED
      BY <2>2, <2>3, <3>1, <3>2
  <2>5. CASE Ask
    BY <1>1, <2>2, <2>3, <2>5 DEF Ask, At, Go, Protection, Protected, Pending, Linked, Saved
  <2>6. CASE Mount
    BY <1>1, <2>2, <2>3, <2>6 DEF Mount, At, Go, Protection, Protected, Pending
  <2>7. CASE Close
    BY <1>1, <2>2, <2>3, <2>7 DEF Close, At, Go, AtStep, Protection, Protected, Pending
  <2>8. CASE Eject
    BY <1>1, <2>2, <2>3, <2>8 DEF Eject, At, Go, Finish, Protection, Protected, Pending, Linked
  <2>9. CASE Load
    BY <1>1, <2>2, <2>3, <2>9 DEF Load, At, Go, Protection, Protected, Pending, Linked, LoadedDisk
  <2>10. CASE Insert
    <3>1. Protection'
      BY <2>10 DEF Insert, At, Go, Finish, Protection
    <3>2. Pending'
      BY <1>1, <2>10 DEF Insert, At, Go, Finish, Pending, Linked, Saved, LoadedDisk
    <3>3. Protected'
      <4>1. CASE fn \in UnlinkedFunctions
        BY <2>10, <4>1 DEF Insert, Go, Protected
      <4>2. CASE mount_file = NoFile
        BY <2>10, <4>2 DEF Insert, Protected, Linked
      <4>3. CASE fn = "mount" /\ mount_file # NoFile
        BY <2>10, <4>3 DEF Insert, At, Go, Finish, Protection, Protected, TypeOK
      <4>4. fn \in UnlinkedFunctions \cup {"mount", "swap", "blank"} /\ fn # "swap"
        BY <2>10 DEF Insert, At, AtStep, MountFunctions, TypeOK
      <4> QED
        BY <2>10, <4>1, <4>2, <4>3, <4>4 DEF Insert, At, MountedFile, MountFunctions, UnlinkedFunctions
    <3> QED
      BY <2>2, <2>3, <3>1, <3>2, <3>3
  <2>11. CASE Unlink
    BY <1>1, <2>2, <2>3, <2>11 DEF Unlink, At, Finish, Protection, Protected, Pending, Linked
  <2> QED
    BY <1>4, <2>4, <2>5, <2>6, <2>7, <2>8, <2>9, <2>10, <2>11
<1>5. ~Swap /\ ~Reset
  BY DEF Swap, Reset, At, AtStep, TypeOK
<1> QED
  BY <1>3, <1>4, <1>5 DEF Command

THEOREM WriteBackInvariant ==
  ASSUME Quiet
  PROVE  Spec => []WriteBackInv
<1>1. Init => WriteBackInv
  BY InitCommandInv, InitDiskPart, InitWriteBack DEF WriteBackInv, DiskInv, DiskPart
<1>2. WriteBackInv /\ [Next]_vars => WriteBackInv'
  <2> SUFFICES ASSUME WriteBackInv, [Next]_vars PROVE WriteBackInv'
    OBVIOUS
  <2>1. DiskInv'
    BY DiskInvNext DEF WriteBackInv, Quiet
  <2>2. ~\E on \in BOOLEAN : DrivePower(on)
    BY DEF DrivePower, Quiet
  <2>3. ~\E S \in SUBSET Images : TakeMedia(S)
    BY DEF TakeMedia, Quiet
  <2> QED
    BY <2>1, <2>2, <2>3, DriveWriteBack, PollWriteBack, CommandWriteBack DEF WriteBackInv, Next, Quiet
<1> QED
  BY <1>1, <1>2, PTL DEF Spec

(* C1541::poll forgets no track: what the drive wrote is marked, and the     *)
(* mark will be seen, however the drive, the task and the mounting, removing *)
(* and unlinking of disks interleave.                                        *)
THEOREM NoTrackForgotten ==
  ASSUME Quiet
  PROVE  Spec => []NothingForgotten
<1>1. WriteBackInv => NothingForgotten
  <2> SUFFICES ASSUME WriteBackInv, Linked, mutex # "command", NEW t \in Tracks, ~Saved(t)
               PROVE  \/ t \in dirty /\ (any_dirty \/ write_skip # 0 \/ Ahead(t))
                      \/ pc = "write" /\ tr = t
    BY DEF NothingForgotten
  <2>1. step = "none"
    BY DEF WriteBackInv, DiskInv, CommandInv, Owner
  <2>2. t \in dirty \/ (pc = "write" /\ tr = t)
    BY <2>1 DEF WriteBackInv, WriteBackPart, Pending
  <2> QED
    BY <2>2 DEF WriteBackInv, WriteBackPart, Noticed
<1> QED
  BY <1>1, WriteBackInvariant, PTL

(* C1541::insert_disk protects every disk whose file cannot be written. *)
THEOREM WritesReachAFile ==
  ASSUME Quiet
  PROVE  Spec => []WritableHasFile
<1>1. WriteBackInv => WritableHasFile
  BY DEF WriteBackInv, DiskInv, CommandInv, Owner, WriteBackPart, Protected, WritableHasFile
<1> QED
  BY <1>1, WriteBackInvariant, PTL
=============================================================================
