------------------------------ MODULE C1541Drive ------------------------------
(****************************************************************************)
(* One emulated 1541 drive and the image file that is mounted on it         *)
(* (software/drive/c1541.cc over fpga/1541/vhdl_source/drive_registers.vhd).*)
(*                                                                          *)
(* Three parties work on it at the same time: the drive hardware, which     *)
(* writes tracks and marks them dirty; the task of the drive, whose poll    *)
(* writes dirty tracks back to the image file; and the commands of the menu *)
(* and of the command interface, which mount and remove disks.  Poll and    *)
(* commands exclude each other by the mutex of the subsystem, the hardware  *)
(* is never stopped.  One step is one access to a hardware register, with   *)
(* the code around it on data that the mutex protects.                      *)
(****************************************************************************)
EXTENDS Naturals

CONSTANTS
  LastTrack,    \* tracks are 1 .. LastTrack (C1541_MAXTRACKS / 2)
  Images,       \* image files on the storage media
  ReadOnly,     \* those with the attribute AM_RDO
  MaxWrites,    \* bound: how often one track of one disk is written
  Functions,    \* what users ask of the drive
  Faults        \* "write", "load": what may fail of the image file

Tracks == 1 .. LastTrack
Blank == "blank"                           \* no image: a disk of mount_blank
UnlinkedFunctions == {"mount_ro", "mount_ul"}   \* end by unlinking the disk
MountFunctions == {"mount"} \cup UnlinkedFunctions
UciFunctions == {"mount", "remove", "swap"}   \* what dos.cc asks of a drive
AllFunctions == MountFunctions \cup
  {"remove", "unlink", "blank", "swap", "reset", "ulticopy", "take_media"}

ASSUME DriveAssumption ==
  /\ LastTrack \in Nat \ {0}
  /\ Blank \notin Images /\ ReadOnly \subseteq Images
  /\ MaxWrites \in Nat
  /\ Functions \subseteq AllFunctions
  /\ Faults \subseteq {"write", "load"}

VARIABLES
  power, motor,    \* C1541_POWER, DRVSTAT_MOTOR
  head,            \* C1541_TRACK >> 1
  inserted,        \* C1541_INSERTED
  sensor,          \* C1541_SENSOR: "light" lets the drive write
  any_dirty,       \* C1541_ANYDIRTY
  dirty,           \* C1541_DIRTYFLAGS, as the set of the tracks whose flag is set
  medium,          \* the tracks in the memory of the drive
  image,           \* the tracks in the image files
  gone,            \* images on media that were taken out
  failed,          \* tracks of the disk whose last write_track failed: nobody keeps it
  disk_state, mount_file, write_skip,
  open_files,      \* number of File objects this drive has open
  mutex,           \* SubSystem::myMutex
  pc,              \* next step of poll
  tr,              \* the track poll is at
  copied,          \* what poll found on the track when it began to copy it
  step,            \* next step of the command
  fn, ui,          \* the command, and whether it comes with a user interface
  newFile, protect \* local to executeCommand

hardware == <<power, motor, head, inserted, sensor, any_dirty, dirty, medium>>
storage == <<image, gone, failed>>
disk == <<disk_state, mount_file, open_files>>
poller == <<pc, tr, copied, write_skip>>
command == <<step, fn, ui, newFile, protect>>
vars == <<hardware, storage, disk, poller, command, mutex>>

(* What is on a track: of which disk, and which version of it; the version *)
(* MaxWrites + 1 is a copy that was taken while the drive was writing.     *)
Torn == MaxWrites + 1
Contents == [disk : Images \cup {Blank}, n : 0 .. Torn]
Fresh(d) == [disk |-> d, n |-> 0]

Files == [image : Images, write : BOOLEAN, valid : BOOLEAN]
NoFile == [image |-> Blank, write |-> FALSE, valid |-> FALSE]
DiskStates == {"no_disk", "closed", "linked"}     \* "linked": e_d64_disk, e_gcr_disk
ScanSteps == {"flag", "motor", "track", "clear", "write"}
PollSteps == {"delay", "test"} \cup ScanSteps
CommandSteps == {"none", "open", "ask", "mount", "close", "eject", "load", "insert",
                 "unlink", "swap", "reset", "crashed"}

TypeOK ==
  /\ power \in BOOLEAN /\ motor \in BOOLEAN /\ head \in Tracks
  /\ inserted \in BOOLEAN /\ sensor \in {"light", "dark"}
  /\ any_dirty \in BOOLEAN /\ dirty \in SUBSET Tracks
  /\ medium \in [Tracks -> Contents]
  /\ image \in [Images -> [Tracks -> Contents]]
  /\ gone \in SUBSET Images /\ failed \in SUBSET Tracks
  /\ disk_state \in DiskStates
  /\ mount_file \in Files \cup {NoFile} /\ newFile \in Files \cup {NoFile}
  /\ open_files \in Nat /\ write_skip \in Nat
  /\ mutex \in {"free", "poll", "command"}
  /\ pc \in PollSteps /\ tr \in 1 .. LastTrack + 1 /\ copied \in Contents
  /\ step \in CommandSteps /\ fn \in Functions \cup {"none"}
  /\ ui \in BOOLEAN /\ protect \in BOOLEAN

Init ==
  /\ power = TRUE /\ motor = FALSE /\ head \in Tracks
  /\ inserted = FALSE /\ sensor = "light"
  /\ any_dirty = FALSE /\ dirty = {}
  /\ medium = [t \in Tracks |-> Fresh(Blank)]
  /\ image = [i \in Images |-> [t \in Tracks |-> Fresh(i)]]
  /\ gone = {} /\ failed = {}
  /\ disk_state = "no_disk" /\ mount_file = NoFile /\ newFile = NoFile
  /\ open_files = 0 /\ write_skip = 0
  /\ mutex = "free"
  /\ pc = "delay" /\ tr = 1 /\ copied = Fresh(Blank)
  /\ step = "none" /\ fn = "none" /\ ui = FALSE /\ protect = FALSE

(****************************************************************************)
(* The drive hardware, under the program of the drive's own processor.      *)
(****************************************************************************)
SwitchMotor ==
  /\ power
  /\ motor' = ~motor
  /\ UNCHANGED <<power, head, inserted, sensor, any_dirty, dirty, medium>>
  /\ UNCHANGED <<storage, disk, poller, command, mutex>>

StepHead(t) ==
  /\ power /\ motor
  /\ t \in {head - 1, head + 1} \cap Tracks
  /\ head' = t
  /\ UNCHANGED <<power, motor, inserted, sensor, any_dirty, dirty, medium>>
  /\ UNCHANGED <<storage, disk, poller, command, mutex>>

(* Write current on a turning disk marks the track and any_dirty in every *)
(* clock; the drive's ROM writes only when the sensor sees light.         *)
WriteTrack ==
  /\ power /\ motor /\ inserted /\ sensor = "light"
  /\ medium[head].n < MaxWrites
  /\ medium' = [medium EXCEPT ![head] = [disk |-> @.disk, n |-> @.n + 1]]
  /\ dirty' = dirty \cup {head}
  /\ any_dirty' = TRUE
  /\ UNCHANGED <<power, motor, head, inserted, sensor>>
  /\ UNCHANGED <<storage, disk, poller, command, mutex>>

Drive == SwitchMotor \/ (\E t \in Tracks : StepHead(t)) \/ WriteTrack

(****************************************************************************)
(* C1541::run and C1541::poll                                               *)
(****************************************************************************)
(* FileManager::open_file_list: fclose removes from it, nothing appends. *)
OpenFileList == {}

Lock ==
  /\ pc = "delay" /\ mutex = "free"
  /\ mutex' = "poll" /\ pc' = "test"
  /\ UNCHANGED <<tr, copied, write_skip, hardware, storage, disk, command>>

Unlock == mutex' = "free" /\ pc' = "delay"

Linked == disk_state = "linked"

(* Mutant: the scan begins at the second track. *)
TestFromSecond ==
  /\ pc = "test"
  /\ UNCHANGED disk
  /\ IF mount_file # NoFile /\ Linked /\ (any_dirty \/ write_skip # 0)
     THEN /\ any_dirty' = (any_dirty /\ write_skip # 0)
          /\ write_skip' = 0 /\ tr' = 2 /\ pc' = "flag"
          /\ UNCHANGED mutex
     ELSE Unlock /\ UNCHANGED <<any_dirty, write_skip, tr>>
  /\ UNCHANGED <<power, motor, head, inserted, sensor, dirty, medium, copied, storage, command>>

Test ==
  /\ pc = "test"
  /\ IF mount_file # NoFile /\ ~mount_file.valid
     THEN /\ disk_state' = "closed" /\ mount_file' = NoFile
          /\ open_files' = open_files - 1
     ELSE UNCHANGED disk
  /\ IF mount_file # NoFile /\ mount_file.valid /\ Linked /\ (any_dirty \/ write_skip # 0)
     THEN /\ any_dirty' = (any_dirty /\ write_skip # 0)
          /\ write_skip' = 0 /\ tr' = 1 /\ pc' = "flag"
          /\ UNCHANGED mutex
     ELSE Unlock /\ UNCHANGED <<any_dirty, write_skip, tr>>
  /\ UNCHANGED <<power, motor, head, inserted, sensor, dirty, medium, copied, storage, command>>

NextTrack == tr' = tr + 1 /\ pc' = "flag" /\ UNCHANGED mutex

Scan(from) ==
  /\ pc = from
  /\ UNCHANGED <<power, motor, head, inserted, sensor, any_dirty, medium, gone, disk, command>>

(* Mutant: the scan ends one track too late. *)
ReadFlagBeyond ==
  /\ Scan("flag")
  /\ CASE tr > LastTrack + 1         -> Unlock /\ UNCHANGED tr
       [] tr <= LastTrack /\ tr \in dirty -> pc' = "motor" /\ UNCHANGED <<tr, mutex>>
       [] OTHER                      -> NextTrack
  /\ UNCHANGED <<copied, write_skip, dirty, image, failed>>

(* Mutant: the flag is cleared before the track may be skipped. *)
ReadFlagClearing ==
  /\ Scan("flag")
  /\ CASE tr > LastTrack             -> Unlock /\ UNCHANGED tr
       [] tr <= LastTrack /\ tr \in dirty -> pc' = "motor" /\ UNCHANGED <<tr, mutex>>
       [] OTHER                      -> NextTrack
  /\ dirty' = dirty \ {tr}
  /\ UNCHANGED <<copied, write_skip, image, failed>>

ReadFlag ==
  /\ Scan("flag")
  /\ CASE tr > LastTrack             -> Unlock /\ UNCHANGED tr
       [] tr <= LastTrack /\ tr \in dirty -> pc' = "motor" /\ UNCHANGED <<tr, mutex>>
       [] OTHER                      -> NextTrack
  /\ UNCHANGED <<copied, write_skip, dirty, image, failed>>

ReadMotor ==
  /\ Scan("motor")
  /\ pc' = IF motor THEN "track" ELSE "clear"
  /\ UNCHANGED <<tr, copied, write_skip, dirty, image, failed, mutex>>

(* Mutant: the tracks that are skipped are not counted. *)
ReadTrackUncounted ==
  /\ Scan("track")
  /\ IF head = tr THEN NextTrack ELSE pc' = "clear" /\ UNCHANGED <<tr, mutex>>
  /\ UNCHANGED <<copied, write_skip, dirty, image, failed>>

(* The track under the head of a turning disk is skipped for now. *)
ReadTrack ==
  /\ Scan("track")
  /\ IF head = tr
     THEN write_skip' = write_skip + 1 /\ NextTrack
     ELSE pc' = "clear" /\ UNCHANGED <<tr, mutex, write_skip>>
  /\ UNCHANGED <<copied, dirty, image, failed>>

ClearFlag ==
  /\ Scan("clear")
  /\ dirty' = dirty \ {tr}
  /\ copied' = medium[tr]
  /\ pc' = "write"
  /\ UNCHANGED <<tr, write_skip, image, failed, mutex>>

(* What may be in the file after a write that succeeds: the track; or, when *)
(* the drive wrote to it at the same time, either version, a mixture, or    *)
(* what was there before because the mixture does not decode.               *)
Outcomes(f) ==
  IF copied = medium[tr] THEN {copied}
  ELSE {image[f.image][tr], copied, medium[tr], [disk |-> copied.disk, n |-> Torn]}

(* write_track: seek, write, sync.  Its result is ignored. *)
WriteBack ==
  /\ Scan("write")
  /\ \/ /\ mount_file.write
        /\ \E c \in Outcomes(mount_file) :
              image' = [image EXCEPT ![mount_file.image] = [@ EXCEPT ![tr] = c]]
        /\ failed' = failed \ {tr}
     \/ /\ ~mount_file.write \/ "write" \in Faults
        /\ failed' = failed \cup {tr}
        /\ UNCHANGED image
  /\ NextTrack
  /\ UNCHANGED <<copied, write_skip, dirty>>

Poll == Lock \/ Test \/ ReadFlag \/ ReadMotor \/ ReadTrack \/ ClearFlag \/ WriteBack

(****************************************************************************)
(* SubsysCommand::execute and C1541::executeCommand                         *)
(****************************************************************************)
FirstStep(f) ==
  IF f \in MountFunctions THEN "open"
  ELSE IF f = "remove" THEN "ask"
  ELSE IF f = "blank" THEN "close"
  ELSE f                                \* "unlink", "swap", "reset"

(* A command of the menu has a user interface, one of the command interface *)
(* has not.  A command that does not get the mutex in time does nothing.    *)
Execute(f, u) ==
  /\ mutex = "free" /\ step = "none"
  /\ u \/ f \in UciFunctions
  /\ mutex' = "command" /\ fn' = f /\ ui' = u /\ step' = FirstStep(f)
  /\ UNCHANGED <<hardware, storage, disk, poller, newFile, protect>>

At(s) == step = s /\ UNCHANGED <<head, poller, storage>>
Go(s) == step' = s /\ UNCHANGED <<fn, ui, mutex>>
Finish == mutex' = "free" /\ step' = "none" /\ fn' = "none" /\ ui' = FALSE

fopen(i, w) ==
  /\ newFile' = [image |-> i, write |-> w, valid |-> TRUE]
  /\ open_files' = open_files + 1

Open ==
  /\ At("open")
  /\ \/ \E i \in Images \ gone :
           LET p == fn = "mount_ro" \/ (fn = "mount" /\ i \in ReadOnly)
           IN  /\ fopen(i, fn = "mount" /\ ~p)
               /\ protect' = p
               /\ Go("ask")
     \/ Finish /\ UNCHANGED <<newFile, protect, open_files>>     \* "Error opening file."
  /\ UNCHANGED <<power, motor, inserted, sensor, any_dirty, dirty, medium, disk_state, mount_file>>

(* check_if_save_needed: asks by the user interface of the command, a null *)
(* pointer for the command interface.  What is saved is another file.      *)
Ask ==
  /\ At("ask")
  /\ Go(IF (any_dirty \/ write_skip # 0) /\ disk_state # "no_disk" /\ ~ui THEN "crashed"
        ELSE IF fn = "remove" THEN "close" ELSE "mount")
  /\ UNCHANGED <<power, motor, inserted, sensor, any_dirty, dirty, medium, disk, newFile, protect>>

(* Mutant: the file of the disk that goes is not closed. *)
MountLeak ==
  /\ At("mount")
  /\ mount_file' = newFile /\ newFile' = NoFile
  /\ Go("eject")
  /\ UNCHANGED <<power, motor, inserted, sensor, any_dirty, dirty, medium, disk_state, open_files, protect>>

Closed == open_files' = IF mount_file # NoFile THEN open_files - 1 ELSE open_files

(* mount_d64, mount_g64 *)
Mount ==
  /\ At("mount")
  /\ Closed
  /\ mount_file' = newFile /\ newFile' = NoFile
  /\ Go("eject")
  /\ UNCHANGED <<power, motor, inserted, sensor, any_dirty, dirty, medium, disk_state, protect>>

(* MENU_1541_REMOVE after the question, and the first lines of mount_blank *)
Close ==
  /\ At("close")
  /\ Closed
  /\ mount_file' = NoFile
  /\ protect' = FALSE
  /\ Go("eject")
  /\ UNCHANGED <<power, motor, inserted, sensor, any_dirty, dirty, medium, disk_state, newFile>>

(* remove_disk *)
Eject ==
  /\ At("eject")
  /\ inserted' = FALSE /\ sensor' = "light" /\ disk_state' = "no_disk"
  /\ IF fn = "remove" THEN Finish ELSE Go("load")
  /\ UNCHANGED <<power, motor, any_dirty, dirty, medium, mount_file, open_files, newFile, protect>>

Loaded == IF mount_file = NoFile THEN [t \in Tracks |-> Fresh(Blank)]
                                 ELSE image[mount_file.image]

(* Mutant: the last track of the disk that was there before stays. *)
LoadShort ==
  /\ At("load")
  /\ medium' = [t \in Tracks |-> IF t = LastTrack THEN medium[t] ELSE Loaded[t]]
  /\ Go("insert")
  /\ UNCHANGED <<power, motor, inserted, sensor, any_dirty, dirty, disk, newFile, protect>>

(* BinImage::load and convert_disk_bin2gcr, GcrImage::load or blank.  When *)
(* GcrImage::load fails it leaves the tracks alone; nobody asks.           *)
Load ==
  /\ At("load")
  /\ \/ medium' = Loaded
     \/ "load" \in Faults /\ mount_file # NoFile /\ UNCHANGED medium
  /\ Go("insert")
  /\ UNCHANGED <<power, motor, inserted, sensor, any_dirty, dirty, disk, newFile, protect>>

(* Mutant: the write protection of the image is not passed on. *)
InsertUnprotected ==
  /\ step = "insert" /\ UNCHANGED <<head, poller, image, gone>>
  /\ dirty' = {} /\ any_dirty' = FALSE /\ failed' = {}
  /\ sensor' = "light"
  /\ inserted' = TRUE
  /\ disk_state' = IF mount_file = NoFile THEN "closed" ELSE "linked"
  /\ IF fn \in UnlinkedFunctions THEN Go("unlink") ELSE Finish
  /\ UNCHANGED <<power, motor, medium, mount_file, open_files, newFile, protect>>

(* insert_disk *)
Insert ==
  /\ step = "insert" /\ UNCHANGED <<head, poller, image, gone>>
  /\ dirty' = {} /\ any_dirty' = FALSE /\ failed' = {}
  /\ sensor' = IF protect THEN "dark" ELSE "light"
  /\ inserted' = TRUE
  /\ disk_state' = IF mount_file = NoFile THEN "closed" ELSE "linked"
  /\ IF fn \in UnlinkedFunctions THEN Go("unlink") ELSE Finish
  /\ UNCHANGED <<power, motor, medium, mount_file, open_files, newFile, protect>>

Unlink ==
  /\ At("unlink")
  /\ disk_state' = "closed"
  /\ Closed
  /\ mount_file' = NoFile
  /\ Finish
  /\ UNCHANGED <<power, motor, inserted, sensor, any_dirty, dirty, medium, newFile, protect>>

(* swap_disk: the next image in the series, if it opens *)
Swap ==
  /\ At("swap")
  /\ \/ /\ mount_file # NoFile
        /\ \E i \in Images \ gone : i # mount_file.image /\ fopen(i, FALSE)
        /\ protect' = FALSE
        /\ Go("mount")
     \/ Finish /\ UNCHANGED <<newFile, open_files, protect>>
  /\ UNCHANGED <<power, motor, inserted, sensor, any_dirty, dirty, medium, disk_state, mount_file>>

(* MENU_1541_RESET: drive_power(true); the reset of the port that switches *)
(* the motor leaves it on.                                                 *)
Reset ==
  /\ At("reset")
  /\ power' = TRUE /\ motor' = TRUE
  /\ any_dirty' = FALSE
  /\ Finish
  /\ UNCHANGED <<inserted, sensor, dirty, medium, disk, newFile, protect>>

Command ==
  \/ \E f \in Functions \ {"ulticopy", "take_media"}, u \in BOOLEAN : Execute(f, u)
  \/ Open \/ Ask \/ Mount \/ Close \/ Eject \/ Load \/ Insert
  \/ Unlink \/ Swap \/ Reset

(* UltiCopy turns the drive off, without the mutex, and effectuate_settings *)
(* turns it on again.                                                       *)
DrivePower(on) ==
  /\ "ulticopy" \in Functions
  /\ power # on /\ (on => mutex = "free")
  /\ power' = on /\ motor' = on
  /\ any_dirty' = FALSE
  /\ UNCHANGED <<head, inserted, sensor, dirty, medium>>
  /\ UNCHANGED <<storage, disk, poller, command, mutex>>

(* The medium of the images S is taken out: FileManager::invalidate *)
TakeMedia(S) ==
  /\ "take_media" \in Functions
  /\ gone' = gone \cup S
  /\ mount_file' = IF mount_file \in OpenFileList /\ mount_file.image \in S
                    THEN [image |-> mount_file.image, write |-> mount_file.write,
                          valid |-> FALSE]
                    ELSE mount_file
  /\ UNCHANGED <<hardware, image, failed, disk_state, open_files, poller, command, mutex>>

Next ==
  \/ Drive \/ Poll \/ Command
  \/ \E on \in BOOLEAN : DrivePower(on)
  \/ \E S \in SUBSET Images : TakeMedia(S)

Spec == Init /\ [][Next]_vars

(* The task of the drive runs again after every delay; nothing is assumed *)
(* of the drive, of the users or of the media.                            *)
FairSpec == Spec /\ WF_vars(Poll)

(****************************************************************************)
(* Properties                                                               *)
(****************************************************************************)
(* Poll has not yet come to the flag of track t in the scan it is doing. *)
Ahead(t) == pc \in ScanSteps /\ (t > tr \/ (t = tr /\ pc # "write"))

Saved(t) == mount_file # NoFile => medium[t] = image[mount_file.image][t]

(* A track of a mounted disk that differs from its image file is marked, and *)
(* the mark will be seen: any_dirty is set, or a skip was counted, or the    *)
(* scan has not come to it; or it is being written back right now.  Else     *)
(* the change would stay in memory only, until some other write.             *)
NothingForgotten ==
  Linked /\ mutex # "command" =>
    \A t \in Tracks : ~Saved(t) =>
      \/ t \in dirty /\ (any_dirty \/ write_skip # 0 \/ Ahead(t))
      \/ pc = "write" /\ tr = t

(* Resets, UltiCopy, swaps, the change of disks and failing writes may all   *)
(* keep poll from looking at a changed track, but the flag of such a track   *)
(* stays set until the track is in the file: only a write-back that failed   *)
(* loses it.  So the next scan that starts still finds the change.           *)
MarksKept ==
  Linked /\ mutex # "command" =>
    \A t \in Tracks : Saved(t) \/ t \in dirty \cup failed \/ (pc = "write" /\ tr = t)

(* An image file only ever receives tracks of the disk loaded from it. *)
NoCrossWrite == \A i \in Images, t \in Tracks : image[i][t].disk = i

(* Between two commands the only file a drive has open is the mounted one. *)
OpenIsMounted ==
  mutex # "command" => open_files = (IF mount_file = NoFile THEN 0 ELSE 1)

(* A disk the drive can write to has a file that can be written.  The disk *)
(* of a read-only image is protected; an unlinked disk has no file.        *)
WritableHasFile ==
  Linked /\ inserted /\ sensor = "light" /\ mutex # "command" => mount_file.write

(* When the motor stays off and the disk stays, all of it gets to the file. *)
Settled == ~motor /\ Linked /\ mutex # "command"
Converges == (<>[]Settled) => <>[](\A t \in Tracks : Saved(t))
=============================================================================
