--------------------------------- MODULE Dos ----------------------------------
(****************************************************************************)
(* The DOS target of the command interface (software/filemanager/dos.cc):   *)
(* commands on one file and one directory, whose replies may be given in    *)
(* parts.  The command interface calls it as CommandInterface describes for *)
(* a patient C64: a command when no reply is open, get_more_data or abort   *)
(* while the last part has not been given.                                  *)
(*                                                                          *)
(* The data of a file are the positions read, those of a directory its      *)
(* entries, so that what a reply contains can be told.                      *)
(****************************************************************************)
EXTENDS Integers, SequencesExt

CONSTANTS
  Chunk,        \* bytes of data_message (512)
  SizeOf,       \* the files there are, and their sizes at first
  EntriesOf,    \* the directories there are, and their numbers of entries
  Lengths,      \* bound: what is asked for, written, or moved to
  MaxCommands,  \* bound: commands
  MaxObjects    \* bound: file objects

Names == DOMAIN SizeOf
Dirs == DOMAIN EntriesOf
Missing == "missing"

ASSUME DosAssumption ==
  /\ Chunk \in Nat \ {0} /\ Lengths \subseteq Nat
  /\ MaxCommands \in Nat /\ MaxObjects \in Nat
  /\ SizeOf \in [Names -> Nat] /\ EntriesOf \in [Dirs -> Nat]
  /\ Missing \notin Names \cup Dirs /\ "closed" \notin Names

VARIABLES
  dos_state, remaining, dir_entries, current_index,
  directoryList,   \* the entries, <<directory, number>>
  path,            \* the current directory
  file,            \* the number of the File object, 0 for none
  objects,         \* File objects that were made and not closed: [name, pos]
  size,            \* sizes of the files
  data, last,      \* *reply
  status,          \* *status: what it says, and of which command
  open,            \* history: the last part of the reply has not been given
  commands,        \* history: number of commands
  given,           \* history: data of the reply so far
  claim,           \* history: what the reply has to be, if it is known
  fresh,           \* history: directoryList was filled by OPEN_DIR
  failed,          \* history: this command was to read and could not
  reopened         \* history: how often a file was opened while one was open

dos == <<dos_state, remaining, dir_entries, current_index, directoryList, path, file>>
disk == <<objects, size>>
reply == <<data, last, status>>
history == <<open, commands, given, claim, fresh, failed, reopened>>
vars == <<dos, disk, reply, history>>

Entries(d) == [i \in 1 .. EntriesOf[d] |-> <<d, i>>]
Says(code) == [says |-> code, of |-> commands']
Quiet == Says("")

TypeOK ==
  /\ dos_state \in {"idle", "in_file", "in_directory"}
  /\ remaining \in Nat /\ dir_entries \in Nat
  /\ current_index \in Nat /\ (open /\ dos_state = "in_directory" => current_index <= Len(directoryList))
  /\ path \in Dirs
  /\ file = 0 \/ (file \in DOMAIN objects /\ objects[file].name \in Names)
  /\ \A i \in DOMAIN objects : objects[i].name \in Names \cup {"closed"}
  /\ Len(data) <= Chunk /\ last \in BOOLEAN

Init ==
  /\ dos_state = "idle" /\ remaining = 0 /\ dir_entries = 0 /\ current_index = 0
  /\ directoryList = <<>> /\ path \in Dirs /\ file = 0
  /\ objects = <<>> /\ size = SizeOf
  /\ data = <<>> /\ last = TRUE /\ status = [says |-> "", of |-> 0]
  /\ open = FALSE /\ commands = 0 /\ given = <<>> /\ claim = {}
  /\ fresh = FALSE /\ failed = FALSE /\ reopened = 0

(****************************************************************************)
(* get_more_data                                                            *)
(****************************************************************************)
Least(a, b) == IF a < b THEN a ELSE b
Stretch(f, n) == [i \in 1 .. n |-> <<f.name, f.pos + i>>]

(* What File::read gives of n bytes: all there are, or less and an error. *)
Read(n, bytes, fails) ==
  LET f == objects[file]
      rest == Least(n, IF size[f.name] > f.pos THEN size[f.name] - f.pos ELSE 0)
  IN  /\ IF fails THEN Len(bytes) \in 0 .. rest ELSE Len(bytes) = rest
      /\ bytes = Stretch(f, Len(bytes))
      /\ objects' = [objects EXCEPT ![file].pos = @ + Len(bytes)]

(* Mutant: what was transferred is not taken off. *)
DataPartForgetting(left, bytes, fails) ==
  LET length == Least(left, Chunk)
  IN  /\ Read(length, bytes, fails)
      /\ remaining' = left
      /\ last' = (Len(bytes) # length \/ left = 0)
      /\ dos_state' = IF last' THEN "idle" ELSE "in_file"
      /\ data' = bytes
      /\ status' = IF fails THEN status ELSE Quiet

(* Mutant: a short part is not the last one. *)
DataPartToCount(left, bytes, fails) ==
  LET length == Least(left, Chunk)
  IN  /\ Read(length, bytes, fails)
      /\ remaining' = left - Len(bytes)
      /\ last' = (left = Len(bytes))
      /\ dos_state' = IF last' THEN "idle" ELSE "in_file"
      /\ data' = bytes
      /\ status' = IF fails THEN status ELSE Quiet

(* A part of `left` bytes.  After an error the status stays what it was,  *)
(* only the text of the error is put where nobody is pointed to.          *)
DataPart(left, bytes, fails) ==
  LET length == Least(left, Chunk)
  IN  /\ Read(length, bytes, fails)
      /\ remaining' = left - Len(bytes)
      /\ last' = (Len(bytes) # length \/ left = Len(bytes))
      /\ dos_state' = IF last' THEN "idle" ELSE "in_file"
      /\ data' = bytes
      /\ status' = IF fails THEN status ELSE Quiet

(* The entry at index.  When the list is shorter than dir_entries says, it *)
(* ends with an error, and the state stays as it is.                       *)
DirectoryPart(index) ==
  IF index >= Len(directoryList)
  THEN /\ data' = <<>> /\ last' = TRUE /\ status' = Says("error")
       /\ dos_state' = "in_directory" /\ current_index' = index
  ELSE /\ data' = <<directoryList[index + 1]>>
       /\ current_index' = index + 1
       /\ last' = (index + 1 = dir_entries)
       /\ dos_state' = IF last' THEN "idle" ELSE "in_directory"
       /\ status' = IF last' THEN Says("ok") ELSE Quiet

Parts(n) == {Stretch(objects[file], i) : i \in 0 .. Least(n, Chunk)}

(****************************************************************************)
(* parse_command                                                            *)
(****************************************************************************)
Command == ~open /\ commands < MaxCommands /\ commands' = commands + 1

(* A reply of one empty part. *)
Answer(code) ==
  /\ Command
  /\ data' = <<>> /\ last' = TRUE /\ status' = Says(code)
  /\ open' = FALSE /\ given' = <<>> /\ claim' = {} /\ failed' = FALSE

UnchangedReading == UNCHANGED <<dos_state, remaining, current_index>>
UnchangedDirectory == UNCHANGED <<dir_entries, directoryList, path, fresh>>

(* fopen makes a File object or leaves the pointer alone; what is tested   *)
(* is the pointer.  The file that was open is not closed.                  *)
OpenFile(name) ==
  /\ Len(objects) < MaxObjects
  /\ IF name = Missing
     THEN Answer(IF file = 0 THEN "error" ELSE "ok") /\ UNCHANGED <<file, objects>>
     ELSE /\ Answer("ok")
          /\ objects' = Append(objects, [name |-> name, pos |-> 0])
          /\ file' = Len(objects')
  /\ reopened' = IF name # Missing /\ file # 0 THEN reopened + 1 ELSE reopened
  /\ UnchangedReading /\ UnchangedDirectory /\ UNCHANGED size

(* Mutant: the pointer is cleared and the file left open. *)
CloseFileKeeping ==
  /\ Answer(IF file = 0 THEN "error" ELSE "ok")
  /\ file' = 0 /\ UNCHANGED objects
  /\ UnchangedReading /\ UnchangedDirectory /\ UNCHANGED <<size, reopened>>

(* Mutant: the pointer is kept. *)
CloseFileDangling ==
  /\ Answer(IF file = 0 THEN "error" ELSE "ok")
  /\ objects' = IF file = 0 THEN objects ELSE [objects EXCEPT ![file].name = "closed"]
  /\ UNCHANGED file
  /\ UnchangedReading /\ UnchangedDirectory /\ UNCHANGED <<size, reopened>>

CloseFile ==
  /\ Answer(IF file = 0 THEN "error" ELSE "ok")
  /\ objects' = IF file = 0 THEN objects ELSE [objects EXCEPT ![file].name = "closed"]
  /\ file' = 0
  /\ UnchangedReading /\ UnchangedDirectory /\ UNCHANGED <<size, reopened>>

(* FILE_SEEK; a medium may refuse. *)
FileSeek(pos) ==
  /\ \E fails \in BOOLEAN :
        /\ Answer(IF file = 0 \/ fails THEN "error" ELSE "ok")
        /\ objects' = IF file = 0 \/ fails THEN objects ELSE [objects EXCEPT ![file].pos = pos]
  /\ UnchangedReading /\ UnchangedDirectory /\ UNCHANGED <<file, size, reopened>>

(* WRITE_DATA, and SAVE_REU from the memory of the REU *)
WriteData(n) ==
  /\ \E fails \in BOOLEAN :
        /\ Answer(IF file = 0 \/ fails THEN "error" ELSE "ok")
        /\ IF file = 0 \/ fails THEN UNCHANGED disk
           ELSE LET f == objects[file]
                IN  /\ objects' = [objects EXCEPT ![file].pos = @ + n]
                    /\ size' = [size EXCEPT ![f.name] = Max({@, f.pos + n})]
  /\ UnchangedReading /\ UnchangedDirectory /\ UNCHANGED <<file, reopened>>

(* LOAD_REU reads into the memory of the REU; the position moves. *)
LoadReu(n) ==
  /\ IF file = 0
     THEN Answer("error") /\ UNCHANGED objects
     ELSE \E i \in 0 .. n, fails \in BOOLEAN :
            /\ Answer(IF fails THEN "error" ELSE "ok")
            /\ Read(n, Stretch(objects[file], i), fails)
  /\ UnchangedReading /\ UnchangedDirectory /\ UNCHANGED <<file, size, reopened>>

ReadData(n) ==
  /\ UnchangedDirectory /\ UNCHANGED <<current_index, file, size, reopened>>
  /\ IF file = 0
     THEN Answer("error") /\ UNCHANGED <<dos_state, remaining, objects>>
     ELSE \E bytes \in Parts(n), fails \in BOOLEAN :
            /\ Command
            /\ DataPart(n, bytes, fails)
            /\ open' = ~last' /\ given' = data'
            /\ failed' = fails
            /\ claim' = IF fails THEN {}
                        ELSE LET f == objects[file]
                             IN  {Stretch(f, Least(n, Max({size[f.name] - f.pos, 0})))}

(* cd: the list is filled again, its number of entries is not; when there  *)
(* is no such directory the list stays empty.                              *)
ChangeTo(d) ==
  /\ directoryList' = IF d = Missing THEN <<>> ELSE Entries(d)
  /\ path' = IF d = Missing THEN path ELSE d
  /\ fresh' = FALSE

ChangeDir(d) ==
  /\ Answer(IF d = Missing THEN "error" ELSE "ok")
  /\ ChangeTo(d)
  /\ UnchangedReading /\ UNCHANGED <<dir_entries, file, disk, reopened>>

(* COPY_HOME_PATH falls through to GET_PATH, which says ok in any case. *)
CopyHomePath(d) ==
  /\ Command
  /\ ChangeTo(d)
  /\ data' = <<<<path', 0>>>> /\ last' = TRUE /\ status' = Says("ok")
  /\ open' = FALSE /\ given' = data' /\ claim' = {} /\ failed' = FALSE
  /\ UnchangedReading /\ UNCHANGED <<dir_entries, file, disk, reopened>>

(* The medium may be gone; then the number of entries stays, too. *)
OpenDir ==
  /\ \/ /\ directoryList' = Entries(path)
        /\ dir_entries' = Len(directoryList')
        /\ Answer(IF dir_entries' = 0 THEN "empty" ELSE "ok")
        /\ fresh' = TRUE
     \/ /\ directoryList' = <<>> /\ UNCHANGED dir_entries
        /\ Answer("error")
        /\ fresh' = FALSE
  /\ UnchangedReading /\ UNCHANGED <<path, file, disk, reopened>>

ReadDir ==
  /\ Command
  /\ DirectoryPart(0)
  /\ open' = ~last' /\ given' = data'
  /\ claim' = IF fresh THEN {Entries(path)} ELSE {}
  /\ failed' = FALSE
  /\ UnchangedDirectory /\ UNCHANGED <<remaining, file, disk, reopened>>

(* The commands that change nothing here: IDENTIFY, ECHO, GET_PATH, the     *)
(* information on files, and those whose effect is outside (mounts, names). *)
Other ==
  /\ \E code \in {"ok", "error"} : Answer(code)
  /\ UnchangedReading /\ UnchangedDirectory /\ UNCHANGED <<file, disk, reopened>>

(****************************************************************************)
(* The next part, and abort                                                 *)
(****************************************************************************)
More ==
  /\ open
  /\ UnchangedDirectory /\ UNCHANGED <<file, size, commands, reopened>>
  /\ \/ /\ dos_state = "in_file"
        /\ \E bytes \in Parts(remaining), fails \in BOOLEAN :
              /\ DataPart(remaining, bytes, fails)
              /\ claim' = IF fails THEN {} ELSE claim
              /\ failed' = fails
        /\ UNCHANGED current_index
     \/ /\ dos_state = "in_directory"
        /\ DirectoryPart(current_index)
        /\ UNCHANGED <<remaining, claim, objects, failed>>
  /\ open' = ~last' /\ given' = given \o data'

(* Mutant: abort does nothing. *)
AbortNothing ==
  /\ open /\ open' = FALSE
  /\ UNCHANGED <<dos, disk, reply, commands, given, claim, fresh, failed, reopened>>

Abort ==
  /\ open /\ open' = FALSE
  /\ dos_state' = "idle"
  /\ UNCHANGED <<remaining, dir_entries, current_index, directoryList, path, file, disk,
                 reply, commands, given, claim, fresh, failed, reopened>>

Next ==
  \/ \E name \in Names \cup {Missing} : OpenFile(name)
  \/ CloseFile \/ OpenDir \/ ReadDir \/ Other
  \/ \E n \in Lengths : FileSeek(n) \/ WriteData(n) \/ LoadReu(n) \/ ReadData(n)
  \/ \E d \in Dirs \cup {Missing} : ChangeDir(d) \/ CopyHomePath(d)
  \/ More \/ Abort

Spec == Init /\ [][Next]_vars

(* The C64 goes on accepting parts, or aborts. *)
FairSpec == Spec /\ WF_vars(More)

(****************************************************************************)
(* Properties                                                               *)
(****************************************************************************)
(* The parts of a reply put together are the bytes that READ_DATA asked    *)
(* for, as far as the file has them, and each entry of the directory that  *)
(* OPEN_DIR opened once: "Each entry of the directory is transmitted as a  *)
(* data packet" (doc/ultimate_dos-1.1.docx, 2.15).  Nothing is claimed of  *)
(* a listing after CHANGE_DIR, of a read that fails and of an abort.       *)
ReplyIsWhole == ~open /\ last => \A whole \in claim : given = whole

(* A transfer of a file is under way only while its reply is open, with    *)
(* the file there and bytes to come; and whenever get_more_data is called  *)
(* the target knows of what.                                               *)
NoStrayTransfer ==
  /\ dos_state = "in_file" => open /\ file # 0 /\ remaining > 0
  /\ open => dos_state # "idle"

(* File objects get lost by an OPEN_FILE while a file is open, and in no   *)
(* other way.                                                              *)
OpenObjects == {i \in DOMAIN objects : objects[i].name # "closed"}

LostByReopening == Cardinality(OpenObjects) = reopened + (IF file = 0 THEN 0 ELSE 1)

(* When the file cannot be read, the status that goes with the last part   *)
(* says so: "When something goes wrong, this will be reported through the  *)
(* status channel" (doc/ultimate_dos-1.1.docx, 2.4 DOS_CMD_READ_DATA).     *)
ReadErrorsReported ==
  ~open /\ last /\ failed => status = [says |-> "error", of |-> commands]

(* The C64 that goes on accepting comes to the last part of every reply.   *)
RepliesEnd == open ~> ~open
=============================================================================
