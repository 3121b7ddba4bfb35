---------------------------- MODULE FileSystemD64 -----------------------------
(****************************************************************************)
(* Files in a disk image (filesystem_d64.cc): chains of sectors seen through *)
(* one window of one sector that all files and directories of the image     *)
(* share.  Tasks call the file system; between finding a sector (move) and  *)
(* using it (copy) another task may run, nothing is locked.                 *)
(*                                                                          *)
(* A sector is its link and its data.  The link is <<track, sector>>, or    *)
(* <<0, last>> where last is the offset of the last byte of the file.  A    *)
(* sector is named by its position; D64Geometry shows that the numbers used *)
(* on the medium stand for the positions one to one.                        *)
(****************************************************************************)
EXTENDS Integers, FiniteSets, SequencesExt

CONSTANTS
  Tasks, Handles,
  Positions,     \* sectors of the image, <<track, sector>>
  Cells,         \* bytes of data of a sector (254), and entries of one of a directory (8)
  Images,        \* contents the image may have: [Positions -> [link, data]]
  StartOf,       \* the start that the directory entry of a file names
  Mode,          \* 0: D64, 1: D71, 2: D81
  Free,          \* the sectors that are free in the allocation map, bit by bit
  Lengths,       \* bound: bytes of one request
  MaxOps,        \* bound: requests
  Seeks,         \* where files are moved to: "none", "inside" (up to the end), "any"
  Fails,         \* media errors that happen: "write", "read", "torn"
  Lossy          \* whether a file is given up when it gets another sector

Files == DOMAIN StartOf
End == Cells + 2
Nowhere == <<0, 0>>
RootSector == IF Mode > 1 THEN <<40, 0>> ELSE <<18, 0>>
FirstDirectory == IF Mode > 1 THEN <<40, 3>> ELSE <<18, 1>>

(* What a byte may be: from the image, or by the handle that wrote it *)
Values ==
  {image[p].data[i] : image \in Images, p \in Positions, i \in 1 .. Cells} \cup Handles \cup {0}
Sectors == [link : Nat \X Nat, data : [1 .. Cells -> Values]]

ASSUME D64Assumption ==
  /\ 0 \notin Handles /\ 0 \notin Files /\ StartOf \in [Files -> Nat \X Nat]
  /\ Cells \in Nat \ {0} /\ Lengths \subseteq Nat \ {0} /\ MaxOps \in Nat
  /\ \E most \in Lengths : \A len \in Lengths : len <= most
  /\ Mode \in 0 .. 2 /\ Seeks \in {"none", "inside", "any"}
  /\ IsFiniteSet(Positions) /\ Positions \subseteq (Nat \ {0}) \X Nat
  /\ {RootSector, FirstDirectory} \subseteq Positions
  /\ Free \subseteq Positions \cup {<<0, i>> : i \in 0 .. 20}
  /\ Images \subseteq [Positions -> Sectors]
  /\ Fails \subseteq {"write", "read", "torn"} /\ Lossy \in BOOLEAN
  /\ \A image \in Images, p \in Positions :
       image[p].link[1] = 0 => image[p].link[2] \in 1 .. End - 1

VARIABLES
  disk,                          \* the medium
  current_sector, sect_buffer, dirty, bam,
  file,                          \* the handles (FileInD64)
  call,                          \* what each task is doing
  ops,                           \* history: number of requests so far
  lost                           \* history: files that got another sector

window == <<current_sector, sect_buffer, dirty>>
history == <<ops, lost>>
vars == <<disk, window, bam, file, call, history>>

Torn == [link |-> <<0, 1>>, data |-> [i \in 1 .. Cells |-> 0]]
NoFile == [name |-> 0, current |-> Nowhere, offset |-> 2, visited |-> {}, moved |-> FALSE,
           failed |-> FALSE, got |-> <<>>]
NoCall == [op |-> "none", on |-> 0, name |-> 0, left |-> 0, at |-> "ok", current |-> Nowhere,
           idx |-> -1, visited |-> {}, io |-> FALSE]

Ops == {"none", "open", "read", "write", "seek"}
TypeOK ==
  /\ current_sector \in Positions \cup {Nowhere} /\ dirty \in BOOLEAN
  /\ bam \subseteq Free
  /\ \A h \in Handles :
       /\ file[h].offset \in 2 .. End \/ file[h].name \in lost
       /\ file[h].visited \subseteq Positions
  /\ \A t \in Tasks :
       /\ call[t].op \in Ops /\ call[t].on \in Handles \cup {0}
       /\ call[t].at \in {"move", "advance", "next", "copy", "ok", "error"}
       /\ call[t].left \in 0 .. Max(Lengths) /\ call[t].idx \in -1 .. 2 * Cells

Init ==
  /\ disk \in Images
  /\ current_sector = Nowhere /\ sect_buffer = Torn /\ dirty = FALSE
  /\ bam = Free
  /\ file = [h \in Handles |-> NoFile]
  /\ call = [t \in Tasks |-> NoCall]
  /\ ops = 0 /\ lost = {}

(****************************************************************************)
(* The window                                                               *)
(****************************************************************************)
(* Mutant: the sector that leaves the window is not written. *)
move_windowDropping(p) ==
  /\ current_sector' = p
  /\ sect_buffer' = disk[p]
  /\ UNCHANGED <<disk, dirty>>

(* The sector at p comes into view; the one that leaves is written if it  *)
(* was ever changed: the mark is not taken away.                          *)
move_window(p) ==
  IF p = current_sector THEN UNCHANGED <<disk, window>>
  ELSE /\ disk' = IF dirty THEN [disk EXCEPT ![current_sector] = sect_buffer] ELSE disk
       /\ current_sector' = p
       /\ sect_buffer' = disk[p]
       /\ UNCHANGED dirty

(* A failing write leaves all as it was.  A failing read has written the  *)
(* old sector; the buffer may hold a part of the new one by then.         *)
MoveFails(p) ==
  /\ p # current_sector
  /\ \/ /\ "write" \in Fails /\ dirty
        /\ UNCHANGED <<disk, sect_buffer>>
     \/ /\ Fails \cap {"read", "torn"} # {}
        /\ disk' = IF dirty THEN [disk EXCEPT ![current_sector] = sect_buffer] ELSE disk
        /\ sect_buffer' \in (IF "read" \in Fails THEN {sect_buffer} ELSE {})
                            \cup (IF "torn" \in Fails THEN {Torn} ELSE {})
  /\ UNCHANGED <<current_sector, dirty>>

(* The image as the medium and the window hold it *)
View == IF dirty THEN [disk EXCEPT ![current_sector] = sect_buffer] ELSE disk

(* A free sector: of the same track if there is one, then of the tracks    *)
(* before the directory, downwards, then of those after it.  What is taken *)
(* for the map of track 0 is the head of the sector, which has bits set.   *)
(* The maps of D81 images are not understood.  Only the copy in memory is  *)
(* changed.                                                                *)
FreeOn(track) == {p \in bam : p[1] = track}
Lowest(S) == CHOOSE p \in S : \A q \in S : p[2] <= q[2]
FreeTracks == {p[1] : p \in bam} \cap (1 .. 35 \ {18})
TrackFor(track) ==
  LET before == {x \in FreeTracks : x < 18}
  IN  IF FreeOn(track) # {} THEN track
      ELSE IF before # {} THEN Max(before) ELSE Min(FreeTracks)
MayAllocate(track) == Mode <= 1 /\ (FreeOn(track) # {} \/ FreeTracks # {})
get_next_free_sector(track) == Lowest(FreeOn(TrackFor(track)))

(****************************************************************************)
(* Requests of the tasks                                                    *)
(****************************************************************************)
Idle(h) == \A t \in Tasks : call[t].on # h
Usable(h) == Idle(h) /\ file[h].name # 0 /\ ~file[h].failed
Ask(t, request) ==
  /\ call[t].op = "none" /\ ops < MaxOps
  /\ call' = [call EXCEPT ![t] = request]
  /\ ops' = ops + 1 /\ UNCHANGED lost

(* FileSystemD64::file_open reads the directory from its title on. *)
StartOpen(t, h, name) ==
  /\ Idle(h) /\ file[h].name = 0
  /\ Ask(t, [NoCall EXCEPT !.op = "open", !.on = h, !.name = name, !.at = "move",
                           !.current = RootSector])
  /\ UNCHANGED <<disk, window, bam, file>>

StartRead(t, h, len) ==
  /\ Usable(h)
  /\ Ask(t, [NoCall EXCEPT !.op = "read", !.on = h, !.left = len, !.at = "move"])
  /\ file' = [file EXCEPT ![h].got = <<>>]
  /\ UNCHANGED <<disk, window, bam>>

(* A file that has no sector yet gets one, in the buffer of whatever is in *)
(* view.                                                                   *)
StartWrite(t, h, len) ==
  /\ Usable(h)
  /\ IF file[h].current[1] # 0
     THEN /\ Ask(t, [NoCall EXCEPT !.op = "write", !.on = h, !.left = len, !.at = "move"])
          /\ file' = [file EXCEPT ![h].got = <<>>]
          /\ UNCHANGED <<sect_buffer, bam>>
     ELSE /\ MayAllocate(0)
          /\ Ask(t, [NoCall EXCEPT !.op = "write", !.on = h, !.left = len, !.at = "copy"])
          /\ LET new == get_next_free_sector(0)
             IN  /\ bam' = bam \ {new}
                 /\ file' = [file EXCEPT ![h].current = new, ![h].offset = 2, ![h].got = <<>>]
                 /\ sect_buffer' = [sect_buffer EXCEPT !.link = <<0, 1>>]
  /\ UNCHANGED <<disk, current_sector, dirty>>

(* get_track_sector adds the track to the one the handle is at in a D64. *)
TrackSectorOf(start, before) ==
  IF Mode = 0 THEN <<start[1] + before[1], start[2]>> ELSE start

(* Mutant: a chain may come back to a sector. *)
MayVisitAgain(f, p) == p \in Positions

(* visit: a sector that a file comes to must exist and be new. *)
MayVisit(f, p) == p \in Positions /\ p \notin f.visited

(* The loop of FileInD64::seek, at sector p with `pos` to go. *)
SeekFrom(t, h, request, p, pos) ==
  IF pos < Cells
  THEN /\ call' = [call EXCEPT ![t] = [request EXCEPT !.left = pos, !.at = "ok"]]
       /\ file' = [file EXCEPT ![h] = [@ EXCEPT !.current = p, !.offset = pos + 2, !.got = <<>>,
                 !.moved = file[h].moved \/ file[h].visited # {StartOf[file[h].name]}]]
  ELSE IF MayVisit(file[h], p)
  THEN /\ call' = [call EXCEPT ![t] = [request EXCEPT !.left = pos, !.at = "move"]]
       /\ file' = [file EXCEPT ![h].current = p, ![h].visited = @ \cup {p}]
  ELSE /\ call' = [call EXCEPT ![t] = [request EXCEPT !.left = pos, !.at = "error"]]
       /\ file' = [file EXCEPT ![h].current = p]

(* Nothing compares the position with the size of the file, so the offset  *)
(* may be past the end; this is the position that is not.                  *)
Inside(f, pos) == View[StartOf[f]].link[1] = 0 => pos < View[StartOf[f]].link[2]

StartSeek(t, h, pos) ==
  /\ Usable(h) /\ call[t].op = "none" /\ ops < MaxOps
  /\ Seeks # "none" /\ (Seeks = "inside" => Inside(file[h].name, pos))
  /\ SeekFrom(t, h, [NoCall EXCEPT !.op = "seek", !.on = h],
              TrackSectorOf(StartOf[file[h].name], file[h].current), pos)
  /\ ops' = ops + 1 /\ UNCHANGED <<disk, window, bam, lost>>

Close(h) ==
  /\ Idle(h) /\ file[h].name # 0
  /\ file' = [file EXCEPT ![h] = NoFile]
  /\ UNCHANGED <<disk, window, bam, call, history>>

(****************************************************************************)
(* Steps of a request                                                       *)
(****************************************************************************)
Target(t) == IF call[t].op = "open" THEN call[t].current ELSE file[call[t].on].current

(* The sector the request is at comes into view, or it fails. *)
Move(t) ==
  /\ call[t].at \in {"move", "advance"} /\ Target(t) \in Positions
  /\ move_window(Target(t))
  /\ call' = [call EXCEPT ![t].at = "copy"]
  /\ file' = IF call[t].at = "advance" THEN [file EXCEPT ![call[t].on].offset = 2] ELSE file
  /\ UNCHANGED <<bam, history>>

MoveError(t) ==
  /\ call[t].at \in {"move", "advance"}
  /\ \/ Target(t) \notin Positions /\ UNCHANGED <<disk, window>>
     \/ Target(t) \in Positions /\ MoveFails(Target(t))
  /\ call' = [call EXCEPT ![t].at = "error", ![t].io = Target(t) \in Positions]
  /\ UNCHANGED <<bam, file, history>>

(* Mutant: a request does not stop at the end of the sector. *)
TransferAll(bytes_left, len) == len

(* A number of bytes left that is below 0 counts as a large one. *)
Transfer(bytes_left, len) == IF 0 <= bytes_left /\ bytes_left < len THEN bytes_left ELSE len
Byte(sector, offset) == IF offset < End THEN sector.data[offset - 1] ELSE 0

BytesLeft(f) ==
  IF sect_buffer.link[1] = 0 THEN 1 + sect_buffer.link[2] - f.offset ELSE End - f.offset

ReadCopy(t, h) ==
  LET f == file[h]
      left == call[t].left
      n == Transfer(BytesLeft(f), left)
      read == [f EXCEPT !.offset = @ + n,
                        !.got = @ \o [i \in 1 .. n |-> Byte(sect_buffer, f.offset + i - 1)]]
      at_end == BytesLeft(f) = n /\ sect_buffer.link[1] = 0
      onward == ~at_end /\ read.offset = End
      link == sect_buffer.link
  IN  /\ file' = [file EXCEPT ![h] =
           IF ~onward THEN read
           ELSE [read EXCEPT !.current = link, !.offset = 2,
                             !.visited = IF MayVisit(f, link) THEN @ \cup {link} ELSE @]]
      /\ call' = [call EXCEPT ![t].left = left - n,
           ![t].at = IF onward /\ ~MayVisit(f, link) THEN "error"
                     ELSE IF at_end \/ left = n THEN "ok" ELSE "move"]
      /\ UNCHANGED <<disk, window, bam, history>>

(* `buffer` with the next n bytes of what h writes; the end of the file    *)
(* moves with them.                                                        *)
WriteInto(buffer, h, offset, n) ==
  [link |-> IF buffer.link[1] = 0 /\ offset + n - 1 > buffer.link[2]
            THEN <<0, offset + n - 1>> ELSE buffer.link,
   data |-> [i \in 1 .. Cells |->
               IF i + 1 \in offset .. offset + n - 1 THEN h ELSE buffer.data[i]]]

WriteCopy(t, h) ==
  LET f == file[h]
      full == f.offset = End
      left == call[t].left
      Put(buffer, current, offset) ==
        LET n == Transfer(End - offset, left)
        IN  /\ sect_buffer' = WriteInto(buffer, h, offset, n) /\ dirty' = TRUE
            /\ file' = [file EXCEPT ![h].current = current, ![h].offset = offset + n]
            /\ call' = [call EXCEPT ![t].left = left - n,
                                    ![t].at = IF left = n THEN "ok" ELSE "copy"]
      new == get_next_free_sector(f.current[1])
  IN  \/ /\ ~full
         /\ Put(sect_buffer, f.current, f.offset)
         /\ UNCHANGED <<disk, current_sector, bam, history>>
      \/ /\ full /\ sect_buffer.link[1] # 0
         /\ file' = [file EXCEPT ![h].current = sect_buffer.link]
         /\ call' = [call EXCEPT ![t].at = "advance"]
         /\ UNCHANGED <<disk, window, bam, history>>
      \/ /\ full /\ sect_buffer.link[1] = 0 /\ ~MayAllocate(f.current[1])
         /\ call' = [call EXCEPT ![t].at = "error"]
         /\ UNCHANGED <<disk, window, bam, file, history>>
      \/ /\ full /\ sect_buffer.link[1] = 0 /\ MayAllocate(f.current[1])
         /\ bam' = bam \ {new}
         /\ Put([sect_buffer EXCEPT !.link = <<0, new[2]>>], new, 2)
         /\ lost' = lost \cup {f.name}
         /\ UNCHANGED <<disk, current_sector, ops>>

SeekCopy(t, h) ==
  /\ SeekFrom(t, h, call[t], sect_buffer.link, call[t].left - Cells)
  /\ UNCHANGED <<disk, window, bam, history>>

(* DirInD64::read: after the title, or after the last entry of the sector   *)
(* in view, the link leads to the next sector of the directory.  There is   *)
(* no more when the link names no sector or one the directory had before.   *)
(* idx is kept modulo the entries of a sector, apart from 0.                *)
NextSector(t) ==
  LET link == IF call[t].idx = 0 THEN FirstDirectory ELSE sect_buffer.link
  IN  /\ call[t].op = "open" /\ call[t].at = "next"
      /\ call' = IF MayVisit(call[t], link)
                 THEN [call EXCEPT ![t].current = link, ![t].visited = @ \cup {link},
                                   ![t].at = "move"]
                 ELSE [call EXCEPT ![t].at = "error"]
      /\ UNCHANGED <<disk, window, bam, file, history>>

(* Mutant: the last entry of a sector is not looked at. *)
SectorDoneEarly(idx) == idx <= 0 \/ idx % Cells = Cells - 1
SectorDone(idx) == idx % Cells = 0

(* An entry; the file it names is opened when it has the name that is      *)
(* looked for and its start is a sector.                                   *)
OpenCopy(t, h) ==
  LET idx == call[t].idx
      name == sect_buffer.data[(idx % Cells) + 1]
      next == IF idx = 2 * Cells THEN Cells + 1 ELSE idx + 1
  IN  /\ IF idx >= 0 /\ name = call[t].name
         THEN IF StartOf[name] \in Positions
              THEN /\ file' = [file EXCEPT ![h] = [NoFile EXCEPT !.name = name,
                          !.current = StartOf[name], !.visited = {StartOf[name]}]]
                   /\ call' = [call EXCEPT ![t].at = "ok"]
              ELSE call' = [call EXCEPT ![t].at = "error"] /\ UNCHANGED file
         ELSE /\ call' = [call EXCEPT ![t].idx = next,
                                      ![t].at = IF SectorDone(next) THEN "next" ELSE "copy"]
              /\ UNCHANGED file
      /\ UNCHANGED <<disk, window, bam, history>>

Copy(t) ==
  /\ call[t].at = "copy"
  /\ CASE call[t].op = "read" -> ReadCopy(t, call[t].on)
       [] call[t].op = "write" -> WriteCopy(t, call[t].on)
       [] call[t].op = "seek" -> SeekCopy(t, call[t].on)
       [] call[t].op = "open" -> OpenCopy(t, call[t].on)

Return(t) ==
  /\ call[t].op # "none" /\ call[t].at \in {"ok", "error"}
  /\ call' = [call EXCEPT ![t] = NoCall]
  /\ file' = IF call[t].op = "open" THEN file
             ELSE [file EXCEPT ![call[t].on].failed = call[t].at = "error"]
  /\ UNCHANGED <<disk, window, bam, history>>

Request(t) ==
  \E h \in Handles :
    \/ \E name \in Files : StartOpen(t, h, name)
    \/ \E len \in Lengths : StartRead(t, h, len) \/ StartWrite(t, h, len)
    \/ \E pos \in Lengths : StartSeek(t, h, pos)
Step(t) == Move(t) \/ MoveError(t) \/ NextSector(t) \/ Copy(t) \/ Return(t)

Next == (\E t \in Tasks : Request(t) \/ Step(t)) \/ (\E h \in Handles : Close(h))

Spec == Init /\ [][Next]_vars

(* A task that is in the file system goes on. *)
FairSpec == Spec /\ \A t \in Tasks : WF_vars(Step(t))

(****************************************************************************)
(* Properties                                                               *)
(****************************************************************************)
(* The sectors from start on, as the links of an image lead, up to the end *)
(* of the chain or to a sector it had before.                              *)
Longer(image) ==
  [path \in Seq(Positions) \ {<<>>} |->
     LET next == image[Last(path)].link
     IN  IF next \in Positions /\ next \notin Range(path) THEN Append(path, next) ELSE path]

ChainIn(image, start) ==
  LET path[n \in Nat] == IF n = 0 THEN <<start>> ELSE Longer(image)[path[n - 1]]
  IN  path[Cardinality(Positions)]
Chain(start) == ChainIn(View, start)

Sound(f) ==
  /\ StartOf[f] \in Positions
  /\ View[Last(Chain(StartOf[f]))].link[1] = 0
  /\ ~(Lossy /\ f \in lost)

Size(image, chain) == (Len(chain) - 1) * Cells + image[Last(chain)].link[2] - 1
Content(image, chain) ==
  [i \in 1 .. Size(image, chain) |->
     image[chain[(i - 1) \div Cells + 1]].data[((i - 1) % Cells) + 1]]
Contents(f) == IF Sound(f) THEN Content(View, Chain(StartOf[f])) ELSE <<>>

(* What is assumed of the images: no two files share a sector, no sector of *)
(* a file is free, and from a free sector a link leads to no other one.     *)
Trail(image, f) ==
  IF StartOf[f] \in Positions THEN Range(ChainIn(image, StartOf[f])) ELSE {}
SeparateFiles ==
  \A image \in Images :
    /\ \A f \in Files : Trail(image, f) \cap Free = {}
    /\ \A f, g \in Files : f # g => Trail(image, f) \cap Trail(image, g) = {}
    /\ \A p \in Free \cap Positions : image[p].link \in Positions => image[p].link \in Free

(* Where the system is known to keep its promises: one task uses the files; *)
(* they are moved to positions inside of them, and not in a D64; a failing  *)
(* read leaves the buffer alone; a file that gets another sector is given   *)
(* up; the files are separate in every image.                               *)
Careful ==
  /\ \E t \in Tasks : Tasks = {t}
  /\ Seeks # "any" /\ (Mode # 0 \/ Seeks = "none")
  /\ "torn" \notin Fails /\ Lossy
  /\ SeparateFiles

(* The request that is under way on a handle. *)
CallOn(h) == IF Idle(h) THEN NoCall ELSE call[CHOOSE t \in Tasks : call[t].on = h]

Pos(h) ==
  LET chain == Chain(StartOf[file[h].name])
      offset == IF CallOn(h).at = "advance" THEN 2 ELSE file[h].offset
      at == CHOOSE i \in DOMAIN chain : chain[i] = file[h].current
  IN  IF file[h].current \in Range(chain) THEN (at - 1) * Cells + offset - 2 ELSE -1

NoPromise(doing) == [file |-> 0, pos |-> 0, got |-> <<>>, left |-> 0, doing |-> doing]
Promise(h) ==
  LET f == file[h].name
      c == CallOn(h)
      transfer == c.op \in {"read", "write"}
  IN  IF f = 0 THEN NoPromise("closed")
      ELSE IF ~Sound(f) \/ file[h].failed \/ c.at = "error" THEN NoPromise("failed")
      ELSE [file |-> f, pos |-> Pos(h), got |-> file[h].got,
            left |-> IF transfer THEN c.left ELSE 0,
            doing |-> IF transfer THEN c.op ELSE "idle"]

Store == INSTANCE FileStore WITH
  Sizes <- 0 .. Max(Lengths),
  contents <- [f \in Files |-> Contents(f)],
  sound <- {f \in Files : Sound(f)},
  handle <- [h \in Handles |-> Promise(h)]

(* Whatever files share the window, each is read and written like a file   *)
(* of its own: what is read is what the image or a write put there, and a  *)
(* write changes the next bytes of its file and no others (the dirty       *)
(* window of move_window, the links that read and write follow).  Without  *)
(* Lossy this holds of growing files as well.                              *)
ImplementsFiles == Store!Spec

(* The names of the entries that the chain of the directory leads to. *)
Listed == {View[p].data[i] : p \in Range(Chain(FirstDirectory)), i \in 1 .. Cells}

(* A request fails only for a reason: the medium failed, the image is       *)
(* damaged or full, the name is not in the directory; a seek left the first *)
(* sector; or the handle had left it before a seek took it back, and meets  *)
(* sectors that are still in visited.  A handle that never left its first   *)
(* sector may seek there and read on to the end.                            *)
ErrorsHaveReason ==
  \A t \in Tasks :
    LET c == call[t]
        f == file[c.on]
    IN  c.at = "error" =>
          \/ c.io
          \/ c.op = "seek" /\ c.left >= Cells
          \/ c.op = "open" /\ (c.name \notin Listed \/ StartOf[c.name] \notin Positions)
          \/ c.op \in {"read", "write"} /\ (f.moved \/ ~Sound(f.name))
          \/ c.op = "write" /\ f.offset = End /\ ~MayAllocate(f.current[1])

(* Every request returns, also for chains that lead back to themselves. *)
RequestsReturn ==
  \A t \in Tasks : call[t].op # "none" ~> call[t].op = "none"
=============================================================================
