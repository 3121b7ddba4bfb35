---------------------------- MODULE TapeRecorder -----------------------------
(****************************************************************************)
(* The tape recorder (tape_recorder.cc): the pulses of the datasette come   *)
(* from the FIFO of c2n_record.vhd, block by block through a ring of blocks *)
(* that the interrupt routine fills, into a file that the polling task and, *)
(* at the end, the task of the command write.                               *)
(*                                                                          *)
(* A sample is the number it has in its recording; the header of the file   *)
(* is one cell, its length field.  The tasks are switched while one of them *)
(* is in a call of the file system and between two such calls; the          *)
(* interrupt routine runs between any two steps.  A call through a null     *)
(* pointer or to a closed file does nothing, or it is the end.              *)
(****************************************************************************)
EXTENDS Integers, Sequences

CONSTANTS
  Block,        \* samples in a block (512)
  Depth,        \* samples in the FIFO (2048)
  Blocks,       \* blocks in the ring (REC_NUM_CACHE_BLOCKS, 128)
  Faults,       \* subset of {"error", "short"}: how a write may fail
  MaxSamples,   \* bound: samples of one recording
  MaxLength,    \* bound: total_length is not counted further (2^32)
  MaxCommands   \* bound: commands given

ASSUME TapeAssumption ==
  /\ Block \in Nat \ {0} /\ Depth \in Nat /\ Block <= Depth
  /\ Blocks \in Nat \ {0} /\ Faults \subseteq {"error", "short"}
  /\ MaxSamples \in Nat /\ MaxCommands \in Nat
  /\ MaxLength \in Nat /\ MaxSamples <= MaxLength

VARIABLES
  capturing,       \* RECORD_CONTROL has REC_ENABLE and REC_IRQ_EN
  fifo,            \* samples in the FIFO
  recording, error_code, total_length,
  cache, block_in, block_out, blocks_cached, blocks_written,
  file,            \* number of the open file, or none
  opened,          \* files opened so far
  content,         \* cells of the last opened file
  position,        \* where it is written next
  pc, held,        \* of each task: next step, the write it is in
  stopping,        \* the polling task is in stop
  crashed,
  commands,        \* commands given so far
  count,           \* history: samples of this recording
  asked,           \* history: and those before its end was asked for
  accidents        \* history: what has gone wrong in it

fpga == <<capturing, fifo, count>>
ring == <<cache, block_in, block_out, blocks_cached, blocks_written>>
disk == <<file, opened, content, position>>
tasks == <<pc, held, stopping>>
vars == <<fpga, ring, disk, tasks, recording, error_code, total_length,
          crashed, commands, asked, accidents>>

Tasks == {"poll", "command"}
Other(p) == IF p = "poll" THEN "command" ELSE "poll"
Slots == 0 .. Blocks - 1
None == 0
Samples == 0 .. MaxSamples
NoWrite == [file |-> None, slot |-> 0, len |-> 0]

TypeOK ==
  /\ capturing \in BOOLEAN /\ recording \in BOOLEAN
  /\ fifo \in Seq(Samples) /\ Len(fifo) <= Depth
  /\ error_code \in {"ok", "overflow", "no_file", "write_error"}
  /\ total_length \in 0 .. MaxLength
  /\ cache \in [Slots -> [1 .. Block -> Samples]]
  /\ block_in \in Slots /\ block_out \in Slots
  /\ blocks_cached \in Nat /\ blocks_written \in Nat
  /\ file \in {None, opened} /\ opened \in 0 .. MaxCommands
  /\ content \in Seq(Nat) /\ position \in Nat \ {0}
  /\ pc \in [Tasks -> {"idle", "start", "loop", "write", "drain", "tail",
                       "length", "close", "closed"}]
  /\ held \in [Tasks -> [file : 0 .. MaxCommands, slot : Slots, len : 0 .. Block]]
  /\ stopping \in BOOLEAN /\ crashed \in BOOLEAN
  /\ commands \in 0 .. MaxCommands
  /\ count \in Samples /\ asked \in 0 .. count
  /\ accidents \subseteq {"lost", "overrun", "raced", "failed", "overlap"}

Init ==
  /\ capturing = FALSE /\ fifo = <<>> /\ count = 0
  /\ recording = FALSE /\ error_code = "ok" /\ total_length = 0
  /\ cache = [s \in Slots |-> [i \in 1 .. Block |-> 0]]
  /\ block_in = 0 /\ block_out = 0 /\ blocks_cached = 0 /\ blocks_written = 0
  /\ file = None /\ opened = 0 /\ content = <<>> /\ position = 1
  /\ pc = [p \in Tasks |-> "idle"] /\ held = [p \in Tasks |-> NoWrite]
  /\ stopping = FALSE /\ crashed = FALSE
  /\ commands = 0 /\ asked = 0 /\ accidents = {}

At(p, step) == pc[p] = step /\ ~crashed
Goto(p, step) == pc' = [pc EXCEPT ![p] = step]
Longer(n) == IF total_length + n < MaxLength THEN total_length + n ELSE MaxLength
(* Mutant: the index goes one too far before it wraps. *)
NextSlotLate(s) == IF s = Blocks THEN 0 ELSE s + 1

NextSlot(s) == IF s + 1 = Blocks THEN 0 ELSE s + 1
Accident(kind, happened) ==
  accidents' = IF happened THEN accidents \cup {kind} ELSE accidents

(* RECORD_CONTROL = REC_CLEAR_ERROR | REC_FLUSH_FIFO *)
CaptureOff == capturing' = FALSE /\ fifo' = <<>>

(****************************************************************************)
(* Hardware and interrupt routine                                           *)
(****************************************************************************)
(* A sample is lost when the FIFO is full. *)
Sample ==
  /\ capturing /\ count < MaxSamples /\ ~crashed
  /\ count' = count + 1
  /\ fifo' = IF Len(fifo) < Depth THEN Append(fifo, count + 1) ELSE fifo
  /\ Accident("lost", Len(fifo) = Depth)
  /\ UNCHANGED <<capturing, ring, disk, tasks, recording, error_code,
                 total_length, crashed, commands, asked>>

(* Steps of flush between its last look at the ring and the end. *)
Draining == {"drain", "tail", "length", "close"}

(* Nothing is tested before a block is put into the ring. *)
cache_block ==
  /\ cache' = [cache EXCEPT ![block_in] = [i \in 1 .. Block |-> fifo[i]]]
  /\ fifo' = SubSeq(fifo, Block + 1, Len(fifo))
  /\ block_in' = NextSlot(block_in)
  /\ blocks_cached' = blocks_cached + 1
  /\ accidents' = accidents
       \cup {a \in {"overrun"} : blocks_cached - blocks_written >= Blocks}
       \cup {a \in {"raced"} : \E p \in Tasks : pc[p] \in Draining}
  /\ UNCHANGED <<capturing, block_out, blocks_written>>

Irq ==
  /\ capturing /\ Len(fifo) >= Block /\ ~crashed
  /\ IF recording
     THEN cache_block
     ELSE capturing' = FALSE /\ UNCHANGED <<fifo, ring, accidents>>
  /\ UNCHANGED <<count, disk, tasks, recording, error_code, total_length,
                 crashed, commands, asked>>

(****************************************************************************)
(* Writing blocks                                                           *)
(****************************************************************************)
(* The cells of a file after a write at its position. *)
Overwritten(cells) ==
  [i \in 1 .. (IF position + Len(cells) - 1 > Len(content)
               THEN position + Len(cells) - 1 ELSE Len(content)) |->
     IF i >= position /\ i < position + Len(cells)
     THEN cells[i - position + 1] ELSE content[i]]

(* A write that the file system has been asked for ends: with the data in   *)
(* the file, with an error, or with less than was asked for and no error.   *)
(* What is written is what the memory holds by then.                        *)
Written(cells, result) ==
  /\ content' = IF result = "ok" THEN Overwritten(cells) ELSE content
  /\ position' = IF result = "ok" THEN position + Len(cells) ELSE position
  /\ Accident("failed", result # "ok")
  /\ UNCHANGED <<file, opened, crashed>>

(* The object is null or closed. *)
Undefined == crashed' \in BOOLEAN /\ UNCHANGED <<disk, accidents>>

Flushing(p) == p = "command" \/ stopping
Inside(p) == pc[p] \in {"write", "tail", "length"}

(* while (blocks_cached > blocks_written) error_code = write_block(); the   *)
(* write begins.                                                            *)
Loop(p) ==
  /\ At(p, "loop")
  /\ \/ /\ blocks_cached > blocks_written /\ file = None
        /\ error_code' = "no_file"
        /\ UNCHANGED <<tasks, accidents>>
     \/ /\ blocks_cached > blocks_written /\ file # None
        /\ held' = [held EXCEPT ![p] = [file |-> file, slot |-> block_out, len |-> Block]]
        /\ Goto(p, "write")
        /\ Accident("overlap", Inside(Other(p)))
        /\ UNCHANGED <<error_code, stopping>>
     \/ /\ blocks_cached <= blocks_written
        /\ Goto(p, IF Flushing(p) THEN "drain" ELSE "idle")
        /\ UNCHANGED <<held, stopping, error_code, accidents>>
  /\ UNCHANGED <<fpga, ring, disk, recording, total_length, crashed, commands, asked>>

(* The rest of write_block: the ring advances unless there was an error. *)
WriteBlock(p) ==
  /\ At(p, "write")
  /\ total_length' = Longer(Block)
  /\ \/ /\ held[p].file # file /\ Undefined
        /\ error_code' = "write_error"
        /\ UNCHANGED <<block_out, blocks_written>>
     \/ /\ held[p].file = file
        /\ \E result \in {"ok"} \cup Faults :
             /\ Written(cache[held[p].slot], result)
             /\ IF result = "error"
                THEN error_code' = "write_error" /\ UNCHANGED <<block_out, blocks_written>>
                ELSE /\ error_code' = "ok"
                     /\ block_out' = NextSlot(block_out)
                     /\ blocks_written' = blocks_written + 1
  /\ held' = [held EXCEPT ![p] = NoWrite]
  /\ Goto(p, "loop")
  /\ UNCHANGED <<fpga, cache, block_in, blocks_cached, stopping, recording,
                 commands, asked>>

(****************************************************************************)
(* flush, after its loop                                                    *)
(****************************************************************************)
(* What is left in the FIFO goes into the next block of the ring, n samples *)
(* at a time, and from there to the file; when nothing is left, the file is *)
(* taken back to its length field.                                          *)
DrainBy(p, n) ==
  /\ At(p, "drain")
  /\ \/ /\ fifo # <<>>
        /\ cache' = [cache EXCEPT ![block_in] =
                       [i \in 1 .. Block |-> IF i <= n THEN fifo[i] ELSE @[i]]]
        /\ fifo' = SubSeq(fifo, n + 1, Len(fifo))
        /\ held' = [held EXCEPT ![p] = [file |-> file, slot |-> block_in, len |-> n]]
        /\ Goto(p, "tail")
        /\ UNCHANGED <<position, crashed>>
     \/ /\ fifo = <<>>
        /\ IF file = None THEN crashed' \in BOOLEAN /\ UNCHANGED position
                          ELSE position' = 1 /\ UNCHANGED crashed
        /\ Goto(p, "length")
        /\ UNCHANGED <<cache, fifo, held>>
  /\ Accident("overlap", Inside(Other(p)))
  /\ UNCHANGED <<capturing, count, block_in, block_out, blocks_cached, blocks_written,
                 file, opened, content, stopping, recording, error_code,
                 total_length, commands, asked>>

(* Mutant: less than a block is never taken. *)
DrainWholeBlocks(p) == DrainBy(p, IF Len(fifo) < Block THEN 0 ELSE Block)

Drain(p) == DrainBy(p, IF Len(fifo) < Block THEN Len(fifo) ELSE Block)

WriteTail(p) ==
  /\ At(p, "tail")
  /\ \/ /\ (file = None \/ held[p].file # file) /\ Undefined
        /\ UNCHANGED total_length
     \/ /\ file # None /\ held[p].file = file
        /\ \E result \in {"ok"} \cup Faults :
             /\ Written(SubSeq(cache[held[p].slot], 1, held[p].len), result)
             /\ total_length' = IF result = "ok" THEN Longer(held[p].len) ELSE total_length
  /\ held' = [held EXCEPT ![p] = NoWrite]
  /\ Goto(p, "drain")
  /\ UNCHANGED <<fpga, ring, stopping, recording, error_code, commands, asked>>

WriteLength(p) ==
  /\ At(p, "length")
  /\ \/ file = None /\ Undefined
     \/ /\ file # None
        /\ \E result \in {"ok"} \cup Faults : Written(<<total_length>>, result)
  /\ Goto(p, "close")
  /\ UNCHANGED <<fpga, ring, held, stopping, recording, error_code, total_length,
                 commands, asked>>

(* The file is closed and the recorder turned off; stop goes on from there. *)
Close(p) ==
  /\ At(p, "close")
  /\ crashed' \in IF file = None THEN BOOLEAN ELSE {FALSE}
  /\ file' = None
  /\ recording' = FALSE
  /\ CaptureOff
  /\ Goto(p, IF p = "poll" THEN "closed" ELSE "idle")
  /\ UNCHANGED <<count, ring, opened, content, position, held, stopping, error_code,
                 total_length, commands, asked, accidents>>

(****************************************************************************)
(* The polling task                                                         *)
(****************************************************************************)
(* An error may be shown to the user and forgotten.  While recording, the   *)
(* ring is tested for overflow (then stop is called, which calls flush),    *)
(* and blocks are written.                                                  *)
Poll ==
  /\ At("poll", "idle")
  /\ IF recording /\ blocks_cached >= blocks_written + Blocks
     THEN /\ error_code' = "overflow"
          /\ recording' = FALSE
          /\ stopping' = (file # None)
          /\ capturing' = FALSE
          /\ fifo' = IF file # None THEN fifo ELSE <<>>
          /\ asked' = count
     ELSE /\ error_code' \in {error_code, "ok"}
          /\ UNCHANGED <<capturing, fifo, recording, stopping, asked>>
  /\ Goto("poll", IF recording THEN "loop" ELSE "idle")
  /\ UNCHANGED <<count, ring, disk, held, total_length, crashed, commands, accidents>>

(* stop closes the file that flush has closed already. *)
StopClosed ==
  /\ At("poll", "closed")
  /\ crashed' \in IF file = None THEN BOOLEAN ELSE {FALSE}
  /\ CaptureOff
  /\ file' = None
  /\ stopping' = FALSE
  /\ Goto("poll", "loop")
  /\ UNCHANGED <<count, ring, opened, content, position, held, recording, error_code,
                 total_length, commands, asked, accidents>>

(****************************************************************************)
(* The commands                                                             *)
(****************************************************************************)
Command ==
  /\ At("command", "idle") /\ commands < MaxCommands
  /\ commands' = commands + 1

(* MENU_REC_FINISH *)
Finish ==
  /\ Command
  /\ IF file = None
     THEN /\ error_code' = "no_file" /\ recording' = FALSE
          /\ CaptureOff
          /\ UNCHANGED <<pc, asked>>
     ELSE /\ Goto("command", "loop")
          /\ asked' = count
          /\ UNCHANGED <<error_code, recording, capturing, fifo>>
  /\ UNCHANGED <<count, ring, disk, held, stopping, total_length, crashed, accidents>>

(* A file that is still open is left to the next MENU_REC_FINISH. *)
FileIsSet ==
  /\ Command /\ file # None
  /\ recording' = TRUE
  /\ UNCHANGED <<fpga, ring, disk, tasks, error_code, total_length, crashed,
                 asked, accidents>>

(* A new file, with its signature; when that cannot be written the file     *)
(* stays open and nothing is recorded.                                      *)
request_file ==
  /\ Command /\ file = None
  /\ opened' = opened + 1 /\ file' = opened + 1
  /\ content' = <<0>> /\ position' = 2
  /\ total_length' = 0
  /\ count' = 0 /\ asked' = 0
  /\ \E result \in {"ok"} \cup (Faults \cap {"error"}) :
       /\ Goto("command", IF result = "ok" THEN "start" ELSE "idle")
       /\ accidents' = {a \in {"failed"} : result # "ok"}
            \cup {a \in {"overlap"} : pc["poll"] # "idle" \/ recording}
  /\ UNCHANGED <<capturing, fifo, ring, held, stopping, recording, error_code, crashed>>

(* The capture starts with an empty FIFO and an empty ring. *)
StartAt(out) ==
  /\ At("command", "start")
  /\ capturing' = TRUE /\ fifo' = <<>>
  /\ recording' = TRUE
  /\ block_in' = 0 /\ block_out' = out /\ blocks_cached' = 0 /\ blocks_written' = 0
  /\ Goto("command", "idle")
  /\ UNCHANGED <<count, cache, disk, held, stopping, error_code, total_length, crashed,
                 commands, asked, accidents>>

(* Mutant: writing goes on where the last recording ended. *)
StartWhereItWas == StartAt(block_out)

Start == StartAt(0)

(****************************************************************************)
(* Specification                                                            *)
(****************************************************************************)
Write(p) ==
  Loop(p) \/ WriteBlock(p) \/ Drain(p) \/ WriteTail(p) \/ WriteLength(p) \/ Close(p)

Next ==
  \/ Sample \/ Irq
  \/ \E p \in Tasks : Write(p)
  \/ Poll \/ StopClosed
  \/ Finish \/ FileIsSet \/ request_file \/ Start

Spec == Init /\ [][Next]_vars

(* A task that may go on does: each of them runs to its end, the others     *)
(* wait for the disk or for their delay.                                    *)
FairSpec ==
  /\ Spec
  /\ WF_vars(Write("command") \/ Start)
  /\ WF_vars(Write("poll") \/ StopClosed)

(****************************************************************************)
(* Properties                                                               *)
(****************************************************************************)
(* A file that was closed holds the samples of its recording in order, all  *)
(* that came before its end was asked for, and its length field counts      *)
(* them; unless a write failed, the FIFO or the ring was full, both tasks   *)
(* were in the file at a time, or a block came while the rest was drained.  *)
(* These five are the only ways to lose a sample.                           *)
ClosedFileIsWhole ==
  file = None /\ opened > 0 /\ accidents = {} =>
    \E m \in asked .. count : content = <<m>> \o [i \in 1 .. m |-> i]

(* A command that finishes a recording ends, over every overflow, lost      *)
(* sample and failed write and whatever poll does to the same file: only a  *)
(* write_block that fails again and again for ever keeps flush in its loop. *)
BlockFails == \E p \in Tasks : WriteBlock(p) /\ error_code' = "write_error"
FinishReturns ==
  <>[][~BlockFails]_vars =>
    (pc["command"] # "idle" ~> (pc["command"] = "idle" \/ crashed))
=============================================================================
