-------------------------- MODULE TapeRecorderProofs --------------------------
(****************************************************************************)
(* Theorems about the tape recorder, for every size of the blocks, of the   *)
(* ring and of the FIFO, every kind of failing write and every interleaving *)
(* of the interrupt routine with the two tasks.                             *)
(****************************************************************************)
EXTENDS TapeRecorder, TLAPS

USE TapeAssumption

(****************************************************************************)
(* Type correctness.  A file is never written beyond its end.               *)
(****************************************************************************)
WithinFile == position <= Len(content) + 1 /\ opened <= commands

TypeInv == TypeOK /\ WithinFile

(****************************************************************************)
(* What holds of the recorder, accidents or not: only a recording captures, *)
(* the polling task flushes only when it stops, and the write of a block    *)
(* began in an open file.                                                   *)
(****************************************************************************)
ModeInv ==
  /\ capturing => recording
  /\ stopping => pc["poll"] # "idle"
  /\ pc["poll"] \in Draining \cup {"closed"} => stopping
  /\ \A p \in Tasks : pc[p] = "write" => held[p].file # None

(****************************************************************************)
(* Where the samples are while a recording has had no accident: first those *)
(* in the file, then the blocks of the ring, then the part of a block that  *)
(* flush is writing, then the FIFO.                                         *)
(****************************************************************************)
Cached == blocks_cached - blocks_written           \* blocks in the ring
BlockStart(j) == j * Block                         \* samples before block j of the ring
SlotAt(j) == IF block_out + j < Blocks THEN block_out + j ELSE block_out + j - Blocks
Rest == IF pc["poll"] = "tail" THEN held["poll"].len
        ELSE IF pc["command"] = "tail" THEN held["command"].len ELSE 0
Ending == \E p \in Tasks : pc[p] \in {"length", "close"}

InFile ==
  /\ Len(content) = total_length + 1
  /\ \A i \in 1 .. total_length : content[i + 1] = i

InRing ==
  /\ Cached \in 0 .. Blocks /\ block_in = SlotAt(Cached)
  /\ \A j \in 0 .. Cached - 1 : \A i \in 1 .. Block :
        cache[SlotAt(j)][i] = total_length + BlockStart(j) + i

InTail ==
  \A p \in Tasks : pc[p] = "tail" =>
     /\ held[p].file = file
     /\ \A i \in 1 .. held[p].len : cache[held[p].slot][i] = total_length + i

InFifo ==
  /\ count = total_length + BlockStart(Cached) + Rest + Len(fifo)
  /\ \A i \in 1 .. Len(fifo) : fifo[i] = total_length + BlockStart(Cached) + Rest + i

(* One task at a time is in the file, and none writes once one has got to *)
(* the length field.                                                      *)
OneWriter ==
  /\ ~(Inside("poll") /\ Inside("command"))
  /\ \A p \in Tasks :
        /\ pc[p] = "write" => /\ Cached > 0
                             /\ held[p] = [file |-> file, slot |-> block_out, len |-> Block]
        /\ pc[p] \in Draining => Cached = 0
        /\ pc[p] = "tail" => ~Ending
  /\ pc["poll"] # "closed"

LengthField ==
  /\ ~Ending => position = total_length + 2
  /\ Ending => asked <= total_length
  /\ \A p \in Tasks : /\ pc[p] = "length" => position = 1
                      /\ pc[p] = "close" => content[1] = total_length
  /\ stopping => ~capturing /\ (Ending => fifo = <<>>)

Recorded == InFile /\ InRing /\ InTail /\ InFifo /\ OneWriter /\ LengthField

(* Between the opening of the file and the start of the capture *)
Opened ==
  /\ content = <<0>> /\ position = 2 /\ total_length = 0 /\ count = 0 /\ asked = 0
  /\ ~recording /\ pc["poll"] = "idle"

(* After the file was closed *)
Whole == \E m \in asked .. count : content = <<m>> \o [i \in 1 .. m |-> i]
Closed == Whole /\ ~recording /\ pc["command"] # "start"

RecordingInv ==
  accidents = {} =>
    IF file = None THEN opened > 0 => Closed
    ELSE IF pc["command"] = "start" THEN Opened ELSE Recorded

TapeInv == TypeInv /\ ModeInv /\ RecordingInv

(****************************************************************************)
(* Writes                                                                   *)
(****************************************************************************)
(* A write at or before the end of a file: its size, and every cell of it. *)
LEMMA OverwrittenCells ==
  ASSUME content \in Seq(Nat), position \in Nat \ {0}, position <= Len(content) + 1,
         NEW cells \in Seq(Nat)
  PROVE  /\ Overwritten(cells) \in Seq(Nat)
         /\ position + Len(cells) <= Len(Overwritten(cells)) + 1
         /\ Len(Overwritten(cells)) = (IF position + Len(cells) - 1 > Len(content)
                                       THEN position + Len(cells) - 1 ELSE Len(content))
         /\ \A i \in 1 .. Len(Overwritten(cells)) :
              Overwritten(cells)[i] = (IF i >= position /\ i < position + Len(cells)
                                       THEN cells[i - position + 1] ELSE content[i])
<1> DEFINE n == IF position + Len(cells) - 1 > Len(content)
                THEN position + Len(cells) - 1 ELSE Len(content)
           v(i) == IF i >= position /\ i < position + Len(cells)
                   THEN cells[i - position + 1] ELSE content[i]
<1>1. n \in Nat /\ position + Len(cells) <= n + 1
  OBVIOUS
<1>2. \A i \in 1 .. n : v(i) \in Nat
  OBVIOUS
<1>3. Overwritten(cells) = [i \in 1 .. n |-> v(i)]
  BY DEF Overwritten
<1> HIDE DEF n, v
<1>4. Overwritten(cells) \in Seq(Nat) /\ Len(Overwritten(cells)) = n
      /\ \A i \in 1 .. n : Overwritten(cells)[i] = v(i)
  BY <1>1, <1>2, <1>3
<1> QED
  BY <1>1, <1>4 DEF n, v

LEMMA WrittenType ==
  ASSUME TypeInv, NEW cells \in Seq(Nat), NEW result, Written(cells, result)
  PROVE  /\ content' \in Seq(Nat) /\ position' \in Nat \ {0}
         /\ position' <= Len(content') + 1
         /\ accidents' \subseteq {"lost", "overrun", "raced", "failed", "overlap"}
         /\ UNCHANGED <<file, opened, crashed>>
<1>1. content \in Seq(Nat) /\ position \in Nat \ {0} /\ position <= Len(content) + 1
      /\ accidents \subseteq {"lost", "overrun", "raced", "failed", "overlap"}
  BY DEF TypeInv, TypeOK, WithinFile
<1>2. accidents' \subseteq {"lost", "overrun", "raced", "failed", "overlap"}
      /\ UNCHANGED <<file, opened, crashed>>
  BY <1>1 DEF Written, Accident
<1>3. CASE result = "ok"
  <2>1. content' = Overwritten(cells) /\ position' = position + Len(cells)
    BY <1>3 DEF Written
  <2>2. Len(cells) \in Nat
    OBVIOUS
  <2> QED
    BY <1>1, <1>2, <2>1, <2>2, OverwrittenCells
<1>4. CASE result # "ok"
  BY <1>1, <1>2, <1>4 DEF Written
<1> QED
  BY <1>3, <1>4

(****************************************************************************)
(* Types                                                                    *)
(****************************************************************************)
FpgaType ==
  /\ capturing \in BOOLEAN /\ fifo \in Seq(Samples) /\ Len(fifo) <= Depth
  /\ count \in Samples /\ asked \in 0 .. count

RingType ==
  /\ cache \in [Slots -> [1 .. Block -> Samples]]
  /\ block_in \in Slots /\ block_out \in Slots
  /\ blocks_cached \in Nat /\ blocks_written \in Nat

DiskType ==
  /\ file \in {None, opened} /\ opened \in 0 .. MaxCommands
  /\ content \in Seq(Nat) /\ position \in Nat \ {0}
  /\ commands \in 0 .. MaxCommands /\ WithinFile

TasksType ==
  /\ pc \in [Tasks -> {"idle", "start", "loop", "write", "drain", "tail",
                       "length", "close", "closed"}]
  /\ held \in [Tasks -> [file : 0 .. MaxCommands, slot : Slots, len : 0 .. Block]]

FlagsType ==
  /\ recording \in BOOLEAN /\ stopping \in BOOLEAN /\ crashed \in BOOLEAN
  /\ error_code \in {"ok", "overflow", "no_file", "write_error"}
  /\ total_length \in 0 .. MaxLength
  /\ accidents \subseteq {"lost", "overrun", "raced", "failed", "overlap"}

LEMMA TypeParts ==
  /\ TypeInv <=> FpgaType /\ RingType /\ DiskType /\ TasksType /\ FlagsType
  /\ TypeInv' <=> FpgaType' /\ RingType' /\ DiskType' /\ TasksType' /\ FlagsType'
  BY Zenon DEF TypeInv, TypeOK, FpgaType, RingType, DiskType, TasksType, FlagsType

LEMMA EmptyFifoType == FALSE \in BOOLEAN /\ <<>> \in Seq(Samples) /\ Len(<<>>) <= Depth
<1>1. FALSE \in BOOLEAN
  BY Zenon
<1>2. <<>> \in Seq(Samples) /\ Len(<<>>) = 0
  OBVIOUS
<1> QED
  BY <1>1, <1>2

LEMMA InitTypeInv == Init => TypeInv
<1> SUFFICES ASSUME Init PROVE FpgaType /\ RingType /\ DiskType /\ TasksType /\ FlagsType
  BY TypeParts
<1>1. FpgaType
  <2>1. count \in Samples /\ asked \in 0 .. count
    BY DEF Init, Samples
  <2> QED
    BY <2>1, EmptyFifoType DEF Init, FpgaType
<1>2. RingType
  BY DEF Init, RingType, Samples, Slots
<1>3. DiskType
  BY DEF Init, DiskType, None, WithinFile
<1>4. TasksType
  BY DEF Init, TasksType, NoWrite, None, Slots, Tasks
<1>5. FlagsType
  <2>1. recording \in BOOLEAN /\ stopping \in BOOLEAN /\ crashed \in BOOLEAN
    BY Zenon DEF Init
  <2>2. total_length \in 0 .. MaxLength /\ error_code \in {"ok"} /\ accidents = {}
    BY DEF Init
  <2> QED
    BY <2>1, <2>2 DEF FlagsType
<1> QED
  BY <1>1, <1>2, <1>3, <1>4, <1>5

LEMMA SlotType ==
  /\ 0 \in Slots /\ \A s \in Slots : NextSlot(s) \in Slots
  BY DEF Slots, NextSlot

LEMMA LongerType ==
  ASSUME FlagsType, NEW n \in Nat
  PROVE  Longer(n) \in 0 .. MaxLength
  BY DEF FlagsType, Longer

LEMMA NoWriteType == NoWrite \in [file : 0 .. MaxCommands, slot : Slots, len : 0 .. Block]
  BY DEF NoWrite, None, Slots

(* What stays as it is keeps its type. *)
LEMMA SameType ==
  /\ FpgaType /\ UNCHANGED <<fpga, asked>> => FpgaType'
  /\ RingType /\ UNCHANGED ring => RingType'
  /\ DiskType /\ UNCHANGED <<disk, commands>> => DiskType'
  /\ TasksType /\ UNCHANGED <<pc, held>> => TasksType'
<1>1. FpgaType /\ UNCHANGED <<fpga, asked>> => FpgaType'
  BY DEF FpgaType, fpga
<1>2. RingType /\ UNCHANGED ring => RingType'
  BY DEF RingType, ring
<1>3. DiskType /\ UNCHANGED <<disk, commands>> => DiskType'
  BY DEF DiskType, disk, WithinFile
<1>4. TasksType /\ UNCHANGED <<pc, held>> => TasksType'
  BY DEF TasksType
<1> QED
  BY <1>1, <1>2, <1>3, <1>4

(* Each action, as far as the types go: a step of a task that is in flush *)
(* or write_block, ...                                                     *)
LEMMA WriteTypeInv ==
  ASSUME TypeInv, NEW p \in Tasks, Write(p)
  PROVE  TypeInv'
<1>1. FpgaType /\ RingType /\ DiskType /\ TasksType /\ FlagsType
  BY TypeParts
<1> SUFFICES FpgaType' /\ RingType' /\ DiskType' /\ TasksType' /\ FlagsType'
  BY TypeParts
<1> USE DEF Goto, Accident
<1>2. CASE Loop(p)
  <2>1. UNCHANGED <<fpga, ring, disk, commands, asked, recording, total_length, crashed>>
    BY <1>2 DEF Loop
  <2>2. TasksType'
    <3>1. [file |-> file, slot |-> block_out, len |-> Block]
            \in [file : 0 .. MaxCommands, slot : Slots, len : 0 .. Block]
      BY <1>1 DEF DiskType, RingType, None
    <3>2. \/ held' = held
          \/ held' = [held EXCEPT ![p] = [file |-> file, slot |-> block_out, len |-> Block]]
      BY <1>2 DEF Loop, tasks
    <3>3. pc' = pc \/ \E s \in {"write", "drain", "idle"} : pc' = [pc EXCEPT ![p] = s]
      BY <1>2 DEF Loop, tasks
    <3> QED
      BY <1>1, <3>1, <3>2, <3>3 DEF TasksType
  <2>3. FlagsType'
    BY <1>1, <1>2, <2>1 DEF Loop, FlagsType, tasks
  <2> QED
    BY <1>1, <2>1, <2>2, <2>3, SameType
<1>3. CASE WriteBlock(p)
  <2>1. TasksType' /\ UNCHANGED <<fpga, asked, commands, recording, stopping>>
    BY <1>1, <1>3, NoWriteType DEF WriteBlock, TasksType
  <2>2. RingType'
    BY <1>1, <1>3, SlotType DEF WriteBlock, RingType
  <2>3. CASE Undefined /\ error_code' = "write_error"
    <3>1. FlagsType'
      BY <1>1, <1>3, <2>1, <2>3, LongerType DEF WriteBlock, FlagsType, Undefined
    <3> QED
      BY <1>1, <2>1, <2>2, <2>3, <3>1, SameType DEF Undefined
  <2>4. ASSUME NEW result, Written(cache[held[p].slot], result),
               error_code' \in {"ok", "write_error"}
        PROVE  DiskType' /\ FlagsType'
    <3>1. cache[held[p].slot] \in Seq(Nat)
      BY <1>1 DEF RingType, TasksType, Samples
    <3>2. DiskType'
      BY <1>1, <2>1, <2>4, <3>1, WrittenType DEF DiskType, WithinFile
    <3>3. FlagsType'
      BY <1>1, <1>3, <2>1, <2>4, <3>1, WrittenType, LongerType DEF WriteBlock, FlagsType
    <3> QED
      BY <3>2, <3>3
  <2> QED
    BY <1>1, <1>3, <2>1, <2>2, <2>3, <2>4, SameType DEF WriteBlock
<1>4. CASE Drain(p)
  <2> DEFINE n == IF Len(fifo) < Block THEN Len(fifo) ELSE Block
  <2>1. n \in 0 .. Block /\ n <= Len(fifo) /\ DrainBy(p, n)
    BY <1>1, <1>4 DEF Drain, FpgaType
  <2> HIDE DEF n
  <2>2. FpgaType'
    <3>1. UNCHANGED <<capturing, count, asked>>
      BY <2>1 DEF DrainBy
    <3>2. fifo' = fifo \/ fifo' = SubSeq(fifo, n + 1, Len(fifo))
      BY <2>1 DEF DrainBy
    <3>3. /\ SubSeq(fifo, n + 1, Len(fifo)) \in Seq(Samples)
          /\ Len(SubSeq(fifo, n + 1, Len(fifo))) <= Depth
      BY <1>1, <2>1 DEF FpgaType
    <3> QED
      BY <1>1, <3>1, <3>2, <3>3 DEF FpgaType
  <2>3. RingType'
    <3>1. CASE UNCHANGED cache
      BY <1>1, <2>1, <3>1 DEF DrainBy, RingType
    <3>2. CASE cache' = [cache EXCEPT ![block_in] =
                           [i \in 1 .. Block |-> IF i <= n THEN fifo[i] ELSE @[i]]]
      <4>1. \A i \in 1 .. Block : i <= n => fifo[i] \in Samples
        BY <1>1, <2>1 DEF FpgaType
      <4>2. \A i \in 1 .. Block : cache[block_in][i] \in Samples
        BY <1>1 DEF RingType
      <4>3. [i \in 1 .. Block |-> IF i <= n THEN fifo[i] ELSE cache[block_in][i]]
              \in [1 .. Block -> Samples]
        BY <4>1, <4>2
      <4> QED
        BY <1>1, <2>1, <3>2, <4>3 DEF DrainBy, RingType
    <3> QED
      BY <2>1, <3>1, <3>2 DEF DrainBy
  <2>4. DiskType'
    BY <1>1, <2>1 DEF DrainBy, DiskType, WithinFile
  <2>5. TasksType'
    <3>1. [file |-> file, slot |-> block_in, len |-> n]
            \in [file : 0 .. MaxCommands, slot : Slots, len : 0 .. Block]
      BY <1>1, <2>1 DEF DiskType, RingType, None
    <3>2. held' = held \/ held' = [held EXCEPT ![p] = [file |-> file, slot |-> block_in, len |-> n]]
      BY <2>1 DEF DrainBy
    <3>3. \E s \in {"tail", "length"} : pc' = [pc EXCEPT ![p] = s]
      BY <2>1 DEF DrainBy
    <3> QED
      BY <1>1, <3>1, <3>2, <3>3 DEF TasksType
  <2>6. FlagsType'
    BY <1>1, <2>1 DEF DrainBy, FlagsType
  <2> QED
    BY <2>2, <2>3, <2>4, <2>5, <2>6
<1>5. CASE WriteTail(p)
  <2>1. TasksType' /\ UNCHANGED <<fpga, ring, asked, commands, recording, stopping, error_code>>
    BY <1>1, <1>5, NoWriteType DEF WriteTail, TasksType
  <2>2. CASE Undefined /\ UNCHANGED total_length
    <3>1. FlagsType'
      BY <1>1, <2>1, <2>2 DEF FlagsType, Undefined
    <3> QED
      BY <1>1, <2>1, <2>2, <3>1, SameType DEF Undefined
  <2> DEFINE cells == SubSeq(cache[held[p].slot], 1, held[p].len)
  <2>3. ASSUME NEW result, Written(cells, result),
               total_length' = IF result = "ok" THEN Longer(held[p].len) ELSE total_length
        PROVE  DiskType' /\ FlagsType'
    <3>1. cells \in Seq(Nat)
      <4>1. cache[held[p].slot] \in Seq(Nat) /\ Len(cache[held[p].slot]) = Block
            /\ held[p].len \in 0 .. Block
        BY <1>1 DEF RingType, TasksType, Samples
      <4> QED
        BY <4>1
    <3> HIDE DEF cells
    <3>2. DiskType'
      BY <1>1, <2>1, <2>3, <3>1, WrittenType DEF DiskType, WithinFile
    <3>3. held[p].len \in Nat
      BY <1>1 DEF TasksType
    <3>4. FlagsType'
      BY <1>1, <2>1, <2>3, <3>1, <3>3, WrittenType, LongerType DEF FlagsType
    <3> QED
      BY <3>2, <3>4
  <2> QED
    BY <1>1, <1>5, <2>1, <2>2, <2>3, SameType DEF WriteTail
<1>6. CASE WriteLength(p)
  <2>1. TasksType' /\ UNCHANGED <<fpga, ring, asked, commands, recording, stopping, error_code,
                                  total_length>>
    BY <1>1, <1>6 DEF WriteLength, TasksType
  <2>2. CASE Undefined
    <3>1. FlagsType'
      BY <1>1, <2>1, <2>2 DEF FlagsType, Undefined
    <3> QED
      BY <1>1, <2>1, <2>2, <3>1, SameType DEF Undefined
  <2>3. ASSUME NEW result, Written(<<total_length>>, result) PROVE DiskType' /\ FlagsType'
    <3>1. <<total_length>> \in Seq(Nat)
      BY <1>1 DEF FlagsType
    <3>2. DiskType'
      BY <1>1, <2>1, <2>3, <3>1, WrittenType DEF DiskType, WithinFile
    <3>3. FlagsType'
      BY <1>1, <2>1, <2>3, <3>1, WrittenType DEF FlagsType
    <3> QED
      BY <3>2, <3>3
  <2> QED
    BY <1>1, <1>6, <2>1, <2>2, <2>3, SameType DEF WriteLength
<1>7. CASE Close(p)
  <2>1. FpgaType'
    BY <1>1, <1>7, EmptyFifoType DEF Close, CaptureOff, FpgaType
  <2>2. RingType'
    BY <1>1, <1>7, SameType DEF Close
  <2>3. DiskType'
    BY <1>1, <1>7 DEF Close, DiskType, WithinFile
  <2>4. TasksType'
    BY <1>1, <1>7 DEF Close, TasksType
  <2>5. FlagsType'
    BY <1>1, <1>7 DEF Close, FlagsType
  <2> QED
    BY <2>1, <2>2, <2>3, <2>4, <2>5
<1> QED
  BY <1>2, <1>3, <1>4, <1>5, <1>6, <1>7 DEF Write

LEMMA FpgaOffType ==
  ASSUME FpgaType, capturing' \in {capturing, FALSE}, fifo' \in {fifo, <<>>},
         asked' \in {asked, count}, count' = count
  PROVE  FpgaType'
<1>1. capturing' \in BOOLEAN
  BY Zenon DEF FpgaType
<1>2. fifo' \in Seq(Samples) /\ Len(fifo') <= Depth
  BY EmptyFifoType DEF FpgaType
<1>3. count' \in Samples /\ asked' \in 0 .. count'
  BY DEF FpgaType, Samples
<1> QED
  BY <1>1, <1>2, <1>3 DEF FpgaType

(* ... and the others. *)
LEMMA NextTypeInv == TypeInv /\ [Next]_vars => TypeInv'
<1> SUFFICES ASSUME TypeInv, [Next]_vars
             PROVE  FpgaType' /\ RingType' /\ DiskType' /\ TasksType' /\ FlagsType'
  BY TypeParts
<1>1. FpgaType /\ RingType /\ DiskType /\ TasksType /\ FlagsType
  BY TypeParts
<1> USE DEF Goto, Accident
<1>2. CASE \E p \in Tasks : Write(p)
  BY <1>2, WriteTypeInv, TypeParts
<1>3. CASE Sample
  <2>1. fifo' \in Seq(Samples) /\ Len(fifo') <= Depth
    <3>1. count + 1 \in Samples
      BY <1>1, <1>3 DEF Sample, FpgaType, Samples
    <3>2. CASE Len(fifo) < Depth
      <4>1. Append(fifo, count + 1) \in Seq(Samples)
            /\ Len(Append(fifo, count + 1)) = Len(fifo) + 1
        BY <1>1, <3>1 DEF FpgaType
      <4> QED
        BY <1>1, <1>3, <3>2, <4>1 DEF Sample, FpgaType
    <3>3. CASE ~(Len(fifo) < Depth)
      BY <1>1, <1>3, <3>3 DEF Sample, FpgaType
    <3> QED
      BY <3>2, <3>3
  <2>2. (count \in Samples /\ asked \in 0 .. count)'
    BY <1>1, <1>3 DEF Sample, FpgaType, Samples
  <2>3. FpgaType'
    BY <1>1, <1>3, <2>1, <2>2 DEF Sample, FpgaType
  <2>4. UNCHANGED <<ring, disk, commands, pc, held>>
    BY <1>3 DEF Sample, tasks
  <2>5. FlagsType'
    BY <1>1, <1>3 DEF Sample, tasks, FlagsType
  <2> QED
    BY <1>1, <2>3, <2>4, <2>5, SameType
<1>4. CASE Irq
  <2>1. UNCHANGED <<disk, commands, pc, held>>
    BY <1>4 DEF Irq, tasks
  <2>2. FlagsType'
    BY <1>1, <1>4 DEF Irq, cache_block, tasks, FlagsType
  <2>3. CASE cache_block
    <3>1. FpgaType'
      <4>1. SubSeq(fifo, Block + 1, Len(fifo)) \in Seq(Samples)
            /\ Len(SubSeq(fifo, Block + 1, Len(fifo))) <= Depth
        BY <1>1, <1>4 DEF Irq, FpgaType
      <4> QED
        BY <1>1, <1>4, <2>3, <4>1 DEF Irq, cache_block, FpgaType
    <3>2. RingType'
      <4>1. [i \in 1 .. Block |-> fifo[i]] \in [1 .. Block -> Samples]
        BY <1>1, <1>4 DEF Irq, FpgaType
      <4> QED
        BY <1>1, <2>3, <4>1, SlotType DEF cache_block, RingType
    <3> QED
      BY <1>1, <2>1, <2>2, <3>1, <3>2, SameType
  <2>4. CASE capturing' = FALSE /\ UNCHANGED <<fifo, ring, accidents>>
    <3>1. FpgaType'
      BY <1>1, <1>4, <2>4, EmptyFifoType DEF Irq, FpgaType
    <3> QED
      BY <1>1, <2>1, <2>2, <2>4, <3>1, SameType
  <2> QED
    BY <1>4, <2>3, <2>4 DEF Irq
<1>5. CASE Poll
  <2>1. FpgaType'
    <3>1. /\ capturing' \in {capturing, FALSE} /\ fifo' \in {fifo, <<>>}
          /\ asked' \in {asked, count} /\ count' = count
      BY <1>5 DEF Poll
    <3> QED
      BY <1>1, <3>1, FpgaOffType
  <2>2. TasksType'
    BY <1>1, <1>5 DEF Poll, TasksType
  <2>3. FlagsType'
    <3>1. recording' \in BOOLEAN /\ stopping' \in BOOLEAN
      BY Zenon, <1>1, <1>5 DEF Poll, FlagsType
    <3>2. error_code' \in {"overflow", "ok", error_code}
          /\ UNCHANGED <<total_length, crashed, accidents>>
      BY <1>5 DEF Poll
    <3> QED
      BY <1>1, <3>1, <3>2 DEF FlagsType
  <2> QED
    BY <1>1, <1>5, <2>1, <2>2, <2>3, SameType DEF Poll
<1>6. CASE StopClosed
  <2>1. FpgaType'
    BY <1>1, <1>6, EmptyFifoType DEF StopClosed, CaptureOff, FpgaType
  <2>2. DiskType' /\ TasksType'
    BY <1>1, <1>6 DEF StopClosed, DiskType, WithinFile, TasksType
  <2>3. FlagsType'
    BY <1>1, <1>6 DEF StopClosed, FlagsType
  <2> QED
    BY <1>1, <1>6, <2>1, <2>2, <2>3, SameType DEF StopClosed
<1>7. CASE Finish
  <2>1. FpgaType'
    <3>1. /\ capturing' \in {capturing, FALSE} /\ fifo' \in {fifo, <<>>}
          /\ asked' \in {asked, count} /\ count' = count
      BY <1>7 DEF Finish, CaptureOff
    <3> QED
      BY <1>1, <3>1, FpgaOffType
  <2>2. DiskType'
    BY <1>1, <1>7 DEF Finish, Command, disk, DiskType, WithinFile
  <2>4. TasksType'
    BY <1>1, <1>7 DEF Finish, TasksType
  <2>3. FlagsType'
    BY <1>1, <1>7 DEF Finish, FlagsType
  <2> QED
    BY <1>1, <1>7, <2>1, <2>2, <2>3, <2>4, SameType DEF Finish
<1>8. CASE FileIsSet
  <2>1. DiskType' /\ FlagsType'
    BY <1>1, <1>8 DEF FileIsSet, Command, disk, tasks, DiskType, WithinFile, FlagsType
  <2> QED
    BY <1>1, <1>8, <2>1, SameType DEF FileIsSet, tasks
<1>9. CASE request_file
  <2>1. FpgaType'
    BY <1>1, <1>9 DEF request_file, FpgaType, Samples
  <2>2. DiskType'
    BY <1>1, <1>9 DEF request_file, Command, DiskType, WithinFile, None
  <2>3. TasksType' /\ FlagsType'
    BY <1>1, <1>9 DEF request_file, TasksType, FlagsType, Tasks
  <2> QED
    BY <1>1, <1>9, <2>1, <2>2, <2>3, SameType DEF request_file
<1>10. CASE Start
  <2>1. FpgaType'
    BY <1>1, <1>10, EmptyFifoType DEF Start, StartAt, FpgaType
  <2>2. RingType'
    BY <1>1, <1>10, SlotType DEF Start, StartAt, RingType
  <2>3. TasksType' /\ FlagsType'
    BY <1>1, <1>10 DEF Start, StartAt, TasksType, FlagsType, Tasks
  <2> QED
    BY <1>1, <1>10, <2>1, <2>2, <2>3, SameType DEF Start, StartAt
<1>11. CASE UNCHANGED vars
  BY <1>1, <1>11, SameType DEF vars, tasks, FlagsType
<1> QED
  BY <1>2, <1>3, <1>4, <1>5, <1>6, <1>7, <1>8, <1>9, <1>10, <1>11 DEF Next

(* Every variable keeps its type, with any accident; in particular the     *)
(* indices stay in the ring and a file is never written beyond its end.    *)
THEOREM TypeCorrect == Spec => []TypeOK
<1>1. TypeInv => TypeOK
  BY DEF TypeInv
<1> QED
  BY <1>1, InitTypeInv, NextTypeInv, PTL DEF Spec

(****************************************************************************)
(* Modes                                                                    *)
(****************************************************************************)
(* A step of one task leaves the place of the other. *)
LEMMA GotoStep ==
  ASSUME TypeInv, NEW p \in Tasks, NEW s, Goto(p, s)
  PROVE  /\ pc'["poll"] = (IF p = "poll" THEN s ELSE pc["poll"])
         /\ pc'["command"] = (IF p = "command" THEN s ELSE pc["command"])
         /\ pc'[p] = s /\ \A q \in Tasks \ {p} : pc'[q] = pc[q]
  BY DEF TypeInv, TypeOK, Goto, Tasks

LEMMA InitModeInv == Init => ModeInv
  BY DEF Init, ModeInv, Draining, Tasks

LEMMA NextModeInv == TypeInv /\ ModeInv /\ [Next]_vars => ModeInv'
<1> SUFFICES ASSUME TypeInv, ModeInv, [Next]_vars PROVE ModeInv'
  OBVIOUS
<1> USE DEF At
<1>1. ASSUME NEW p \in Tasks, Write(p) PROVE ModeInv'
  <2>1. pc \in [Tasks -> {"idle", "start", "loop", "write", "drain", "tail",
                         "length", "close", "closed"}] /\ p \in {"poll", "command"}
    BY DEF TypeInv, TypeOK, Tasks
  <2>2. CASE Loop(p)
    <3>1. UNCHANGED <<capturing, recording, stopping>>
      BY <2>2 DEF Loop, fpga, tasks
    <3>2. CASE UNCHANGED tasks
      BY <3>1, <3>2 DEF ModeInv, tasks
    <3>3. CASE file # None /\ Goto(p, "write")
               /\ held' = [held EXCEPT ![p] = [file |-> file, slot |-> block_out, len |-> Block]]
      <4>1. held'[p].file # None /\ \A q \in Tasks : q # p => held'[q] = held[q]
        BY <3>3 DEF TypeInv, TypeOK
      <4> QED
        BY <2>1, <2>2, <3>1, <3>3, <4>1, GotoStep DEF ModeInv, Draining, Loop, Tasks
    <3>4. CASE UNCHANGED held /\ Goto(p, IF Flushing(p) THEN "drain" ELSE "idle")
      BY <2>1, <2>2, <3>1, <3>4, GotoStep DEF ModeInv, Draining, Flushing, Loop, Tasks
    <3> QED
      BY <2>2, <3>2, <3>3, <3>4 DEF Loop
  <2>3. CASE WriteBlock(p) \/ Drain(p) \/ WriteTail(p) \/ WriteLength(p)
    <3>1. UNCHANGED <<capturing, recording, stopping>>
      BY <2>3 DEF WriteBlock, Drain, DrainBy, WriteTail, WriteLength, fpga
    <3>2. \E s \in {"loop", "tail", "drain", "length", "close"} :
             /\ Goto(p, s) /\ (s = "loop" \/ pc[p] \in Draining)
      BY <2>3 DEF WriteBlock, Drain, DrainBy, WriteTail, WriteLength, Draining
    <3>3. \A q \in Tasks : q # p => held'[q] = held[q]
      BY <2>3 DEF WriteBlock, Drain, DrainBy, WriteTail, WriteLength, TypeInv, TypeOK
    <3>4. pc[p] # "idle"
      BY <2>3 DEF WriteBlock, Drain, DrainBy, WriteTail, WriteLength
    <3> QED
      BY <2>1, <3>1, <3>2, <3>3, <3>4, GotoStep DEF ModeInv, Draining, Tasks
  <2>4. CASE Close(p)
    <3>1. ~capturing' /\ UNCHANGED <<stopping, held>>
      BY <2>4 DEF Close, CaptureOff
    <3> QED
      BY <2>1, <2>4, <3>1, GotoStep DEF Close, ModeInv, Draining, Tasks
  <2> QED
    BY <1>1, <2>2, <2>3, <2>4 DEF Write
<1>2. CASE Sample \/ Irq
  <2>1. UNCHANGED tasks /\ recording' = recording /\ (capturing' => capturing)
    BY <1>2 DEF Sample, Irq, cache_block
  <2> QED
    BY <2>1 DEF ModeInv, tasks
<1>3. CASE Poll
  <2>1. pc["poll"] = "idle" /\ ~stopping /\ UNCHANGED held
    BY <1>3 DEF Poll, ModeInv
  <2>2. pc'["poll"] = (IF recording THEN "loop" ELSE "idle") /\ pc'["command"] = pc["command"]
    BY <1>3, GotoStep DEF Poll, Tasks
  <2>3. (capturing' => recording') /\ (stopping' => recording)
    BY <1>3, <2>1 DEF Poll, ModeInv
  <2> QED
    BY <2>1, <2>2, <2>3 DEF ModeInv, Draining, Tasks
<1>4. CASE StopClosed
  <2>1. pc'["poll"] = "loop" /\ pc'["command"] = pc["command"]
    BY <1>4, GotoStep DEF StopClosed, Tasks
  <2> QED
    BY <1>4, <2>1 DEF StopClosed, CaptureOff, ModeInv, Draining, Tasks
<1>5. CASE Finish \/ FileIsSet \/ request_file \/ Start
  <2>1. pc'["poll"] = pc["poll"] /\ pc'["command"] # "write" /\ UNCHANGED <<held, stopping>>
    BY <1>5, GotoStep DEF Finish, FileIsSet, request_file, Start, StartAt, Command, tasks, Tasks
  <2>2. capturing' => recording'
    BY <1>5 DEF Finish, FileIsSet, request_file, Start, StartAt, CaptureOff, ModeInv, fpga
  <2> QED
    BY <2>1, <2>2 DEF ModeInv, Tasks
<1>6. CASE UNCHANGED vars
  BY <1>6 DEF vars, tasks, fpga, ModeInv
<1> QED
  BY <1>1, <1>2, <1>3, <1>4, <1>5, <1>6 DEF Next

(****************************************************************************)
(* Where the samples are                                                    *)
(****************************************************************************)
LEMMA BlockStartSteps ==
  /\ BlockStart(0) = 0
  /\ \A j \in Nat : BlockStart(j) \in Nat /\ BlockStart(j + 1) = BlockStart(j) + Block
<1>1. \A j, b \in Nat : j * b \in Nat /\ (j + 1) * b = j * b + b /\ 0 * b = 0
  OBVIOUS
<1> QED
  BY <1>1 DEF BlockStart

LEMMA RestIs ==
  /\ \A p \in Tasks : pc[p] = "tail" /\ pc[Other(p)] # "tail" => Rest = held[p].len
  /\ (\A p \in Tasks : pc[p] # "tail") => Rest = 0
  /\ \A p \in Tasks : pc'[p] = "tail" /\ pc'[Other(p)] # "tail" => Rest' = held'[p].len
  /\ (\A p \in Tasks : pc'[p] # "tail") => Rest' = 0
  BY DEF Rest, Tasks, Other

RecordedState ==
  /\ TypeInv /\ ModeInv /\ accidents = {}
  /\ file # None /\ pc["command"] # "start" /\ Recorded

LEMMA RecordedTypes ==
  ASSUME RecordedState
  PROVE  /\ Cached \in Nat /\ Cached <= Blocks /\ Rest \in Nat /\ total_length \in Nat
         /\ count \in Nat /\ count <= MaxSamples /\ asked \in 0 .. count
         /\ fifo \in Seq(Samples) /\ content \in Seq(Nat) /\ position \in Nat \ {0}
         /\ block_in \in Slots /\ block_out \in Slots
         /\ cache \in [Slots -> [1 .. Block -> Samples]]
         /\ BlockStart(Cached) \in Nat
<1>1. Cached \in Nat /\ Cached <= Blocks
  BY DEF RecordedState, Recorded, InRing
<1>2. Rest \in Nat
  BY DEF RecordedState, TypeInv, TypeOK, Rest, Tasks
<1>3. /\ total_length \in Nat
      /\ count \in Nat /\ count <= MaxSamples /\ asked \in 0 .. count
      /\ fifo \in Seq(Samples) /\ content \in Seq(Nat) /\ position \in Nat \ {0}
      /\ block_in \in Slots /\ block_out \in Slots
      /\ cache \in [Slots -> [1 .. Block -> Samples]]
  BY DEF RecordedState, TypeInv, TypeOK, Samples
<1> QED
  BY <1>1, <1>2, <1>3, BlockStartSteps

(* Nothing is added to a file that was counted to the end of its recording. *)
LEMMA RoomToCount ==
  ASSUME RecordedState, NEW n \in Nat, total_length + n <= count
  PROVE  Longer(n) = total_length + n
<1>1. total_length + n <= MaxLength
  BY RecordedTypes
<1> QED
  BY <1>1, RecordedTypes DEF Longer

(* A write at the end of the file. *)
LEMMA Appended ==
  ASSUME content \in Seq(Nat), position = Len(content) + 1, NEW cells \in Seq(Nat)
  PROVE  /\ Len(Overwritten(cells)) = Len(content) + Len(cells)
         /\ \A i \in 1 .. Len(content) : Overwritten(cells)[i] = content[i]
         /\ \A i \in 1 .. Len(cells) : Overwritten(cells)[Len(content) + i] = cells[i]
<1>1. /\ position \in Nat \ {0} /\ position <= Len(content) + 1
      /\ Len(content) \in Nat /\ Len(cells) \in Nat
  OBVIOUS
<1> DEFINE w == Overwritten(cells)
<1>2. /\ Len(w) = (IF position + Len(cells) - 1 > Len(content)
                   THEN position + Len(cells) - 1 ELSE Len(content))
      /\ \A i \in 1 .. Len(w) :
           w[i] = (IF i >= position /\ i < position + Len(cells)
                   THEN cells[i - position + 1] ELSE content[i])
  BY <1>1, OverwrittenCells
<1> HIDE DEF w
<1>3. Len(w) = Len(content) + Len(cells)
  BY <1>1, <1>2
<1>4. \A i \in 1 .. Len(content) : w[i] = content[i]
  BY <1>1, <1>2, <1>3
<1>5. ASSUME NEW i \in 1 .. Len(cells) PROVE w[Len(content) + i] = cells[i]
  <2>1. Len(content) + i \in 1 .. Len(w) /\ (Len(content) + i) - position + 1 = i
        /\ Len(content) + i >= position /\ Len(content) + i < position + Len(cells)
    BY <1>1, <1>3
  <2> QED
    BY <1>2, <2>1
<1> QED
  BY <1>3, <1>4, <1>5 DEF w

(* A write of the next samples keeps the file in order. *)
LEMMA InFileExtends ==
  ASSUME RecordedState, position = total_length + 2, NEW cells \in Seq(Nat),
         \A i \in 1 .. Len(cells) : cells[i] = total_length + i,
         Written(cells, "ok"), total_length' = total_length + Len(cells)
  PROVE  InFile' /\ position' = total_length' + 2
<1>1. /\ content' = Overwritten(cells) /\ position' = position + Len(cells)
      /\ content \in Seq(Nat) /\ total_length \in Nat /\ Len(cells) \in Nat
  BY RecordedTypes DEF Written
<1>2. Len(content) = total_length + 1 /\ \A i \in 1 .. total_length : content[i + 1] = i
  BY DEF RecordedState, Recorded, InFile
<1>3. /\ Len(content') = Len(content) + Len(cells)
      /\ \A i \in 1 .. Len(content) : content'[i] = content[i]
      /\ \A i \in 1 .. Len(cells) : content'[Len(content) + i] = cells[i]
  BY <1>1, <1>2, Appended
<1>4. ASSUME NEW i \in 1 .. total_length' PROVE content'[i + 1] = i
  <2>1. CASE i \in 1 .. total_length
    BY <1>1, <1>2, <1>3, <2>1
  <2>2. CASE i \notin 1 .. total_length
    <3>1. i - total_length \in 1 .. Len(cells) /\ Len(content) + (i - total_length) = i + 1
          /\ total_length + (i - total_length) = i
      BY <1>1, <1>2, <2>2
    <3> QED
      BY <1>3, <3>1
  <2> QED
    BY <2>1, <2>2
<1>5. Len(content') = total_length' + 1
  BY <1>1, <1>2, <1>3
<1> QED
  BY <1>1, <1>4, <1>5 DEF InFile

(* The ring, seen from its first block and from the next one. *)
LEMMA RingSlots ==
  ASSUME block_out \in Slots
  PROVE  /\ SlotAt(0) = block_out /\ SlotAt(Blocks) = block_out
         /\ \A j \in 0 .. Blocks - 1 : SlotAt(j) \in Slots /\ NextSlot(SlotAt(j)) = SlotAt(j + 1)
         /\ \A j, k \in 0 .. Blocks - 1 : j # k => SlotAt(j) # SlotAt(k)
         /\ block_out' = NextSlot(block_out) =>
              \A j \in 0 .. Blocks - 1 : SlotAt(j)' = SlotAt(j + 1)
         /\ block_out' = block_out => \A j \in 0 .. Blocks : SlotAt(j)' = SlotAt(j)
  BY DEF SlotAt, Slots, NextSlot

(****************************************************************************)
(* The steps while a recording is in its file                               *)
(****************************************************************************)
(* What a step of one task keeps when it touches neither ring nor FIFO nor  *)
(* file, and neither task is in the middle of writing the rest.             *)
LEMMA SameRing ==
  ASSUME RecordedState, UNCHANGED <<ring, total_length>>
  PROVE  /\ InRing' /\ UNCHANGED <<Cached, BlockStart(Cached)>>
         /\ \A j \in 0 .. Blocks : SlotAt(j)' = SlotAt(j)
<1>1. Cached' = Cached /\ \A j : SlotAt(j)' = SlotAt(j)
  BY DEF ring, Cached, SlotAt
<1> QED
  BY <1>1 DEF RecordedState, Recorded, InRing, ring, BlockStart

LEMMA RecordedLoop ==
  ASSUME RecordedState, NEW p \in Tasks, Loop(p), accidents' = {}
  PROVE  Recorded'
<1> DEFINE q == Other(p)
<1>1. q \in Tasks /\ q # p /\ Tasks = {p, q}
  BY DEF Other, Tasks
<1>2. /\ UNCHANGED <<fpga, ring, disk, recording, total_length, asked>> /\ pc[p] = "loop"
      /\ file # None /\ stopping' = stopping
  BY DEF Loop, At, RecordedState, tasks
<1>3. InFile' /\ InRing' /\ UNCHANGED <<Cached, BlockStart(Cached)>>
  BY <1>2, SameRing DEF RecordedState, Recorded, InFile, disk
<1>4. CASE blocks_cached > blocks_written
  <2>1. /\ held' = [held EXCEPT ![p] = [file |-> file, slot |-> block_out, len |-> Block]]
        /\ Goto(p, "write") /\ ~Inside(q)
    <3>1. ~(blocks_cached <= blocks_written) /\ accidents = {}
      BY <1>4 DEF RecordedState, TypeInv, TypeOK
    <3> QED
      BY <1>2, <1>4, <3>1 DEF Loop, Accident
  <2>2. /\ pc'[p] = "write" /\ pc'[q] = pc[q] /\ held'[q] = held[q]
        /\ held'[p] = [file |-> file, slot |-> block_out, len |-> Block]
    BY <1>1, <2>1, GotoStep DEF RecordedState, TypeInv, TypeOK
  <2>3. Cached > 0
    BY <1>4 DEF Cached, RecordedState, TypeInv, TypeOK
  <2>4. pc[q] \notin Draining /\ pc[q] # "write" /\ ~Ending /\ ~Ending'
    BY <1>1, <1>2, <2>1, <2>2, <2>3, RecordedTypes DEF RecordedState, Recorded, OneWriter, Inside,
       Ending, Draining
  <2>5. Rest = 0 /\ Rest' = 0
    BY <1>1, <1>2, <2>2, <2>4, RestIs DEF Draining
  <2>6. InTail'
    BY <1>1, <2>2, <2>4 DEF InTail, Draining
  <2>7. InFifo'
    BY <1>2, <1>3, <2>5 DEF RecordedState, Recorded, InFifo, fpga
  <2>8. OneWriter'
    <3>1. \A t \in Tasks : t = p \/ t = q
      BY <1>1
    <3>2. "poll" \in {p, q} /\ pc["poll"] # "closed"
      BY <1>1 DEF Tasks, RecordedState, Recorded, OneWriter
    <3>3. pc'["poll"] # "closed" /\ ~(Inside("poll") /\ Inside("command"))'
      BY <1>1, <1>2, <2>2, <2>4, <3>2, <2>1 DEF Inside, Tasks
    <3>4. \A t \in Tasks :
            /\ pc'[t] = "write" => Cached' > 0
                                /\ held'[t] = [file |-> file', slot |-> block_out', len |-> Block]
            /\ pc'[t] \in Draining => Cached' = 0
            /\ pc'[t] = "tail" => ~Ending'
      BY <1>2, <1>3, <2>2, <2>3, <2>4, <3>1 DEF Draining, ring, disk
    <3> QED
      BY <3>3, <3>4 DEF OneWriter
  <2>9. LengthField'
    BY <1>1, <1>2, <2>2, <2>4 DEF RecordedState, Recorded, LengthField, Ending, fpga, disk, Draining
  <2> QED
    BY <1>3, <2>6, <2>7, <2>8, <2>9 DEF Recorded
<1>5. CASE ~(blocks_cached > blocks_written)
  <2>1. Cached = 0
    BY <1>5, RecordedTypes DEF Cached, RecordedState, TypeInv, TypeOK
  <2>2. \E s \in {"drain", "idle"} : Goto(p, s)
    BY <1>2, <1>5 DEF Loop, RecordedState, TypeInv, TypeOK
  <2>3. held' = held /\ pc'[p] \in {"drain", "idle"} /\ pc'[q] = pc[q]
    BY <1>1, <1>2, <1>5, <2>2, GotoStep DEF Loop, RecordedState, TypeInv, TypeOK
  <2>4. Ending' <=> Ending
    BY <1>1, <1>2, <2>3 DEF Ending
  <2>5. Rest' = Rest
    BY <1>1, <1>2, <2>3 DEF Rest, Tasks
  <2>6. InTail'
    BY <1>1, <1>2, <2>3 DEF RecordedState, Recorded, InTail, ring, disk
  <2>7. InFifo'
    BY <1>2, <1>3, <2>5 DEF RecordedState, Recorded, InFifo, fpga
  <2>8. OneWriter'
    BY <1>1, <1>2, <1>3, <2>1, <2>3, <2>4 DEF RecordedState, Recorded, OneWriter, Inside, Draining,
       Tasks, ring, disk
  <2>9. LengthField'
    BY <1>1, <1>2, <2>3, <2>4 DEF RecordedState, Recorded, LengthField, fpga, disk
  <2> QED
    BY <1>3, <2>6, <2>7, <2>8, <2>9 DEF Recorded
<1> QED
  BY <1>4, <1>5

LEMMA OtherTask ==
  ASSUME NEW p \in Tasks
  PROVE  Other(p) \in Tasks /\ Other(p) # p /\ Tasks = {p, Other(p)}
  BY DEF Other, Tasks

LEMMA RecordedWriteBlock ==
  ASSUME RecordedState, NEW p \in Tasks, WriteBlock(p), accidents' = {}
  PROVE  Recorded'
<1> DEFINE q == Other(p)
           cells == cache[held[p].slot]
<1>0. /\ Cached \in Nat /\ Cached <= Blocks /\ total_length \in Nat /\ count \in Nat
      /\ BlockStart(Cached) \in Nat /\ Blocks \in Nat /\ Block \in Nat /\ Block > 0
  BY RecordedTypes
<1>1. q \in Tasks /\ q # p /\ Tasks = {p, q}
  BY OtherTask
<1>2. /\ pc[p] = "write" /\ Cached > 0
      /\ held[p] = [file |-> file, slot |-> block_out, len |-> Block]
  BY DEF WriteBlock, At, RecordedState, Recorded, OneWriter
<1>3. pc[q] \notin Draining /\ pc[q] # "write" /\ ~Ending
  BY <1>1, <1>2, RecordedTypes DEF RecordedState, Recorded, OneWriter, Inside, Ending, Draining,
     Tasks
<1>4. position = total_length + 2 /\ Rest = 0
  BY <1>1, <1>2, <1>3, RestIs DEF RecordedState, Recorded, LengthField, Draining
<1>5. /\ UNCHANGED <<fpga, cache, block_in, blocks_cached, stopping, asked, file>>
      /\ Written(cells, "ok") /\ total_length' = Longer(Block)
      /\ block_out' = NextSlot(block_out) /\ blocks_written' = blocks_written + 1
  <2>1. accidents = {} /\ ~(held[p].file # file)
    BY <1>2 DEF RecordedState
  <2>2. PICK result \in {"ok"} \cup Faults :
          /\ Written(cells, result)
          /\ IF result = "error"
             THEN error_code' = "write_error" /\ UNCHANGED <<block_out, blocks_written>>
             ELSE /\ error_code' = "ok"
                  /\ block_out' = NextSlot(block_out)
                  /\ blocks_written' = blocks_written + 1
    BY <2>1 DEF WriteBlock
  <2>3. result = "ok"
    BY <2>1, <2>2 DEF Written, Accident
  <2> QED
    BY <2>2, <2>3 DEF WriteBlock, Written
<1>6. pc'[p] = "loop" /\ pc'[q] = pc[q] /\ held'[q] = held[q]
  BY <1>1, GotoStep DEF WriteBlock, RecordedState, TypeInv, TypeOK
<1>7. cells \in Seq(Nat) /\ Len(cells) = Block
      /\ \A i \in 1 .. Block : cells[i] = total_length + i
  <2>1. cells \in [1 .. Block -> Samples] /\ cells = cache[SlotAt(0)]
    BY <1>2, RecordedTypes, RingSlots
  <2>2. \A i \in 1 .. Block : cache[SlotAt(0)][i] = total_length + BlockStart(0) + i
    BY <1>2, RecordedTypes DEF RecordedState, Recorded, InRing
  <2>3. cells \in Seq(Nat) /\ Len(cells) = Block
    BY <2>1 DEF Samples
  <2> QED
    BY <2>1, <2>2, <2>3, BlockStartSteps, RecordedTypes
<1>8. /\ Cached - 1 \in Nat /\ Cached' = Cached - 1
      /\ BlockStart(Cached - 1) \in Nat /\ BlockStart(Cached) = BlockStart(Cached - 1) + Block
  <2>1. Cached - 1 \in Nat /\ (Cached - 1) + 1 = Cached
    BY <1>2, RecordedTypes
  <2>2. Cached' = Cached - 1
    BY <1>5 DEF Cached, RecordedState, TypeInv, TypeOK
  <2> QED
    BY <2>1, <2>2, BlockStartSteps
<1>9. total_length' = total_length + Block
  <2>1. count = total_length + BlockStart(Cached) + Len(fifo) /\ Len(fifo) \in Nat
    BY <1>4, RecordedTypes DEF RecordedState, Recorded, InFifo
  <2>2. total_length + Block <= count
    BY <1>0, <1>8, <2>1
  <2> QED
    BY <1>5, <2>2, RoomToCount
<1>10. InFile' /\ position' = total_length' + 2
  BY <1>4, <1>5, <1>7, <1>9, InFileExtends
<1>11. InRing'
  <2>1. \A j \in 0 .. Blocks - 1 : SlotAt(j)' = SlotAt(j + 1)
    BY <1>5, RecordedTypes, RingSlots
  <2>2. Cached' \in 0 .. Blocks /\ block_in' = SlotAt(Cached)'
    <3>1. block_in = SlotAt(Cached) /\ Cached - 1 \in 0 .. Blocks - 1 /\ (Cached - 1) + 1 = Cached
      BY <1>8, RecordedTypes DEF RecordedState, Recorded, InRing
    <3>2. SlotAt(Cached)' = SlotAt(Cached)
      BY <1>8, <2>1, <3>1 DEF SlotAt
    <3> QED
      BY <1>0, <1>5, <1>8, <3>1, <3>2
  <2>3. ASSUME NEW j \in 0 .. Cached' - 1, NEW i \in 1 .. Block
        PROVE  cache'[SlotAt(j)'][i] = total_length' + BlockStart(j) + i
    <3>1. j \in Nat /\ j \in 0 .. Blocks - 1 /\ j + 1 \in 0 .. Cached - 1
      BY <1>0, <1>8
    <3>2. cache[SlotAt(j + 1)][i] = total_length + BlockStart(j + 1) + i
      BY <3>1 DEF RecordedState, Recorded, InRing
    <3>3. BlockStart(j + 1) = BlockStart(j) + Block /\ BlockStart(j) \in Nat
      BY <3>1, BlockStartSteps
    <3> QED
      BY <1>0, <1>5, <1>9, <2>1, <3>1, <3>2, <3>3
  <2> QED
    BY <2>2, <2>3 DEF InRing, BlockStart
<1>12. ~Ending' /\ InTail' /\ Rest' = 0
  <2>1. ~Ending' /\ \A t \in Tasks : pc'[t] # "tail"
    BY <1>1, <1>3, <1>6 DEF Ending, Draining
  <2> QED
    BY <2>1, RestIs DEF InTail
<1>13. InFifo'
  <2>1. count' = count /\ fifo' = fifo
    BY <1>5 DEF fpga
  <2>2. BlockStart(Cached)' = BlockStart(Cached - 1)
    BY <1>8 DEF BlockStart
  <2>3. total_length' + BlockStart(Cached)' + Rest' = total_length + BlockStart(Cached) + Rest
    BY <1>0, <1>4, <1>8, <1>9, <1>12, <2>2
  <2> QED
    BY <2>1, <2>3 DEF RecordedState, Recorded, InFifo
<1>14. OneWriter'
  <2>1. pc["poll"] # "closed" /\ \A t \in Tasks : t = p \/ t = q
    BY <1>1 DEF RecordedState, Recorded, OneWriter
  <2>2. pc'["poll"] # "closed" /\ \A t \in Tasks : pc'[t] \notin Draining /\ pc'[t] # "write"
    BY <1>1, <1>3, <1>6, <2>1 DEF Tasks, Draining
  <2> QED
    BY <2>2 DEF OneWriter, Draining, Inside, Tasks
<1>15. LengthField'
  <2>1. \A t \in Tasks : pc'[t] # "length" /\ pc'[t] # "close"
    BY <1>1, <1>3, <1>6 DEF Draining
  <2> QED
    BY <1>5, <1>10, <1>12, <2>1 DEF RecordedState, Recorded, LengthField, fpga
<1> QED
  BY <1>10, <1>11, <1>12, <1>13, <1>14, <1>15 DEF Recorded

LEMMA RecordedDrain ==
  ASSUME RecordedState, NEW p \in Tasks, Drain(p), accidents' = {}
  PROVE  Recorded'
<1> DEFINE q == Other(p)
           n == IF Len(fifo) < Block THEN Len(fifo) ELSE Block
<1>0. /\ total_length \in Nat /\ count \in Nat /\ asked \in 0 .. count /\ fifo \in Seq(Samples)
      /\ Block \in Nat
  BY RecordedTypes
<1>1. q \in Tasks /\ q # p /\ Tasks = {p, q}
  BY OtherTask
<1>2. n \in 0 .. Block /\ n <= Len(fifo) /\ DrainBy(p, n)
  BY <1>0 DEF Drain
<1> HIDE DEF n
<1>3. pc[p] = "drain" /\ ~Inside(q) /\ file # None
  BY <1>2 DEF DrainBy, At, Accident, RecordedState
<1>4. Cached = 0 /\ BlockStart(Cached) = 0 /\ Rest = 0 /\ block_in = SlotAt(0)
  <2>1. Cached = 0 /\ block_in = SlotAt(Cached)
    BY <1>3 DEF RecordedState, Recorded, OneWriter, InRing, Draining
  <2>2. \A t \in Tasks : pc[t] # "tail"
    BY <1>1, <1>3 DEF Inside
  <2> QED
    BY <2>1, <2>2, RestIs, BlockStartSteps
<1>5. /\ UNCHANGED <<capturing, count, block_in, block_out, blocks_cached, blocks_written,
                     file, content, stopping, total_length, asked>>
      /\ Cached' = 0 /\ BlockStart(Cached)' = 0 /\ SlotAt(0)' = SlotAt(0)
  <2>1. UNCHANGED <<capturing, count, block_in, block_out, blocks_cached, blocks_written,
                    file, content, stopping, total_length, asked>>
    BY <1>2 DEF DrainBy
  <2>2. Cached' = Cached
    BY <2>1 DEF Cached
  <2>3. BlockStart(Cached)' = BlockStart(Cached) /\ SlotAt(0)' = SlotAt(0)
    BY <2>1, <2>2 DEF BlockStart, SlotAt
  <2> QED
    BY <1>4, <2>1, <2>2, <2>3
<1>6. InFile' /\ InRing'
  <2>1. InFile'
    BY <1>5 DEF RecordedState, Recorded, InFile
  <2> QED
    BY <1>0, <1>4, <1>5, <2>1, RecordedTypes DEF InRing
<1>7. count = total_length + Len(fifo) /\ \A i \in 1 .. Len(fifo) : fifo[i] = total_length + i
  BY <1>0, <1>4 DEF RecordedState, Recorded, InFifo
<1>8. CASE fifo # <<>>
  <2>1. /\ cache' = [cache EXCEPT ![block_in] =
                       [i \in 1 .. Block |-> IF i <= n THEN fifo[i] ELSE @[i]]]
        /\ fifo' = SubSeq(fifo, n + 1, Len(fifo))
        /\ held' = [held EXCEPT ![p] = [file |-> file, slot |-> block_in, len |-> n]]
        /\ Goto(p, "tail") /\ position' = position
    BY <1>2, <1>8 DEF DrainBy
  <2>2. /\ pc'[p] = "tail" /\ pc'[q] = pc[q]
        /\ held'[p] = [file |-> file, slot |-> block_in, len |-> n]
    BY <1>1, <2>1, GotoStep DEF RecordedState, TypeInv, TypeOK
  <2>3. ~Ending /\ ~Ending'
    <3>1. Ending => stopping
      BY <1>1, <1>3 DEF RecordedState, ModeInv, Ending, Inside, Draining, Tasks
    <3>2. ~Ending
      BY <1>8, <3>1 DEF RecordedState, Recorded, LengthField
    <3> QED
      BY <1>1, <2>2, <3>2 DEF Ending
  <2>4. Rest' = n
    BY <1>1, <1>3, <2>2, RestIs DEF Inside
  <2>5. InTail'
    <3>1. cache'[block_in] = [i \in 1 .. Block |-> IF i <= n THEN fifo[i] ELSE cache[block_in][i]]
      BY <2>1, RecordedTypes
    <3>2. \A i \in 1 .. n : cache'[block_in][i] = total_length + i
      BY <1>0, <1>2, <1>7, <3>1
    <3> QED
      BY <1>1, <1>3, <1>5, <2>2, <3>2 DEF InTail, Inside
  <2>6. InFifo'
    <3>1. Len(fifo') = Len(fifo) - n /\ \A i \in 1 .. Len(fifo') : fifo'[i] = fifo[n + i]
      BY <1>0, <1>2, <2>1
    <3>2. \A i \in 1 .. Len(fifo') : fifo'[i] = total_length + n + i
      BY <1>0, <1>2, <1>7, <3>1
    <3>3. count = total_length + n + Len(fifo')
      BY <1>0, <1>2, <1>7, <3>1
    <3> QED
      BY <1>0, <1>2, <1>5, <2>4, <3>2, <3>3 DEF InFifo
  <2>7. OneWriter'
    <3>1. pc'["poll"] # "closed" /\ ~(Inside("poll") /\ Inside("command"))'
      BY <1>1, <1>3, <2>2 DEF Inside, Tasks, RecordedState, Recorded, OneWriter
    <3>2. \A t \in Tasks : pc'[t] # "write"
      BY <1>1, <1>3, <2>2 DEF Inside
    <3> QED
      BY <1>5, <2>3, <3>1, <3>2 DEF OneWriter
  <2>8. LengthField'
    <3>1. position = total_length + 2 /\ \A t \in Tasks : pc'[t] # "length" /\ pc'[t] # "close"
      BY <1>1, <2>3 DEF RecordedState, Recorded, LengthField, Ending
    <3> QED
      BY <1>5, <2>1, <2>3, <3>1 DEF RecordedState, Recorded, LengthField
  <2> QED
    BY <1>6, <2>5, <2>6, <2>7, <2>8 DEF Recorded
<1>9. CASE fifo = <<>>
  <2>1. UNCHANGED <<cache, fifo, held>> /\ Goto(p, "length") /\ position' = 1
    BY <1>2, <1>3, <1>9 DEF DrainBy
  <2>2. pc'[p] = "length" /\ pc'[q] = pc[q]
    BY <1>1, <2>1, GotoStep DEF RecordedState
  <2>3. Rest' = 0 /\ InTail'
    <3>1. \A t \in Tasks : pc'[t] # "tail"
      BY <1>1, <1>3, <2>2 DEF Inside
    <3> QED
      BY <3>1, RestIs DEF InTail
  <2>4. InFifo'
    BY <1>4, <1>5, <2>1, <2>3 DEF RecordedState, Recorded, InFifo
  <2>5. Ending' /\ asked <= total_length
    BY <1>0, <1>1, <1>7, <1>9, <2>2 DEF Ending
  <2>6. OneWriter'
    <3>1. pc'["poll"] # "closed" /\ ~(Inside("poll") /\ Inside("command"))'
      BY <1>1, <1>3, <2>2 DEF Inside, Tasks, RecordedState, Recorded, OneWriter
    <3>2. \A t \in Tasks : pc'[t] # "write" /\ pc'[t] # "tail"
      BY <1>1, <1>3, <2>2 DEF Inside
    <3> QED
      BY <1>5, <3>1, <3>2 DEF OneWriter
  <2>7. LengthField'
    <3>1. pc'[q] = "close" => content[1] = total_length
      BY <1>1, <2>2 DEF RecordedState, Recorded, LengthField
    <3>2. \A t \in Tasks : /\ pc'[t] = "length" => position' = 1
                           /\ pc'[t] = "close" => content'[1] = total_length'
      BY <1>1, <1>5, <2>1, <2>2, <3>1
    <3> QED
      BY <1>5, <1>9, <2>1, <2>5, <3>2 DEF RecordedState, Recorded, LengthField
  <2> QED
    BY <1>6, <2>3, <2>4, <2>6, <2>7 DEF Recorded
<1> QED
  BY <1>8, <1>9

LEMMA FirstCells ==
  ASSUME NEW block \in [1 .. Block -> Samples], NEW n \in 0 .. Block
  PROVE  /\ SubSeq(block, 1, n) \in Seq(Nat) /\ Len(SubSeq(block, 1, n)) = n
         /\ \A i \in 1 .. n : SubSeq(block, 1, n)[i] = block[i]
<1>1. block \in Seq(Nat) /\ Len(block) = Block /\ n \in Nat
  BY DEF Samples
<1> QED
  BY <1>1

LEMMA RecordedWriteTail ==
  ASSUME RecordedState, NEW p \in Tasks, WriteTail(p), accidents' = {}
  PROVE  Recorded'
<1> DEFINE q == Other(p)
           n == held[p].len
           cells == SubSeq(cache[held[p].slot], 1, n)
<1>0. /\ total_length \in Nat /\ count \in Nat /\ fifo \in Seq(Samples) /\ Block \in Nat
      /\ n \in 0 .. Block /\ held[p].slot \in Slots
  BY RecordedTypes DEF RecordedState, TypeInv, TypeOK
<1>1. q \in Tasks /\ q # p /\ Tasks = {p, q}
  BY OtherTask
<1>2. pc[p] = "tail" /\ held[p].file = file /\ file # None /\ ~Ending /\ ~Inside(q)
  BY <1>1 DEF WriteTail, At, RecordedState, Recorded, OneWriter, InTail, Inside, Tasks
<1>3. /\ Cached = 0 /\ BlockStart(Cached) = 0 /\ Rest = n /\ position = total_length + 2
  <2>1. Cached = 0 /\ position = total_length + 2
    BY <1>2 DEF RecordedState, Recorded, OneWriter, LengthField, Draining
  <2> QED
    BY <1>1, <1>2, <2>1, RestIs, BlockStartSteps DEF Inside
<1>4. cells \in Seq(Nat) /\ Len(cells) = n /\ \A i \in 1 .. n : cells[i] = total_length + i
  <2>1. cache[held[p].slot] \in [1 .. Block -> Samples]
    BY <1>0, RecordedTypes
  <2>2. \A i \in 1 .. n : cache[held[p].slot][i] = total_length + i
    BY <1>2 DEF RecordedState, Recorded, InTail
  <2>3. cells \in Seq(Nat) /\ Len(cells) = n /\ \A i \in 1 .. n : cells[i] = cache[held[p].slot][i]
    BY <1>0, <2>1, FirstCells
  <2> QED
    BY <2>2, <2>3
<1>5. count = total_length + n + Len(fifo)
  BY <1>0, <1>3 DEF RecordedState, Recorded, InFifo
<1> HIDE DEF n, cells
<1>6. /\ UNCHANGED <<fpga, ring, stopping, asked, file>>
      /\ Written(cells, "ok") /\ total_length' = total_length + n
  <2>1. accidents = {}
    BY DEF RecordedState
  <2>2. PICK result \in {"ok"} \cup Faults :
          /\ Written(cells, result)
          /\ total_length' = IF result = "ok" THEN Longer(n) ELSE total_length
    BY <1>2 DEF WriteTail, n, cells
  <2>3. result = "ok"
    BY <2>1, <2>2 DEF Written, Accident
  <2>4. Longer(n) = total_length + n
    BY <1>0, <1>5, RoomToCount
  <2> QED
    BY <2>2, <2>3, <2>4 DEF WriteTail, Written
<1>7. pc'[p] = "drain" /\ pc'[q] = pc[q]
  BY <1>1, GotoStep DEF WriteTail, RecordedState
<1>8. InFile' /\ position' = total_length' + 2
  BY <1>3, <1>4, <1>6, InFileExtends
<1>9. Cached' = 0 /\ BlockStart(Cached)' = 0 /\ SlotAt(0)' = SlotAt(0)
  <2>1. Cached' = Cached /\ SlotAt(0)' = SlotAt(0)
    BY <1>6 DEF Cached, SlotAt, ring
  <2>2. BlockStart(Cached)' = BlockStart(Cached)
    BY <2>1 DEF BlockStart
  <2> QED
    BY <1>3, <2>1, <2>2
<1>10. InRing'
  <2>1. block_in = SlotAt(0)
    BY <1>3 DEF RecordedState, Recorded, InRing
  <2> QED
    BY <1>6, <1>9, <2>1, RecordedTypes DEF InRing, ring
<1>11. ~Ending' /\ InTail' /\ Rest' = 0
  <2>1. ~Ending' /\ \A t \in Tasks : pc'[t] # "tail"
    BY <1>1, <1>2, <1>7 DEF Ending, Inside
  <2> QED
    BY <2>1, RestIs DEF InTail
<1>12. InFifo'
  <2>1. \A i \in 1 .. Len(fifo) : fifo[i] = total_length + n + i
    BY <1>0, <1>3 DEF RecordedState, Recorded, InFifo
  <2>2. fifo' = fifo /\ count' = count
    BY <1>6 DEF fpga
  <2> QED
    BY <1>0, <1>5, <1>6, <1>9, <1>11, <2>1, <2>2 DEF InFifo, n
<1>13. OneWriter'
  <2>1. pc'["poll"] # "closed" /\ ~(Inside("poll") /\ Inside("command"))'
    BY <1>1, <1>2, <1>7 DEF Inside, Tasks, RecordedState, Recorded, OneWriter
  <2>2. \A t \in Tasks : pc'[t] # "write"
    BY <1>1, <1>2, <1>7 DEF Inside
  <2> QED
    BY <1>9, <1>11, <2>1, <2>2 DEF OneWriter
<1>14. LengthField'
  <2>1. \A t \in Tasks : pc'[t] # "length" /\ pc'[t] # "close"
    BY <1>11 DEF Ending
  <2> QED
    BY <1>6, <1>8, <1>11, <2>1 DEF RecordedState, Recorded, LengthField, fpga
<1> QED
  BY <1>8, <1>10, <1>11, <1>12, <1>13, <1>14 DEF Recorded

LEMMA RecordedWriteLength ==
  ASSUME RecordedState, NEW p \in Tasks, WriteLength(p), accidents' = {}
  PROVE  Recorded'
<1> DEFINE q == Other(p)
           cells == <<total_length>>
<1>0. /\ total_length \in Nat /\ content \in Seq(Nat) /\ cells \in Seq(Nat)
      /\ Len(cells) = 1 /\ cells[1] = total_length
  BY RecordedTypes
<1>1. q \in Tasks /\ q # p /\ Tasks = {p, q}
  BY OtherTask
<1>2. pc[p] = "length" /\ file # None /\ Ending /\ ~Inside(q)
  BY <1>1 DEF WriteLength, At, RecordedState, Recorded, OneWriter, Inside, Ending, Tasks
<1>3. Cached = 0 /\ position = 1
  BY <1>2 DEF RecordedState, Recorded, OneWriter, LengthField, Draining
<1> HIDE DEF cells
<1>4. /\ UNCHANGED <<fpga, ring, held, stopping, asked, total_length, file>>
      /\ content' = Overwritten(cells)
  <2>1. accidents = {}
    BY DEF RecordedState
  <2>2. PICK result \in {"ok"} \cup Faults : Written(cells, result)
    BY <1>2 DEF WriteLength, cells
  <2>3. result = "ok"
    BY <2>1, <2>2 DEF Written, Accident
  <2> QED
    BY <2>2, <2>3 DEF WriteLength, Written
<1>5. pc'[p] = "close" /\ pc'[q] = pc[q]
  BY <1>1, GotoStep DEF WriteLength, RecordedState
<1>6. InFile' /\ content'[1] = total_length
  <2>1. Len(content) = total_length + 1 /\ \A i \in 1 .. total_length : content[i + 1] = i
    BY DEF RecordedState, Recorded, InFile
  <2>2. position \in Nat \ {0} /\ position <= Len(content) + 1
    BY <1>0, <1>3
  <2>3. /\ Len(content') = (IF position + Len(cells) - 1 > Len(content)
                            THEN position + Len(cells) - 1 ELSE Len(content))
        /\ \A i \in 1 .. Len(content') :
             content'[i] = (IF i >= position /\ i < position + Len(cells)
                            THEN cells[i - position + 1] ELSE content[i])
    BY <1>0, <1>4, <2>2, OverwrittenCells
  <2>4. Len(content') = total_length + 1
    BY <1>0, <1>3, <2>1, <2>3
  <2>5. content'[1] = total_length /\ \A i \in 2 .. total_length + 1 : content'[i] = content[i]
    <3>1. \A i \in 1 .. total_length + 1 :
             content'[i] = (IF i >= 1 /\ i < 1 + 1 THEN cells[i - 1 + 1] ELSE content[i])
      BY <1>0, <1>3, <2>3, <2>4
    <3>2. 1 \in 1 .. total_length + 1 /\ cells[1 - 1 + 1] = total_length
      BY <1>0
    <3> QED
      BY <1>0, <3>1, <3>2
  <2>6. \A i \in 1 .. total_length : content'[i + 1] = i
    BY <1>0, <2>1, <2>5
  <2> QED
    BY <1>4, <2>4, <2>5, <2>6 DEF InFile
<1>7. InRing' /\ Cached' = Cached /\ BlockStart(Cached)' = BlockStart(Cached)
  BY <1>4, SameRing
<1>8. InTail' /\ Rest' = 0 /\ Rest = 0
  <2>1. \A t \in Tasks : pc[t] # "tail" /\ pc'[t] # "tail"
    BY <1>1, <1>2, <1>5 DEF Inside
  <2> QED
    BY <2>1, RestIs DEF InTail
<1>9. InFifo'
  BY <1>4, <1>7, <1>8 DEF RecordedState, Recorded, InFifo, fpga
<1>10. OneWriter'
  <2>1. pc'["poll"] # "closed" /\ ~(Inside("poll") /\ Inside("command"))'
    BY <1>1, <1>2, <1>5 DEF Inside, Tasks, RecordedState, Recorded, OneWriter
  <2>2. \A t \in Tasks : pc'[t] # "write" /\ pc'[t] # "tail"
    BY <1>1, <1>2, <1>5 DEF Inside
  <2> QED
    BY <1>3, <1>7, <2>1, <2>2 DEF OneWriter
<1>11. LengthField'
  <2>1. Ending' /\ \A t \in Tasks : pc'[t] # "length"
    BY <1>1, <1>2, <1>5 DEF Ending, Inside
  <2> QED
    BY <1>2, <1>4, <1>6, <2>1 DEF RecordedState, Recorded, LengthField, fpga
<1> QED
  BY <1>6, <1>7, <1>8, <1>9, <1>10, <1>11 DEF Recorded

(* The file that is closed is whole. *)
LEMMA RecordedClose ==
  ASSUME RecordedState, NEW p \in Tasks, Close(p)
  PROVE  Closed'
<1> DEFINE m == total_length
           samples == [i \in 1 .. m |-> i]
<1>1. /\ UNCHANGED <<count, content, asked>> /\ ~recording'
      /\ pc[p] = "close" /\ pc'["command"] # "start"
  BY GotoStep DEF Close, At, RecordedState, Tasks
<1>2. /\ content[1] = m /\ asked <= m /\ Len(content) = m + 1
      /\ \A i \in 1 .. m : content[i + 1] = i
  BY <1>1 DEF RecordedState, Recorded, LengthField, InFile, Ending
<1>3. content \in Seq(Nat) /\ m \in asked .. count
  <2>1. count = m + BlockStart(Cached) + Rest + Len(fifo)
    BY DEF RecordedState, Recorded, InFifo
  <2>2. /\ BlockStart(Cached) \in Nat /\ Rest \in Nat /\ m \in Nat /\ Len(fifo) \in Nat
        /\ asked \in Nat /\ content \in Seq(Nat)
    BY RecordedTypes
  <2> QED
    BY <1>2, <2>1, <2>2
<1>4. content = <<m>> \o samples
  <2>1. m \in Nat
    BY RecordedTypes
  <2>2. samples \in Seq(Nat) /\ Len(samples) = m /\ <<m>> \in Seq(Nat) /\ Len(<<m>>) = 1
    BY <2>1
  <2>3. /\ <<m>> \o samples \in Seq(Nat) /\ Len(<<m>> \o samples) = m + 1
        /\ (<<m>> \o samples)[1] = m
        /\ \A i \in 1 .. m : (<<m>> \o samples)[i + 1] = i
    BY <2>1, <2>2
  <2> DEFINE whole == <<m>> \o samples
  <2>4. \A i \in 1 .. m + 1 : i = 1 \/ (i - 1 \in 1 .. m /\ (i - 1) + 1 = i)
    BY <2>1
  <2> HIDE DEF whole
  <2>5. \A i \in 1 .. m + 1 : content[i] = whole[i]
    BY <1>2, <2>3, <2>4 DEF whole
  <2>6. whole \in Seq(Nat) /\ Len(whole) = m + 1
    BY <2>3 DEF whole
  <2>7. content = whole
    BY <1>2, <1>3, <2>5, <2>6
  <2> QED
    BY <2>7 DEF whole
<1>5. Whole'
  BY <1>1, <1>3, <1>4 DEF Whole
<1> QED
  BY <1>1, <1>5 DEF Closed

LEMMA RecordedPoll ==
  ASSUME RecordedState, Poll
  PROVE  Recorded'
<1>1. /\ UNCHANGED <<count, ring, disk, held, total_length>>
      /\ pc["poll"] = "idle" /\ file # None /\ fifo' = fifo
      /\ pc'["poll"] \in {"idle", "loop"} /\ pc'["command"] = pc["command"]
  BY GotoStep DEF Poll, At, RecordedState, Tasks
<1>2. Ending' <=> Ending
  BY <1>1 DEF Ending, Tasks
<1>3. InFile' /\ InRing' /\ UNCHANGED <<Cached, BlockStart(Cached)>>
  BY <1>1, SameRing DEF RecordedState, Recorded, InFile, disk
<1>4. Rest' = Rest
  BY <1>1 DEF Rest
<1>5. InTail'
  BY <1>1 DEF RecordedState, Recorded, InTail, ring, disk, Tasks
<1>6. InFifo'
  BY <1>1, <1>3, <1>4 DEF RecordedState, Recorded, InFifo
<1>7. OneWriter'
  BY <1>1, <1>2, <1>3 DEF RecordedState, Recorded, OneWriter, Inside, Draining, Tasks, ring, disk
<1>8. LengthField'
  <2>1. \A p \in Tasks : /\ pc'[p] = "length" => position' = 1
                         /\ pc'[p] = "close" => content'[1] = total_length'
    BY <1>1 DEF RecordedState, Recorded, LengthField, Tasks, disk
  <2>2. ~Ending' => position' = total_length' + 2
    BY <1>1, <1>2 DEF RecordedState, Recorded, LengthField, disk
  <2>3. CASE recording /\ blocks_cached >= blocks_written + Blocks
    <3>1. Cached # 0
      BY <2>3 DEF Cached, RecordedState, TypeInv, TypeOK
    <3>2. ~Ending
      BY <3>1 DEF RecordedState, Recorded, OneWriter, Ending, Draining
    <3>3. ~capturing'
      BY <2>3 DEF Poll
    <3> QED
      BY <1>2, <2>1, <2>2, <3>2, <3>3 DEF LengthField
  <2>4. CASE ~(recording /\ blocks_cached >= blocks_written + Blocks)
    <3>1. UNCHANGED <<capturing, stopping, asked>>
      BY <2>4 DEF Poll
    <3> QED
      BY <1>1, <1>2, <2>1, <2>2, <3>1 DEF RecordedState, Recorded, LengthField
  <2> QED
    BY <2>3, <2>4
<1> QED
  BY <1>3, <1>5, <1>6, <1>7, <1>8 DEF Recorded

LEMMA RecordedFinish ==
  ASSUME RecordedState, Finish
  PROVE  Recorded'
<1>1. /\ UNCHANGED <<count, ring, disk, held, stopping, total_length, capturing, fifo>>
      /\ pc["command"] = "idle" /\ file # None /\ asked' = count
      /\ pc'["poll"] = pc["poll"] /\ pc'["command"] = "loop"
  BY GotoStep DEF Finish, Command, At, RecordedState, Tasks
<1>2. Ending' <=> Ending
  BY <1>1 DEF Ending, Tasks
<1>3. InFile' /\ InRing' /\ UNCHANGED <<Cached, BlockStart(Cached)>>
  BY <1>1, SameRing DEF RecordedState, Recorded, InFile, disk
<1>4. Rest' = Rest
  BY <1>1 DEF Rest
<1>5. InTail'
  BY <1>1 DEF RecordedState, Recorded, InTail, ring, disk, Tasks
<1>6. InFifo'
  BY <1>1, <1>3, <1>4 DEF RecordedState, Recorded, InFifo
<1>7. OneWriter'
  BY <1>1, <1>2, <1>3 DEF RecordedState, Recorded, OneWriter, Inside, Draining, Tasks, ring, disk
<1>8. LengthField'
  <2>1. \A p \in Tasks : /\ pc'[p] = "length" => position' = 1
                         /\ pc'[p] = "close" => content'[1] = total_length'
    BY <1>1 DEF RecordedState, Recorded, LengthField, Tasks, disk
  <2>2. ASSUME Ending PROVE asked' <= total_length
    <3>1. pc["poll"] \in {"length", "close"}
      BY <1>1, <2>2 DEF Ending, Tasks
    <3>2. stopping /\ Cached = 0 /\ Rest = 0
      BY <1>1, <3>1 DEF RecordedState, ModeInv, Recorded, OneWriter, Draining, Tasks, Rest
    <3>3. fifo = <<>> /\ count = total_length + BlockStart(0) + 0 + Len(fifo)
      BY <2>2, <3>2 DEF RecordedState, Recorded, LengthField, InFifo
    <3> QED
      BY <1>1, <3>3, BlockStartSteps, RecordedTypes
  <2> QED
    BY <1>1, <1>2, <2>1, <2>2 DEF RecordedState, Recorded, LengthField, disk
<1> QED
  BY <1>3, <1>5, <1>6, <1>7, <1>8 DEF Recorded

(* While a recording captures, no task that stops it is in the file. *)
LEMMA RecordedSample ==
  ASSUME RecordedState, Sample, accidents' = {}
  PROVE  Recorded'
<1>1. UNCHANGED <<capturing, ring, disk, tasks, total_length, asked>>
  BY DEF Sample
<1>2. fifo' = Append(fifo, count + 1) /\ count' = count + 1
  <2>1. accidents = {} /\ Len(fifo) <= Depth
    BY DEF RecordedState, TypeInv, TypeOK
  <2>2. Len(fifo) # Depth
    BY <2>1 DEF Sample, Accident
  <2>3. Len(fifo) < Depth
    BY <2>1, <2>2, RecordedTypes
  <2> QED
    BY <2>3 DEF Sample
<1>3. Ending' <=> Ending
  BY <1>1 DEF Ending, tasks
<1>4. InFile' /\ InRing' /\ UNCHANGED <<Cached, BlockStart(Cached)>>
  BY <1>1, SameRing DEF RecordedState, Recorded, InFile, disk
<1>5. Rest' = Rest
  BY <1>1 DEF Rest, tasks
<1>6. InTail'
  BY <1>1 DEF RecordedState, Recorded, InTail, ring, disk, tasks
<1>7. InFifo'
  <2> DEFINE before == total_length + BlockStart(Cached) + Rest
  <2>1. before \in Nat /\ fifo \in Seq(Samples)
    BY RecordedTypes
  <2>2. count = before + Len(fifo) /\ \A i \in 1 .. Len(fifo) : fifo[i] = before + i
    BY DEF RecordedState, Recorded, InFifo
  <2>3. before' = before
    BY <1>1, <1>4, <1>5
  <2> HIDE DEF before
  <2>4. Len(fifo') = Len(fifo) + 1 /\ fifo'[Len(fifo) + 1] = count + 1
        /\ \A i \in 1 .. Len(fifo) : fifo'[i] = fifo[i]
    BY <1>2, <2>1
  <2>5. count' = before + Len(fifo') /\ \A i \in 1 .. Len(fifo') : fifo'[i] = before + i
    BY <1>2, <2>1, <2>2, <2>4
  <2> QED
    BY <2>3, <2>5 DEF InFifo, before
<1>8. OneWriter'
  BY <1>1, <1>3, <1>4 DEF RecordedState, Recorded, OneWriter, Inside, ring, disk, tasks
<1>9. LengthField'
  <2>1. ~stopping
    BY DEF Sample, RecordedState, Recorded, LengthField
  <2> QED
    BY <1>1, <1>3, <2>1 DEF RecordedState, Recorded, LengthField, disk, tasks
<1> QED
  BY <1>4, <1>6, <1>7, <1>8, <1>9 DEF Recorded

(* A block goes from the FIFO to the end of the ring. *)
LEMMA RecordedIrq ==
  ASSUME RecordedState, Irq, accidents' = {}
  PROVE  Recorded'
<1>0. /\ Cached \in Nat /\ total_length \in Nat /\ count \in Nat /\ fifo \in Seq(Samples)
      /\ BlockStart(Cached) \in Nat /\ Blocks \in Nat /\ Block \in Nat /\ block_in \in Slots
      /\ cache \in [Slots -> [1 .. Block -> Samples]] /\ block_out \in Slots
  BY RecordedTypes
<1>1. capturing /\ Len(fifo) >= Block /\ cache_block
  BY DEF Irq, RecordedState, ModeInv
<1>2. /\ UNCHANGED <<capturing, count, block_out, blocks_written, disk, tasks, total_length, asked>>
      /\ block_in' = NextSlot(block_in) /\ blocks_cached' = blocks_cached + 1
      /\ cache' = [cache EXCEPT ![block_in] = [i \in 1 .. Block |-> fifo[i]]]
      /\ fifo' = SubSeq(fifo, Block + 1, Len(fifo))
  BY <1>1 DEF Irq, cache_block
<1>3. Cached < Blocks /\ \A p \in Tasks : pc[p] \notin Draining
  <2>1. accidents' = accidents
       \cup {a \in {"overrun"} : blocks_cached - blocks_written >= Blocks}
       \cup {a \in {"raced"} : \E p \in Tasks : pc[p] \in Draining}
    BY <1>1 DEF cache_block
  <2>2. ~(Cached >= Blocks) /\ ~(\E p \in Tasks : pc[p] \in Draining)
    BY <2>1 DEF Cached
  <2> QED
    BY <1>0, <2>2
<1>4. ~Ending /\ ~Ending' /\ Rest = 0 /\ Rest' = 0 /\ InTail'
  <2>1. \A p \in Tasks : pc[p] \notin Draining /\ pc'[p] = pc[p]
    BY <1>2, <1>3 DEF tasks
  <2>2. ~Ending /\ ~Ending' /\ InTail'
    BY <2>1 DEF Ending, InTail, Draining
  <2> QED
    BY <2>1, <2>2, RestIs DEF Draining
<1>5. /\ Cached' = Cached + 1 /\ BlockStart(Cached)' = BlockStart(Cached) + Block
      /\ \A j \in 0 .. Blocks : SlotAt(j)' = SlotAt(j)
  <2>1. Cached' = Cached + 1
    BY <1>2 DEF Cached, RecordedState, TypeInv, TypeOK
  <2>2. BlockStart(Cached)' = BlockStart(Cached + 1)
    BY <2>1 DEF BlockStart
  <2> QED
    BY <1>0, <1>2, <2>1, <2>2, BlockStartSteps, RingSlots
<1>6. /\ count = total_length + BlockStart(Cached) + Len(fifo)
      /\ \A i \in 1 .. Len(fifo) : fifo[i] = total_length + BlockStart(Cached) + i
  BY <1>0, <1>4 DEF RecordedState, Recorded, InFifo
<1>7. InFile'
  BY <1>2 DEF RecordedState, Recorded, InFile, disk
<1>8. InRing'
  <2>1. Cached \in 0 .. Blocks - 1 /\ block_in = SlotAt(Cached)
    BY <1>0, <1>3 DEF RecordedState, Recorded, InRing
  <2>2. Cached' \in 0 .. Blocks /\ block_in' = SlotAt(Cached)'
    <3>1. NextSlot(SlotAt(Cached)) = SlotAt(Cached + 1)
      BY <1>0, <2>1, RingSlots
    <3>2. SlotAt(Cached)' = SlotAt(Cached + 1)
      BY <1>2, <1>5 DEF SlotAt
    <3> QED
      BY <1>0, <1>2, <1>3, <1>5, <2>1, <3>1, <3>2
  <2>3. ASSUME NEW j \in 0 .. Cached' - 1, NEW i \in 1 .. Block
        PROVE  cache'[SlotAt(j)'][i] = total_length' + BlockStart(j) + i
    <3>1. j \in 0 .. Blocks - 1 /\ SlotAt(j)' = SlotAt(j) /\ SlotAt(j) \in Slots
      BY <1>0, <1>3, <1>5, RingSlots
    <3>2. CASE j = Cached
      <4>1. cache'[block_in][i] = fifo[i]
        BY <1>0, <1>2
      <4>2. i \in 1 .. Len(fifo)
        BY <1>0, <1>1
      <4> QED
        BY <1>2, <1>6, <2>1, <3>1, <3>2, <4>1, <4>2
    <3>3. CASE j # Cached
      <4>1. j \in 0 .. Cached - 1
        BY <1>0, <1>5, <3>3
      <4>2. SlotAt(j) # block_in
        BY <1>0, <2>1, <3>1, <3>3, RingSlots
      <4>3. cache'[SlotAt(j)] = cache[SlotAt(j)]
        BY <1>0, <1>2, <3>1, <4>2
      <4>4. cache[SlotAt(j)][i] = total_length + BlockStart(j) + i
        BY <4>1 DEF RecordedState, Recorded, InRing
      <4> QED
        BY <1>2, <3>1, <4>3, <4>4
    <3> QED
      BY <3>2, <3>3
  <2> QED
    BY <2>2, <2>3 DEF InRing, BlockStart
<1>9. InFifo'
  <2>1. Len(fifo') = Len(fifo) - Block /\ \A i \in 1 .. Len(fifo') : fifo'[i] = fifo[Block + i]
    BY <1>0, <1>1, <1>2
  <2> DEFINE before == total_length + BlockStart(Cached)
  <2>2. /\ before \in Nat /\ count = before + Len(fifo)
        /\ \A i \in 1 .. Len(fifo) : fifo[i] = before + i
    BY <1>0, <1>6
  <2> HIDE DEF before
  <2>3. /\ count = before + Block + Len(fifo')
        /\ \A i \in 1 .. Len(fifo') : fifo'[i] = before + Block + i
    BY <1>0, <1>1, <2>1, <2>2
  <2>4. total_length' + BlockStart(Cached)' + Rest' = before + Block /\ count' = count
    BY <1>0, <1>2, <1>4, <1>5 DEF before
  <2> QED
    BY <2>3, <2>4 DEF InFifo
<1>10. OneWriter'
  <2>1. /\ pc' = pc /\ held' = held /\ file' = file /\ block_out' = block_out
        /\ Cached > 0 => Cached' > 0
    BY <1>0, <1>2, <1>5 DEF tasks, disk
  <2> QED
    BY <1>3, <1>4, <2>1 DEF RecordedState, Recorded, OneWriter, Inside
<1>11. LengthField'
  <2>1. \A p \in Tasks : pc'[p] # "length" /\ pc'[p] # "close"
    BY <1>4 DEF Ending
  <2> QED
    BY <1>2, <1>4, <2>1 DEF RecordedState, Recorded, LengthField, disk, tasks
<1> QED
  BY <1>4, <1>7, <1>8, <1>9, <1>10, <1>11 DEF Recorded

LEMMA RecordedFileIsSet ==
  ASSUME RecordedState, FileIsSet
  PROVE  Recorded'
<1>1. UNCHANGED <<fpga, ring, disk, tasks, total_length, asked>>
  BY DEF FileIsSet
<1>2. /\ UNCHANGED <<Cached, BlockStart(Cached), Rest, Ending>> /\ InFile' /\ InRing'
  BY <1>1, SameRing DEF RecordedState, Recorded, InFile, Rest, Ending, disk, tasks
<1>3. InTail'
  BY <1>1 DEF RecordedState, Recorded, InTail, ring, disk, tasks
<1>4. InFifo'
  BY <1>1, <1>2 DEF RecordedState, Recorded, InFifo, fpga
<1>5. OneWriter'
  BY <1>1, <1>2 DEF RecordedState, Recorded, OneWriter, Inside, ring, disk, tasks
<1>6. LengthField'
  BY <1>1, <1>2 DEF RecordedState, Recorded, LengthField, fpga, disk, tasks
<1> QED
  BY <1>2, <1>3, <1>4, <1>5, <1>6 DEF Recorded

(* Every step of a recording without an accident: the file stays open and   *)
(* nothing is lost, or the file is closed and it is whole.                  *)
LEMMA RecordedStep ==
  ASSUME RecordedState, [Next]_vars, accidents' = {}
  PROVE  \/ file' # None /\ pc'["command"] # "start" /\ Recorded'
         \/ file' = None /\ Closed'
<1> USE DEF At
<1>1. pc["command"] # "start" /\ file # None /\ pc["poll"] # "closed"
  BY DEF RecordedState, Recorded, OneWriter
<1>2. ASSUME NEW p \in Tasks, Write(p), ~Close(p)
      PROVE  file' = file /\ pc'["command"] # "start"
  <2>1. file' = file
    BY <1>2 DEF Write, Loop, WriteBlock, Drain, DrainBy, WriteTail, WriteLength, Undefined,
       Written, disk
  <2>2. \/ UNCHANGED tasks
        \/ \E s \in {"write", "drain", "idle", "loop", "tail", "length", "close"} : Goto(p, s)
    BY <1>2 DEF Write, Loop, WriteBlock, Drain, DrainBy, WriteTail, WriteLength
  <2> QED
    BY <1>1, <2>1, <2>2, GotoStep DEF RecordedState, tasks
<1>3. ASSUME NEW p \in Tasks, Write(p), ~Close(p) PROVE Recorded'
  BY <1>3, RecordedLoop, RecordedWriteBlock, RecordedDrain, RecordedWriteTail,
     RecordedWriteLength DEF Write
<1>4. ASSUME NEW p \in Tasks, Close(p) PROVE file' = None /\ Closed'
  BY <1>4, RecordedClose DEF Close
<1>5. CASE Poll \/ Finish
  <2>1. file' = file
    BY <1>5 DEF Poll, Finish, disk
  <2>2. pc'["command"] # "start"
    BY <1>1, <1>5, GotoStep DEF Poll, Finish, RecordedState, Tasks
  <2> QED
    BY <1>1, <1>5, <2>1, <2>2, RecordedPoll, RecordedFinish
<1>6. CASE Sample \/ Irq \/ FileIsSet
  <2>1. file' = file /\ pc' = pc
    BY <1>6 DEF Sample, Irq, FileIsSet, disk, tasks
  <2> QED
    BY <1>1, <1>6, <2>1, RecordedSample, RecordedIrq, RecordedFileIsSet
<1>7. ~StopClosed /\ ~request_file /\ ~Start
  BY <1>1 DEF StopClosed, request_file, Start, StartAt
<1>8. CASE UNCHANGED vars
  <2>1. UNCHANGED <<fpga, ring, disk, tasks, total_length, asked, recording>>
    BY <1>8 DEF vars
  <2>2. UNCHANGED <<Cached, BlockStart(Cached), Rest, Ending>> /\ InFile' /\ InRing'
    BY <2>1, SameRing DEF RecordedState, Recorded, InFile, Rest, Ending, disk, tasks
  <2>3. InTail' /\ InFifo'
    BY <2>1, <2>2 DEF RecordedState, Recorded, InTail, InFifo, ring, disk, tasks, fpga
  <2>4. OneWriter'
    BY <2>1, <2>2 DEF RecordedState, Recorded, OneWriter, Inside, ring, disk, tasks
  <2>5. LengthField'
    BY <2>1, <2>2 DEF RecordedState, Recorded, LengthField, fpga, disk, tasks
  <2> QED
    BY <1>1, <2>1, <2>2, <2>3, <2>4, <2>5 DEF Recorded, disk, tasks
<1> QED
  BY <1>1, <1>2, <1>3, <1>4, <1>5, <1>6, <1>7, <1>8 DEF Next

(****************************************************************************)
(* The steps while no recording is in a file                                *)
(****************************************************************************)
(* The capture starts with everything in its place. *)
LEMMA OpenedStep ==
  ASSUME TypeInv, ModeInv, file # None, pc["command"] = "start", Opened, [Next]_vars
  PROVE  /\ file' # None
         /\ IF pc'["command"] = "start" THEN Opened' ELSE Recorded'
<1> USE DEF At
<1>1. pc["poll"] = "idle" /\ ~recording /\ ~capturing /\ ~stopping
  BY DEF Opened, ModeInv
<1>2. CASE Start
  <2>1. /\ UNCHANGED <<count, disk, held, stopping, total_length, asked>>
        /\ fifo' = <<>> /\ block_in' = 0 /\ block_out' = 0
        /\ blocks_cached' = 0 /\ blocks_written' = 0
        /\ pc'["command"] = "idle" /\ pc'["poll"] = "idle"
    BY <1>1, <1>2, GotoStep DEF Start, StartAt, Tasks
  <2>2. /\ content' = <<0>> /\ position' = 2 /\ total_length' = 0 /\ count' = 0 /\ asked' = 0
        /\ file' = file /\ ~stopping'
    BY <1>1, <2>1 DEF Opened, disk
  <2>3. Cached' = 0 /\ SlotAt(0)' = 0 /\ Rest' = 0 /\ ~Ending' /\ InTail'
    BY <2>1 DEF Cached, SlotAt, Rest, Ending, InTail, Tasks
  <2>4. BlockStart(Cached)' = BlockStart(0)
    BY <2>3 DEF BlockStart
  <2>5. InFile' /\ InRing'
    BY <2>1, <2>2, <2>3 DEF InFile, InRing
  <2>6. InFifo'
    BY <2>1, <2>2, <2>3, <2>4, BlockStartSteps DEF InFifo
  <2>7. OneWriter' /\ LengthField'
    BY <2>1, <2>2, <2>3 DEF OneWriter, LengthField, Inside, Draining, Tasks
  <2> QED
    BY <2>1, <2>2, <2>3, <2>5, <2>6, <2>7 DEF Recorded
<1>3. CASE Poll
  <2>1. /\ UNCHANGED <<count, disk, total_length, recording, asked>>
        /\ pc'["poll"] = "idle" /\ pc'["command"] = "start"
    BY <1>1, <1>3, GotoStep DEF Poll, Tasks
  <2> QED
    BY <2>1 DEF Opened, disk
<1>4. ~Sample /\ ~Irq /\ ~StopClosed /\ ~Finish /\ ~FileIsSet /\ ~request_file
  BY <1>1 DEF Sample, Irq, StopClosed, Finish, FileIsSet, request_file, Command
<1>5. ASSUME NEW p \in Tasks PROVE ~Write(p)
  BY <1>1 DEF Write, Loop, WriteBlock, Drain, DrainBy, WriteTail, WriteLength, Close, Tasks
<1>6. CASE UNCHANGED vars
  BY <1>6 DEF vars, Opened, disk, fpga, tasks
<1> QED
  BY <1>2, <1>3, <1>4, <1>5, <1>6 DEF Next

(* No step but the opening of the next file touches a closed one. *)
LEMMA ClosedStep ==
  ASSUME TypeInv, ModeInv, file = None, [Next]_vars, ~request_file
  PROVE  /\ file' = None /\ opened' = opened
         /\ Closed => Closed'
<1> USE DEF At
<1>1. ASSUME NEW p \in Tasks, Write(p)
      PROVE  /\ UNCHANGED <<file, opened, content, count, asked>>
             /\ recording' \in {FALSE, recording}
             /\ pc["command"] # "start" => pc'["command"] # "start"
  <2>1. held[p].file # file \/ pc[p] # "write"
    BY DEF ModeInv
  <2>2. UNCHANGED <<file, opened, content, count, asked>> /\ recording' \in {FALSE, recording}
    BY <1>1, <2>1 DEF Write, Loop, WriteBlock, Drain, DrainBy, WriteTail, WriteLength, Close,
       Undefined, disk, fpga
  <2>3. \/ UNCHANGED tasks
        \/ \E s \in {"write", "drain", "idle", "loop", "tail", "length", "close", "closed"} :
              Goto(p, s)
    BY <1>1 DEF Write, Loop, WriteBlock, Drain, DrainBy, WriteTail, WriteLength, Close
  <2> QED
    BY <2>2, <2>3, GotoStep DEF tasks
<1>2. CASE Closed /\ \E p \in Tasks : Write(p)
  <2>1. /\ UNCHANGED <<content, count, asked>> /\ ~recording' /\ pc'["command"] # "start"
    BY <1>1, <1>2 DEF Closed
  <2> QED
    BY <1>1, <1>2, <2>1 DEF Closed, Whole
<1>3. CASE Poll \/ StopClosed \/ Finish
  <2>1. UNCHANGED <<opened, content, count>> /\ file' = None
    BY <1>3 DEF Poll, StopClosed, Finish, disk
  <2>2. pc'["command"] = pc["command"]
    BY <1>3, GotoStep DEF Poll, StopClosed, Finish, Tasks
  <2>3. ~recording => ~recording' /\ asked' = asked
    BY <1>3 DEF Poll, StopClosed, Finish
  <2> QED
    BY <2>1, <2>2, <2>3 DEF Closed, Whole
<1>4. CASE Sample \/ Irq
  <2>1. UNCHANGED disk /\ recording
    BY <1>4 DEF Sample, Irq, ModeInv
  <2> QED
    BY <2>1 DEF disk, Closed
<1>5. CASE Start
  BY <1>5 DEF Start, StartAt, disk, Closed
<1>6. ~FileIsSet
  BY DEF FileIsSet
<1>7. CASE UNCHANGED vars
  BY <1>7 DEF vars, disk, fpga, tasks, Closed, Whole
<1> QED
  BY <1>1, <1>2, <1>3, <1>4, <1>5, <1>6, <1>7 DEF Next

LEMMA RequestStep ==
  ASSUME TypeInv, request_file, accidents' = {}
  PROVE  file' # None /\ pc'["command"] = "start" /\ Opened'
<1>1. PICK result \in {"ok"} \cup (Faults \cap {"error"}) :
        /\ Goto("command", IF result = "ok" THEN "start" ELSE "idle")
        /\ accidents' = {a \in {"failed"} : result # "ok"}
             \cup {a \in {"overlap"} : pc["poll"] # "idle" \/ recording}
  BY DEF request_file
<1>2. result = "ok" /\ pc["poll"] = "idle" /\ ~recording
  BY <1>1
<1>3. pc'["command"] = "start" /\ pc'["poll"] = "idle"
  BY <1>1, <1>2, GotoStep DEF Tasks
<1>4. file' # None
  BY DEF request_file, None, TypeInv, TypeOK
<1> QED
  BY <1>2, <1>3, <1>4 DEF request_file, Opened

(* What has gone wrong in a recording is not forgotten before the next one. *)
LEMMA AccidentsStay ==
  ASSUME TypeInv, [Next]_vars, ~request_file, accidents' = {}
  PROVE  accidents = {}
<1>1. ASSUME NEW p \in Tasks, Write(p) PROVE accidents = {}
  BY <1>1 DEF Write, Loop, WriteBlock, Drain, DrainBy, WriteTail, WriteLength, Close, Undefined,
     Written, Accident
<1>2. CASE Sample \/ Irq
  BY <1>2 DEF Sample, Irq, cache_block, Accident
<1>3. CASE Poll \/ StopClosed \/ Finish \/ FileIsSet \/ Start \/ UNCHANGED vars
  BY <1>3 DEF Poll, StopClosed, Finish, FileIsSet, Start, StartAt, vars
<1> QED
  BY <1>1, <1>2, <1>3 DEF Next

LEMMA InitRecordingInv == Init => RecordingInv
  BY DEF Init, RecordingInv

LEMMA NextRecordingInv ==
  ASSUME TypeInv, ModeInv, RecordingInv, [Next]_vars
  PROVE  RecordingInv'
<1> SUFFICES ASSUME accidents' = {}
             PROVE  IF file' = None THEN opened' > 0 => Closed'
                    ELSE IF pc'["command"] = "start" THEN Opened' ELSE Recorded'
  BY DEF RecordingInv
<1>1. CASE request_file
  BY <1>1, RequestStep
<1>2. CASE ~request_file
  <2>1. accidents = {}
    BY <1>2, AccidentsStay
  <2>2. CASE file = None
    BY <1>2, <2>1, <2>2, ClosedStep DEF RecordingInv
  <2>3. CASE file # None /\ pc["command"] = "start"
    BY <2>1, <2>3, OpenedStep DEF RecordingInv
  <2>4. CASE file # None /\ pc["command"] # "start"
    BY <2>1, <2>4, RecordedStep DEF RecordingInv, RecordedState
  <2> QED
    BY <2>2, <2>3, <2>4
<1> QED
  BY <1>1, <1>2

(* A recorded file that was closed holds every sample of the recording that *)
(* came before its end was asked for, in order, and its length field counts *)
(* them, whatever the sizes of block, ring and FIFO and whichever way the   *)
(* interrupt routine and the two tasks come between one another - unless    *)
(* one of the five accidents named in the model happened.                   *)
THEOREM ClosedFilesAreWhole == Spec => []ClosedFileIsWhole
<1>1. Init => TapeInv
  BY InitTypeInv, InitModeInv, InitRecordingInv DEF TapeInv
<1>2. TapeInv /\ [Next]_vars => TapeInv'
  BY NextTypeInv, NextModeInv, NextRecordingInv DEF TapeInv
<1>3. TapeInv => ClosedFileIsWhole
  BY DEF TapeInv, RecordingInv, ClosedFileIsWhole, Closed, Whole
<1> QED
  BY <1>1, <1>2, <1>3, PTL DEF Spec
=============================================================================
