------------------------------- MODULE IecTalk --------------------------------
(****************************************************************************)
(* Channels of the software IEC device: the host on the serial bus, the bus *)
(* processor with its microcode (iec_code.iec, iec_processor.vhd), the two  *)
(* FIFOs of iec_processor_io.vhd, and the task IecInterface::poll with the  *)
(* channels of iec_channel.h.                                               *)
(*                                                                          *)
(* The task puts bytes into a FIFO before the host has taken them; the FIFO *)
(* is emptied when the host asserts ATN, and the microcode reports every    *)
(* byte the host did take, so that the task can go back to the right one.   *)
(****************************************************************************)
EXTENDS Integers, Sequences

CONSTANTS
  Channels,
  Block,        \* bytes of the buffer of a channel (256; 32 for a directory)
  Depth,        \* entries of the FIFO to the bus (15)
  UpDepth,      \* entries of the FIFO to the software (2048)
  Openings,     \* what the host opens: [kind, length]
  MaxOpens,     \* bound: how often it opens a channel
  MaxWrites,    \* bound: bytes it writes to a file
  Interrupts,   \* when the host stops a talker: "far", "any"
  ReadFails     \* whether File::read may fail

Kinds == {"file", "dir", "write", "missing"}

ASSUME TalkAssumption ==
  /\ Block \in Nat /\ Block >= 2 /\ Depth \in Nat \ {0} /\ UpDepth \in Nat
  /\ Openings \subseteq [kind : Kinds, length : Nat]
  /\ \A o \in Openings : o.kind = "dir" => o.length \in {Block * i : i \in 2 .. o.length}
  /\ MaxOpens \in Nat /\ MaxWrites \in Nat
  /\ Interrupts \in {"far", "any"} /\ ReadFails \in {{FALSE}, BOOLEAN}

VARIABLES
  bus,          \* what the bus processor does: "free", "attention", "talk"
  up,           \* FIFO to the software
  down, flush,  \* FIFO to the bus, and whether it is held empty
  pc,           \* the task: "rx", "tx", "put"
  talking, current,
  chan,         \* the channels
  stored,       \* what is in the file that was written on each channel
  opened, opens,\* history: what is open on each channel; how many opens so far
  out, ended,   \* history: what the host got of it, and whether with an end
  sent,         \* history: how many bytes the host has written to the file
  heard, on     \* the host: got a byte since it said talk; on which channel

task == <<pc, talking, current, chan, stored>>
fifos == <<up, down, flush>>
host == <<opened, opens, out, ended, sent, heard, on>>
vars == <<bus, fifos, task, host>>

(* Byte i of a file is i; Rest is a byte of a buffer that is of no file. *)
Rest == -1
Nothing == [kind |-> "closed", length |-> 0]
Start == [state |-> "idle", write |-> FALSE, last_command |-> "none", name |-> Nothing,
          pointer |-> 0, prefetch |-> 0, prefetch_max |-> 0, last_byte |-> 0,
          size |-> 0, block |-> 0, buffer |-> [i \in 0 .. Block - 1 |-> Rest]]

TypeOK ==
  /\ bus \in {"free", "attention", "talk"}
  /\ Len(up) <= UpDepth /\ Len(down) <= Depth
  /\ flush \in BOOLEAN /\ (flush => down = <<>>)
  /\ pc \in {"rx", "tx", "put"} /\ talking \in BOOLEAN /\ current \in Channels
  /\ \A c \in Channels :
       /\ chan[c].state \in {"idle", "filename", "file", "dir", "complete", "error"}
       /\ chan[c].pointer \in 0 .. Block - 1 /\ chan[c].prefetch \in 0 .. Block
       /\ chan[c].last_byte \in -1 .. Block - 1

Init ==
  /\ bus = "free" /\ up = <<>> /\ down = <<>> /\ flush = TRUE
  /\ pc = "rx" /\ talking = FALSE /\ current \in Channels
  /\ chan = [c \in Channels |-> Start]
  /\ stored = [c \in Channels |-> <<>>]
  /\ opened = [c \in Channels |-> Nothing] /\ opens = 0
  /\ out = [c \in Channels |-> <<>>] /\ ended = [c \in Channels |-> FALSE]
  /\ sent = [c \in Channels |-> 0] /\ heard = FALSE /\ on = current

(****************************************************************************)
(* The channels (IecChannel); each operation maps a channel to a channel    *)
(****************************************************************************)
(* The next Block bytes of the file, as far as there are any, are put over *)
(* the buffer.                                                             *)
Filled(ch) ==
  [i \in 0 .. Block - 1 |->
    IF ch.block * Block + i < ch.name.length THEN ch.block * Block + i ELSE ch.buffer[i]]

(* Mutant: the end of a file that fills its last block is not seen. *)
ReadBlockNoEnd(ch, fail) ==
  LET bytes == IF ch.block * Block + Block <= ch.name.length THEN Block
               ELSE ch.name.length - ch.block * Block
  IN  IF fail
      THEN [ch EXCEPT !.state = "error"]
      ELSE [ch EXCEPT !.state = IF bytes = 0 THEN "complete" ELSE @,
                      !.last_byte = IF bytes # Block THEN bytes - 1 ELSE @,
                      !.size = @ - Block, !.block = @ + 1, !.buffer = Filled(ch),
                      !.pointer = 0, !.prefetch = 0, !.prefetch_max = Block]

read_block(ch, fail) ==
  LET bytes == IF ch.block * Block + Block <= ch.name.length THEN Block
               ELSE ch.name.length - ch.block * Block
  IN  IF fail
      THEN [ch EXCEPT !.state = "error"]
      ELSE [ch EXCEPT !.state = IF bytes = 0 THEN "complete" ELSE @,
                      !.last_byte = IF bytes # Block THEN bytes - 1
                                    ELSE IF ch.size = Block THEN Block - 1 ELSE @,
                      !.size = @ - Block, !.block = @ + 1, !.buffer = Filled(ch),
                      !.pointer = 0, !.prefetch = 0, !.prefetch_max = Block]

(* The line of a directory entry, or the last line ("blocks free"). *)
read_dir_entry(ch) ==
  LET last == (ch.block + 1) * Block = ch.name.length
  IN  [ch EXCEPT !.buffer = Filled(ch), !.block = @ + 1,
                 !.pointer = 0, !.prefetch = 0,
                 !.prefetch_max = IF last THEN Block - 1 ELSE Block,
                 !.last_byte = IF last THEN Block - 1 ELSE @]

(* open_file: a listing, a file to read or to write, or none of that name *)
open_file(ch, fail) ==
  LET new == [ch EXCEPT !.write = ch.name.kind = "write", !.size = ch.name.length,
                        !.pointer = 0, !.prefetch = 0, !.prefetch_max = Block,
                        !.last_byte = -1, !.block = 0]
  IN  CASE ch.name.kind = "dir" ->
             [new EXCEPT !.state = "dir", !.block = 1, !.buffer = Filled(new)]
        [] ch.name.kind = "file" -> read_block([new EXCEPT !.state = "file"], fail)
        [] ch.name.kind = "write" -> [new EXCEPT !.state = "file"]
        [] OTHER -> [ch EXCEPT !.state = "error", !.write = FALSE]

(* Mutant: what the flush has thrown away is not prefetched again. *)
KeepPrefetch(ch) == ch

reset_prefetch(ch) == [ch EXCEPT !.prefetch = ch.pointer]

prefetch_data(ch) ==
  CASE ch.state = "error" -> "error"
    [] ch.state # "error" /\ ch.prefetch = ch.last_byte -> "last"
    [] ch.state # "error" /\ ch.prefetch # ch.last_byte ->
         CASE ch.prefetch < ch.prefetch_max -> "data"
           [] ch.prefetch = ch.prefetch_max -> "buffer_end"
           [] ch.prefetch > ch.prefetch_max -> "error"

(* Mutant: the end of the buffer is taken for a byte like any other. *)
PopPastBlock(ch, fail) ==
  CASE ch.state \notin {"file", "dir"} -> ch
    [] ch.state \in {"file", "dir"} /\ ch.pointer = ch.last_byte ->
         [ch EXCEPT !.state = "complete"]
    [] OTHER -> [ch EXCEPT !.pointer = @ + 1]

pop_data(ch, fail) ==
  CASE ch.state \notin {"file", "dir"} -> ch
    [] ch.state \in {"file", "dir"} /\ ch.pointer = ch.last_byte ->
         [ch EXCEPT !.state = "complete"]
    [] ch.state = "file" /\ ch.pointer # ch.last_byte /\ ch.pointer = Block - 1 ->
         read_block(ch, fail)
    [] ch.state = "dir" /\ ch.pointer # ch.last_byte /\ ch.pointer = Block - 1 ->
         read_dir_entry(ch)
    [] OTHER -> [ch EXCEPT !.pointer = @ + 1]

(* The bytes of the buffer below the pointer *)
Pending(ch) == [i \in 1 .. ch.pointer |-> ch.buffer[i - 1]]

(****************************************************************************)
(* The task                                                                 *)
(****************************************************************************)
Update(c, ch) == chan' = [chan EXCEPT ![c] = ch]

PushName(ch, o) ==
  IF ch.state = "filename"
  THEN [ch EXCEPT !.name = o, !.pointer = 1, !.buffer[0] = Rest] ELSE ch

(* push_data on a file: the byte goes into the buffer, a full buffer into *)
(* the file.                                                              *)
PushByte(v) ==
  LET ch == chan[current]
      with == [ch EXCEPT !.buffer[ch.pointer] = v]
  IN  IF ch.state # "file"
      THEN UNCHANGED <<chan, stored>>
      ELSE IF ch.pointer + 1 = Block
           THEN /\ stored' = [stored EXCEPT ![current] = @ \o Pending([with EXCEPT !.pointer = Block])]
                /\ Update(current, [with EXCEPT !.pointer = 0])
           ELSE Update(current, [with EXCEPT !.pointer = @ + 1]) /\ UNCHANGED stored

(* push_command(0): the end of the name, or of what was written *)
PushEnd ==
  IF chan[current].last_command = "open"
  THEN /\ \E fail \in ReadFails : Update(current, open_file(chan[current], fail))
       /\ stored' = IF chan[current].name.kind = "write"
                    THEN [stored EXCEPT ![current] = <<>>] ELSE stored
  ELSE UNCHANGED <<chan, stored>>

(* Mutant: closing drops the bytes that did not fill a block. *)
PushCommandDropping(command, c) ==
  LET ch == [chan[c] EXCEPT !.last_command = command]
  IN  /\ Update(c, [ch EXCEPT !.state = CASE command = "open" -> "filename"
                                          [] command = "close" -> "idle"
                                          [] OTHER -> @,
                              !.pointer = IF command = "open" THEN 0 ELSE @])
      /\ UNCHANGED stored

(* push_command with a secondary address *)
PushCommand(command, c) ==
  LET ch == [chan[c] EXCEPT !.last_command = command]
  IN  CASE command = "open" ->
             Update(c, [ch EXCEPT !.state = "filename", !.pointer = 0]) /\ UNCHANGED stored
        [] command = "close" ->
             /\ Update(c, [ch EXCEPT !.state = "idle"])
             /\ stored' = IF ch.write /\ ch.state = "file"
                          THEN [stored EXCEPT ![c] = @ \o Pending(ch)] ELSE stored
        [] command = "data" -> Update(c, ch) /\ UNCHANGED stored

(* One entry of the FIFO to the software *)
Handle ==
  /\ pc = "rx" /\ up # <<>>
  /\ up' = Tail(up)
  /\ LET token == Head(up)[1] IN
       /\ flush' = IF token = "ready" THEN FALSE ELSE flush
       /\ talking' = CASE token = "ready" -> TRUE
                       [] token = "atn" -> FALSE
                       [] OTHER -> talking
       /\ CASE token = "atn" /\ talking ->
                 Update(current, reset_prefetch(chan[current])) /\ UNCHANGED <<current, stored>>
            [] token = "popped" ->
                 /\ \E fail \in ReadFails : Update(current, pop_data(chan[current], fail))
                 /\ UNCHANGED <<current, stored>>
            [] token \in {"open", "close", "data"} ->
                 PushCommand(token, Head(up)[2]) /\ current' = Head(up)[2]
            [] token = "name" ->
                 /\ Update(current, PushName(chan[current], Head(up)[2]))
                 /\ UNCHANGED <<current, stored>>
            [] token = "byte" -> PushByte(Head(up)[2]) /\ UNCHANGED current
            [] token = "end" -> PushEnd /\ UNCHANGED current
            [] OTHER -> UNCHANGED <<chan, current, stored>>
  /\ UNCHANGED <<bus, down, pc, host>>

(* The FIFO from the bus is empty: look at the one to the bus. *)
Transmit ==
  /\ pc = "rx" /\ up = <<>> /\ talking
  /\ pc' = "tx"
  /\ UNCHANGED <<bus, fifos, talking, current, chan, stored, host>>

ReadTxStatus ==
  /\ pc = "tx"
  /\ pc' = IF flush \/ Len(down) = Depth THEN "rx" ELSE "put"
  /\ UNCHANGED <<bus, fifos, talking, current, chan, stored, host>>

(* The FIFO takes nothing while it is held empty. *)
Send(v, kind) ==
  down' = IF flush THEN down ELSE Append(down, [v |-> v, kind |-> kind])

Put ==
  /\ pc = "put"
  /\ LET ch == chan[current]  st == prefetch_data(ch) IN
       /\ pc' = IF st = "data" THEN "tx" ELSE "rx"
       /\ talking' = (st \in {"data", "buffer_end"})
       /\ CASE st \in {"data", "last"} ->
                 /\ Send(ch.buffer[ch.prefetch], st)
                 /\ Update(current, [ch EXCEPT !.prefetch = @ + 1])
            [] st = "error" -> Send(Rest, st) /\ UNCHANGED chan
            [] OTHER -> UNCHANGED <<down, chan>>
  /\ UNCHANGED <<bus, up, flush, current, stored, host>>

Task == Handle \/ Transmit \/ ReadTxStatus \/ Put

(****************************************************************************)
(* The bus processor and the host                                           *)
(****************************************************************************)
Room(k) == Len(up) + k <= UpDepth

(* TX_BYTE: the host takes a byte; it is popped and reported. *)
BusByte ==
  /\ bus = "talk" /\ down # <<>> /\ Head(down).kind # "error" /\ Room(1)
  /\ out' = [out EXCEPT ![on] = Append(@, Head(down).v)]
  /\ ended' = [ended EXCEPT ![on] = Head(down).kind = "last"]
  /\ heard' = TRUE
  /\ bus' = IF Head(down).kind = "last" THEN "free" ELSE bus
  /\ down' = Tail(down) /\ up' = Append(up, <<"popped">>)
  /\ UNCHANGED <<flush, task, opened, opens, sent, on>>

(* A control byte ends the talk; the host sees the bus released. *)
BusError ==
  /\ bus = "talk" /\ down # <<>> /\ Head(down).kind = "error"
  /\ down' = Tail(down) /\ bus' = "free"
  /\ UNCHANGED <<up, flush, task, host>>

(* Idle, the processor waits for control bytes and throws others away. *)
Drain ==
  /\ bus = "free" /\ down # <<>>
  /\ down' = Tail(down)
  /\ UNCHANGED <<bus, up, flush, task, host>>

(* The host does not acknowledge a byte in time and the device lets go. *)
HostTimeout ==
  /\ bus = "talk" /\ down # <<>> /\ heard
  /\ Interrupts = "far" =>
       Len(out[on]) < Block * ((opened[on].length - 1) \div Block)
  /\ bus' = "free"
  /\ UNCHANGED <<fifos, task, host>>

(* ATN: the FIFO to the bus is emptied.  The host interrupts a talk only   *)
(* when it has got a byte; a "far" one only if the end is not in the FIFO. *)
Attention ==
  /\ \/ bus = "free"
     \/ /\ bus = "talk" /\ heard
        /\ Interrupts = "far" => opened[on].length - Len(out[on]) > Depth
  /\ bus' = "attention"
  /\ flush' = TRUE /\ down' = <<>>
  /\ UNCHANGED <<up, task, host>>

(* Under ATN the host says something; a receiving device hears it all. *)
Say(tokens) ==
  /\ bus = "attention" /\ Room(Len(tokens))
  /\ up' = up \o tokens
  /\ UNCHANGED <<down, flush, task>>

Unlisten == <<<<"atn">>, <<"released">>>>

HostUntalk ==
  /\ Say(Unlisten) /\ bus' = "free" /\ UNCHANGED host

HostOpen(c, o) ==
  /\ opens < MaxOpens /\ opened[c].kind # "write"
  /\ Say(<<<<"atn">>, <<"open", c>>, <<"released">>, <<"name", o>>, <<"end">>>> \o Unlisten)
  /\ bus' = "free"
  /\ opened' = [opened EXCEPT ![c] = o] /\ opens' = opens + 1
  /\ out' = [out EXCEPT ![c] = <<>>] /\ ended' = [ended EXCEPT ![c] = FALSE]
  /\ sent' = [sent EXCEPT ![c] = IF o.kind = "write" THEN 0 ELSE @]
  /\ UNCHANGED <<heard, on>>

HostTalk(c) ==
  /\ opened[c].kind \in {"file", "dir", "missing"} /\ ~ended[c]
  /\ Say(<<<<"atn">>, <<"data", c>>, <<"released">>, <<"ready">>>>)
  /\ bus' = "talk" /\ on' = c /\ heard' = FALSE
  /\ UNCHANGED <<opened, opens, out, ended, sent>>

HostWrite(c) ==
  /\ opened[c].kind = "write" /\ sent[c] < MaxWrites
  /\ Say(<<<<"atn">>, <<"data", c>>, <<"released">>, <<"byte", sent[c]>>, <<"end">>>> \o Unlisten)
  /\ bus' = "free"
  /\ sent' = [sent EXCEPT ![c] = @ + 1]
  /\ UNCHANGED <<opened, opens, out, ended, heard, on>>

HostClose(c) ==
  /\ opened[c].kind # "closed"
  /\ Say(<<<<"atn">>, <<"close", c>>, <<"released">>>> \o Unlisten)
  /\ bus' = "free"
  /\ opened' = [opened EXCEPT ![c] = Nothing]
  /\ UNCHANGED <<opens, out, ended, sent, heard, on>>

Bus == BusByte \/ BusError \/ Drain

Host ==
  \/ Attention \/ HostTimeout \/ HostUntalk
  \/ \E c \in Channels :
       HostTalk(c) \/ HostWrite(c) \/ HostClose(c) \/ \E o \in Openings : HostOpen(c, o)

Next == Task \/ Bus \/ Host

Spec == Init /\ [][Next]_vars

(* The task polls, the bus processor runs; the host listens while it has *)
(* said talk, and is not assumed to do anything else.                    *)
FairSpec == Spec /\ WF_vars(Task) /\ WF_vars(Bus)

(****************************************************************************)
(* Properties                                                               *)
(****************************************************************************)
(* What the host gets, over interruptions, timeouts and read errors, is the *)
(* file byte by byte, with the end on its last byte.                        *)
Stream == INSTANCE ByteStream WITH
  Lengths <- {o.length : o \in Openings},
  length <- [c \in Channels |-> opened[c].length]

ImplementsStream == Stream!Spec

(* A talk does not hang: not at the end of a block, where the buffer is read *)
(* when its last byte is reported, and not at a full FIFO.                   *)
TalkEnds == (bus = "talk") ~> (bus # "talk")

(* A file that the host has closed holds all it has written, in order. *)
ClosedFileComplete ==
  \A c \in Channels :
    up = <<>> /\ opened[c].kind # "write" => stored[c] = [i \in 1 .. sent[c] |-> i - 1]
=============================================================================
