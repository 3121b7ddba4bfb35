---------------------------- MODULE IecStreamProofs ---------------------------
(****************************************************************************)
(* What the host gets of a channel that it reads: proof that the channels   *)
(* of the software IEC device implement ByteStream for a host that          *)
(* interrupts a talker only far from the end, for every size of the block   *)
(* and of the FIFOs and any number of channels, files and openings.         *)
(****************************************************************************)
EXTENDS IecTalkProofs

(****************************************************************************)
(* Channels that are read                                                   *)
(****************************************************************************)
Live(ch) == ch.state \in {"file", "dir"} /\ ~ch.write

(* The position of the first byte of the buffer, and of the next to be taken *)
Base(ch) == ch.block * Block - Block
Pos(ch) == Base(ch) + ch.pointer

(* The buffer holds the bytes from Base on; last_byte is known exactly when *)
(* the end is among them.                                                   *)
Reader(ch) ==
  /\ ch.block >= 1 /\ ch.name \in Openings /\ ch.name.kind = ch.state
  /\ Pos(ch) < ch.name.length
  /\ ch.last_byte = IF ch.name.length <= ch.block * Block THEN ch.name.length - 1 - Base(ch) ELSE -1
  /\ ch.state = "file" /\ ch.last_byte = -1 => ch.size = ch.name.length - ch.block * Block
  /\ ch.prefetch_max = Block \/ (ch.prefetch_max = Block - 1 /\ ch.last_byte = Block - 1)
  /\ \A i \in 0 .. Block - 1 : Base(ch) + i < ch.name.length => ch.buffer[i] = Base(ch) + i

ReaderInv == \A c \in Channels : Live(chan[c]) => Reader(chan[c])

(* Nothing has been prefetched that the host has not taken. *)
Fresh(ch) == Live(ch) => ch.prefetch = ch.pointer

(****************************************************************************)
(* What the task is going to make of the FIFO, as far as reading goes       *)
(****************************************************************************)
(* The channel that tokens without an address go to, the last command to    *)
(* this channel, what is open on it, and how much of it has been taken.     *)
Courses ==
  [at : Channels, cmd : Commands \cup {"none"}, mode : {"naming", "closed"} \cup Kinds,
   name : Names, pos : Nat]

Ends(c, v, t) == t[1] = "end" /\ v.at = c /\ v.cmd = "open"

(* Token t may come, and takes the course of channel c from v to x. *)
Turn(c, v, t, x) ==
  /\ t[1] = "name" /\ v.at = c => v.mode = "naming"
  /\ Ends(c, v, t) => v.mode = "naming" /\ v.name \in Openings
  /\ t[1] = "byte" /\ v.at = c => v.mode = "write"
  /\ t[1] = "popped" /\ v.at = c => v.mode \in {"file", "dir"} /\ v.pos < v.name.length
  /\ x.at = IF t[1] \in Commands THEN t[2] ELSE v.at
  /\ x.cmd = IF t[1] \in Commands /\ t[2] = c THEN t[1] ELSE v.cmd
  /\ x.name = IF t[1] = "name" /\ v.at = c THEN t[2] ELSE v.name
  /\ x.mode = IF t[1] = "open" /\ t[2] = c THEN "naming"
              ELSE IF t[1] = "close" /\ t[2] = c THEN "closed"
              ELSE IF Ends(c, v, t) THEN v.name.kind ELSE v.mode
  /\ x.pos = IF t[1] = "popped" /\ v.at = c THEN v.pos + 1
             ELSE IF Ends(c, v, t) THEN 0 ELSE v.pos

(* The tokens of q lead from v to w. *)
Runs(c, v, q, w) ==
  \E f \in [0 .. Len(q) -> Courses] :
    /\ f[0] = v /\ f[Len(q)] = w
    /\ \A i \in 1 .. Len(q) : Turn(c, f[i - 1], q[i], f[i])

(* The channel is where v says; after a read error it stays there. *)
Matches(c, v) ==
  LET ch == chan[c]
  IN  /\ v.at = current /\ v.cmd = ch.last_command /\ v.name = ch.name
      /\ v.mode = "naming" => ch.state = "filename"
      /\ v.mode = "closed" => ch.state = "idle"
      /\ v.mode = "write" => ch.state = "file" /\ ch.write
      /\ v.mode = "missing" => ch.state = "error"
      /\ v.mode \in {"file", "dir"} =>
           \/ ch.state = "error"
           \/ ch.state = "complete" /\ v.pos = v.name.length
           \/ Live(ch) /\ ch.state = v.mode /\ v.pos = Pos(ch)

(* What the host knows of channel c. *)
HostCourse(c, w) ==
  /\ w.mode = opened[c].kind
  /\ w.mode \in {"file", "dir"} => w.name = opened[c] /\ w.pos = Len(out[c])
  /\ bus = "talk" => w.at = on

CourseInv ==
  \A c \in Channels : \E v, w \in Courses : Matches(c, v) /\ Runs(c, v, up, w) /\ HostCourse(c, w)

(****************************************************************************)
(* The host, and the three phases of a talk                                 *)
(****************************************************************************)
HostInv ==
  /\ opened \in [Channels -> Openings \cup {Nothing}]
  /\ out \in [Channels -> Seq(Int)] /\ ended \in [Channels -> BOOLEAN]
  /\ \A c \in Channels : opened[c].kind \in {"file", "dir"} =>
       /\ Len(out[c]) <= opened[c].length
       /\ ended[c] <=> Len(out[c]) = opened[c].length
  /\ bus = "talk" => /\ opened[on].kind \in {"file", "dir", "missing"} /\ ~ended[on]
                     /\ heard => ~flush
  /\ bus = "attention" => flush
  /\ \A i \in 1 .. Len(up) : up[i][1] = "ready" => i = Len(up) /\ bus = "talk"
  /\ pc # "rx" => talking

(* The FIFO to the bus is open: the task and the host work on one channel. *)
Taken == Len(out[on])
LastBlock == Block * ((opened[on].length - 1) \div Block)

(* Entry i of the FIFO is the byte that the host will take as number i. *)
GoodEntry(i) ==
  IF down[i].kind = "error"
  THEN chan[on].state = "error"
  ELSE /\ opened[on].kind \in {"file", "dir"}
       /\ down[i].v = Taken + i - 1 /\ Taken + i <= opened[on].length
       /\ down[i].kind = "last" <=> Taken + i = opened[on].length

Talk ==
  LET ch == chan[on]
  IN  /\ Live(ch) \/ ch.state = "error"
      /\ \A i \in 1 .. Len(down) : GoodEntry(i)
      /\ Live(ch) => IF talking
                     THEN /\ Base(ch) + ch.prefetch = Taken + Len(down)
                          /\ Taken + Len(down) < opened[on].length
                     ELSE /\ ch.last_byte # -1
                          /\ Taken + Len(down) = opened[on].length

(* After a timeout the end is far; after the last byte there is no more. *)
Paused == Live(chan[on]) => IF talking THEN Taken < LastBlock ELSE Taken = opened[on].length

Streaming ==
  /\ ~flush /\ bus # "attention" /\ current = on
  /\ \A i \in 1 .. Len(up) : up[i] = <<"popped">>
  /\ \A c \in Channels \ {on} : Fresh(chan[c])
  /\ Live(chan[on]) => chan[on].name = opened[on] /\ Pos(chan[on]) + Len(up) = Taken
  /\ bus = "talk" => Talk
  /\ bus = "free" => Paused

(* The FIFO is held empty, and the task has not come to the ATN: first     *)
(* there are the last k reports of bytes that were taken.                  *)
InBuffer(ch) ==
  /\ ch.last_byte = -1 \/ ch.prefetch <= ch.last_byte
  /\ pc = "put" => ch.prefetch # ch.last_byte

Flushing ==
  /\ flush
  /\ \A c \in Channels \ {current} : Fresh(chan[c])
  /\ \E k \in 0 .. Len(up) :
       /\ \A i \in 1 .. k : up[i] = <<"popped">>
       /\ \A i \in k + 1 .. Len(up) : up[i][1] # "popped"
       /\ k < Len(up) => up[k + 1] = <<"atn">>
       /\ Live(chan[current]) =>
            IF talking THEN InBuffer(chan[current])
            ELSE Pos(chan[current]) + k = chan[current].name.length

(* The task has heard ATN: every channel is where the host left it. *)
Settled ==
  /\ flush /\ ~talking
  /\ \A i \in 1 .. Len(up) : up[i][1] # "popped"
  /\ \A c \in Channels : Fresh(chan[c])

PhaseInv == Streaming \/ Flushing \/ Settled

StreamInv == ReaderInv /\ CourseInv /\ HostInv /\ PhaseInv

(****************************************************************************)
(* Tokens and courses                                                       *)
(****************************************************************************)
(* Reading the first token, and appending one. *)
LEMMA RunsTail ==
  ASSUME NEW c, NEW v, NEW q \in Seq(Tokens), NEW w, q # <<>>, Runs(c, v, q, w)
  PROVE  \E x \in Courses : Turn(c, v, Head(q), x) /\ Runs(c, x, Tail(q), w)
<1>1. PICK f \in [0 .. Len(q) -> Courses] :
        /\ f[0] = v /\ f[Len(q)] = w
        /\ \A i \in 1 .. Len(q) : Turn(c, f[i - 1], q[i], f[i])
  BY DEF Runs
<1>2. /\ Len(q) \in Nat /\ Len(q) >= 1 /\ Head(q) = q[1]
      /\ Len(Tail(q)) = Len(q) - 1
      /\ \A i \in 1 .. Len(Tail(q)) : Tail(q)[i] = q[i + 1]
  BY HeadTailProperties, LenProperties, EmptySeq
<1>3. f[1] \in Courses /\ Turn(c, v, Head(q), f[1])
  BY <1>1, <1>2
<1> DEFINE g == [i \in 0 .. Len(Tail(q)) |-> f[i + 1]]
<1>4. g \in [0 .. Len(Tail(q)) -> Courses]
  BY <1>1, <1>2
<1>5. g[0] = f[1] /\ g[Len(Tail(q))] = w
  BY <1>1, <1>2
<1>6. ASSUME NEW i \in 1 .. Len(Tail(q))
      PROVE  Turn(c, g[i - 1], Tail(q)[i], g[i])
  <2>1. g[i - 1] = f[i] /\ g[i] = f[i + 1] /\ Tail(q)[i] = q[i + 1] /\ i + 1 \in 1 .. Len(q)
    BY <1>2
  <2>2. (i + 1) - 1 = i
    BY <1>2
  <2> HIDE DEF g
  <2> QED
    BY <1>1, <2>1, <2>2
<1> HIDE DEF g
<1>7. Runs(c, f[1], Tail(q), w)
  BY <1>4, <1>5, <1>6 DEF Runs
<1> QED
  BY <1>3, <1>7

LEMMA RunsAppend ==
  ASSUME NEW c, NEW v, NEW q \in Seq(Tokens), NEW w, Runs(c, v, q, w),
         NEW t \in Tokens, NEW x \in Courses, Turn(c, w, t, x)
  PROVE  Append(q, t) \in Seq(Tokens) /\ Runs(c, v, Append(q, t), x)
<1>1. PICK f \in [0 .. Len(q) -> Courses] :
        /\ f[0] = v /\ f[Len(q)] = w
        /\ \A i \in 1 .. Len(q) : Turn(c, f[i - 1], q[i], f[i])
  BY DEF Runs
<1> DEFINE p == Append(q, t)
           g == [i \in 0 .. Len(p) |-> IF i = Len(p) THEN x ELSE f[i]]
<1>2. /\ Len(q) \in Nat /\ p \in Seq(Tokens) /\ Len(p) = Len(q) + 1
      /\ p[Len(q) + 1] = t /\ \A i \in 1 .. Len(q) : p[i] = q[i]
  BY AppendProperties, LenProperties
<1> HIDE DEF p
<1>4. g \in [0 .. Len(p) -> Courses] /\ g[0] = v /\ g[Len(p)] = x
      /\ \A i \in 0 .. Len(q) : g[i] = f[i]
  BY <1>1, <1>2
<1> HIDE DEF g
<1>5. ASSUME NEW i \in 1 .. Len(p)
      PROVE  Turn(c, g[i - 1], p[i], g[i])
  <2>1. CASE i = Len(p)
    <3>1. i - 1 = Len(q) /\ g[i - 1] = w /\ p[i] = t /\ g[i] = x
      BY <1>1, <1>2, <1>4, <2>1
    <3> QED
      BY <3>1
  <2>2. CASE i # Len(p)
    <3>1. i \in 1 .. Len(q) /\ i - 1 \in 0 .. Len(q) /\ i \in 0 .. Len(q)
      BY <1>2, <2>2
    <3>2. g[i - 1] = f[i - 1] /\ g[i] = f[i] /\ p[i] = q[i]
      BY <1>2, <1>4, <3>1
    <3> QED
      BY <1>1, <3>1, <3>2
  <2> QED
    BY <2>1, <2>2
<1>6. Runs(c, v, p, x)
  BY <1>4, <1>5 DEF Runs
<1> QED
  BY <1>2, <1>6 DEF p

LEMMA RunsNowhere ==
  ASSUME NEW c, NEW v, NEW w, NEW q, Len(q) = 0, Runs(c, v, q, w)
  PROVE  w = v
  BY DEF Runs

(****************************************************************************)
(* What the operations do to a channel that is read                         *)
(****************************************************************************)
LEMMA OpeningIs ==
  ASSUME NEW o \in Openings
  PROVE  /\ o.kind \in Kinds /\ o.length \in Nat /\ o \in Names
         /\ o.kind = "dir" => \E m \in Nat : m >= 2 /\ o.length = Block * m
<1>1. o \in [kind : Kinds, length : Nat]
  BY TalkAssumption
<1>2. o.kind = "dir" => o.length \in {Block * i : i \in 2 .. o.length}
  BY TalkAssumption
<1> QED
  BY <1>1, <1>2 DEF Names

LEMMA NextBlock ==
  ASSUME NEW b \in Nat, NEW m \in Nat, b * Block < Block * m
  PROVE  b * Block + Block <= Block * m
<1>1. Block \in Nat /\ Block >= 2
  BY BlockFacts
<1>2. b < m
  <2>1. SUFFICES ASSUME m <= b PROVE FALSE
    OBVIOUS
  <2>2. b = m + (b - m) /\ b - m \in Nat
    BY <2>1
  <2>3. b * Block = Block * m + (b - m) * Block
    BY <1>1
  <2>4. (b - m) * Block >= 0
    BY <1>1, <2>2
  <2> QED
    BY <1>1, <2>3, <2>4
<1>3. PICK k \in Nat : m = b + 1 + k
  <2>1. m - b - 1 \in Nat /\ m = b + 1 + (m - b - 1)
    BY <1>2
  <2> QED
    BY <2>1
<1>4. Block * m = b * Block + Block + Block * k
  BY <1>1, <1>3
<1>5. Block * k \in Nat /\ b * Block \in Nat /\ Block * m \in Nat
  BY <1>1
<1> QED
  BY <1>1, <1>4, <1>5

(* A block that is read while bytes of the file are left *)
LEMMA ReadBlockReads ==
  ASSUME NEW ch \in ChannelStates, NEW fail \in BOOLEAN, ch.state = "file", ~ch.write,
         ch.name \in Openings, ch.name.kind = "file", ch.last_byte = -1,
         ch.block * Block < ch.name.length, ch.size = ch.name.length - ch.block * Block
  PROVE  \/ read_block(ch, fail).state = "error"
         \/ /\ Live(read_block(ch, fail)) /\ Reader(read_block(ch, fail))
            /\ read_block(ch, fail).state = "file"
            /\ Base(read_block(ch, fail)) = ch.block * Block
            /\ read_block(ch, fail).prefetch = 0 /\ read_block(ch, fail).pointer = 0
<1> DEFINE done(bytes, last) ==
             [ch EXCEPT !.state = IF bytes = 0 THEN "complete" ELSE @,
                        !.last_byte = last,
                        !.size = @ - Block, !.block = @ + 1, !.buffer = Filled(ch),
                        !.pointer = 0, !.prefetch = 0, !.prefetch_max = Block]
           L == ch.name.length
           B == ch.block * Block
           new == read_block(ch, fail)
<1>0. /\ ch.block \in Nat /\ L \in Nat /\ Block \in Nat /\ Block >= 2 /\ B \in Nat
      /\ B < L /\ ch.size = L - B
  BY ChannelIs, BlockFacts
<1>1. CASE fail
  <2>1. new = [ch EXCEPT !.state = "error"]
    BY <1>1 DEF read_block
  <2> QED
    BY <2>1 DEF ChannelStates
<1>2. CASE ~fail
  <2> DEFINE bytes == IF B + Block <= L THEN Block ELSE L - B
             last == IF bytes # Block THEN bytes - 1
                     ELSE IF ch.size = Block THEN Block - 1 ELSE ch.last_byte
  <2>1. new = done(bytes, last)
    BY <1>2 DEF read_block
  <2>2. /\ bytes # 0
        /\ last = IF L <= B + Block THEN L - 1 - B ELSE -1
    <3> HIDE DEF B, L
    <3> QED
      BY <1>0
  <2> HIDE DEF bytes, last, B, L
  <2>3. /\ new.state = "file" /\ new.last_byte = last /\ new.size = ch.size - Block
        /\ new.block = ch.block + 1 /\ new.buffer = Filled(ch) /\ new.pointer = 0
        /\ new.prefetch = 0 /\ new.prefetch_max = Block /\ new.name = ch.name
        /\ new.write = ch.write
    BY <2>1, <2>2 DEF ChannelStates
  <2> HIDE DEF new, done
  <2>4. new.block * Block = B + Block /\ new.block >= 1
    BY <1>0, <2>3 DEF B
  <2>5. Base(new) = B /\ Pos(new) = B
    BY <1>0, <2>3, <2>4 DEF Base, Pos
  <2>6. \A i \in 0 .. Block - 1 : B + i < L => Filled(ch)[i] = B + i
    BY DEF Filled, B, L
  <2>7. Live(new) /\ new.name = ch.name /\ new.name.length = L
    BY <2>3 DEF Live, L
  <2>8. new.last_byte = IF new.name.length <= new.block * Block
                        THEN new.name.length - 1 - Base(new) ELSE -1
    BY <2>2, <2>3, <2>4, <2>5, <2>7
  <2>9. new.size = L - (B + Block)
    BY <1>0, <2>3
  <2>10. Reader(new)
    BY <1>0, <2>3, <2>4, <2>5, <2>6, <2>7, <2>8, <2>9 DEF Reader
  <2> QED
    BY <2>3, <2>5, <2>7, <2>10 DEF new, B
<1> QED
  BY <1>1, <1>2

(* A line of a listing, while lines are left *)
LEMMA ReadEntryReads ==
  ASSUME NEW ch \in ChannelStates, ch.state = "dir", ~ch.write,
         ch.name \in Openings, ch.name.kind = "dir", ch.last_byte = -1,
         ch.block * Block < ch.name.length
  PROVE  /\ Live(read_dir_entry(ch)) /\ Reader(read_dir_entry(ch))
         /\ read_dir_entry(ch).state = "dir"
         /\ Base(read_dir_entry(ch)) = ch.block * Block
         /\ read_dir_entry(ch).prefetch = 0 /\ read_dir_entry(ch).pointer = 0
<1> DEFINE L == ch.name.length
           B == ch.block * Block
           last == (ch.block + 1) * Block = L
           new == read_dir_entry(ch)
<1>0. /\ ch.block \in Nat /\ L \in Nat /\ Block \in Nat /\ Block >= 2 /\ B \in Nat /\ B < L
  BY ChannelIs, BlockFacts
<1>1. PICK m \in Nat : L = Block * m
  BY OpeningIs
<1>2. B + Block <= L
  BY <1>0, <1>1, NextBlock
<1>3. (ch.block + 1) * Block = B + Block
  BY <1>0
<1>4. last <=> L <= B + Block
  BY <1>0, <1>2, <1>3
<1>5. new = [ch EXCEPT !.buffer = Filled(ch), !.block = @ + 1,
                       !.pointer = 0, !.prefetch = 0,
                       !.prefetch_max = IF last THEN Block - 1 ELSE Block,
                       !.last_byte = IF last THEN Block - 1 ELSE @]
  BY DEF read_dir_entry
<1> HIDE DEF last, B, L
<1>6. /\ new.state = "dir" /\ new.block = ch.block + 1 /\ new.buffer = Filled(ch)
      /\ new.pointer = 0 /\ new.prefetch = 0 /\ new.name = ch.name /\ new.write = ch.write
      /\ new.prefetch_max = IF last THEN Block - 1 ELSE Block
      /\ new.last_byte = IF last THEN Block - 1 ELSE -1
  BY <1>5 DEF ChannelStates
<1> HIDE DEF new
<1>7. new.block * Block = B + Block /\ new.block >= 1
  BY <1>0, <1>3, <1>6
<1>8. Base(new) = B /\ Pos(new) = B
  BY <1>0, <1>6, <1>7 DEF Base, Pos
<1>9. \A i \in 0 .. Block - 1 : B + i < L => Filled(ch)[i] = B + i
  BY DEF Filled, B, L
<1>10. Live(new) /\ new.name.length = L
  BY <1>6 DEF Live, L
<1>11. new.last_byte = IF new.name.length <= new.block * Block
                       THEN new.name.length - 1 - Base(new) ELSE -1
  BY <1>0, <1>2, <1>4, <1>6, <1>7, <1>8, <1>10
<1>12. Reader(new)
  BY <1>0, <1>6, <1>7, <1>8, <1>9, <1>10, <1>11 DEF Reader
<1> QED
  BY <1>6, <1>8, <1>10, <1>12 DEF new, B

(* The same buffer, with other pointers *)
LEMMA SameBuffer ==
  ASSUME NEW ch, NEW new, Reader(ch),
         new.state = ch.state, new.block = ch.block, new.name = ch.name,
         new.last_byte = ch.last_byte, new.size = ch.size, new.buffer = ch.buffer,
         new.prefetch_max = ch.prefetch_max, Pos(new) < ch.name.length
  PROVE  Reader(new) /\ Base(new) = Base(ch)
BY DEF Reader, Base

(* What a reader knows of the end *)
LEMMA ReaderIs ==
  ASSUME NEW ch \in ChannelStates, Reader(ch)
  PROVE  /\ ch.block \in Nat /\ ch.block * Block \in Nat /\ Base(ch) \in Nat
         /\ Base(ch) + Block = ch.block * Block /\ Pos(ch) \in Nat
         /\ ch.name.length \in Nat /\ ch.name \in Names
         /\ Pos(ch) = Base(ch) + ch.pointer /\ Pos(ch) < ch.name.length
         /\ ch.last_byte = -1 => Base(ch) + Block < ch.name.length /\ ch.prefetch_max = Block
         /\ ch.last_byte # -1 => /\ ch.last_byte = ch.name.length - 1 - Base(ch)
                                 /\ ch.pointer <= ch.last_byte
                                 /\ ch.last_byte <= ch.prefetch_max
<1> DEFINE e == ch.block * Block
<1>1. /\ ch.block \in Nat /\ ch.block >= 1 /\ Block \in Nat /\ Block >= 2
      /\ ch.name.length \in Nat /\ ch.pointer \in 0 .. Block - 1
      /\ ch.last_byte \in -1 .. Block - 1 /\ ch.name \in Names
  BY ChannelIs, BlockFacts DEF Reader
<1>2. e \in Nat /\ e >= Block
  <2>1. e = Block + (ch.block - 1) * Block /\ ch.block - 1 \in Nat
    BY <1>1
  <2>2. (ch.block - 1) * Block \in Nat
    BY <1>1, <2>1
  <2> HIDE DEF e
  <2> QED
    BY <1>1, <2>1, <2>2
<1>3. /\ Base(ch) = e - Block /\ Pos(ch) = Base(ch) + ch.pointer
      /\ Pos(ch) < ch.name.length
      /\ ch.last_byte = IF ch.name.length <= e THEN ch.name.length - 1 - Base(ch) ELSE -1
      /\ ch.prefetch_max = Block \/ (ch.prefetch_max = Block - 1 /\ ch.last_byte = Block - 1)
  BY DEF Reader, Base, Pos
<1> HIDE DEF e
<1>4. Base(ch) \in Nat /\ Pos(ch) \in Nat /\ Base(ch) + Block = e
  BY <1>1, <1>2, <1>3
<1>5. ch.name.length <= e => ch.last_byte >= ch.pointer
  BY <1>1, <1>2, <1>3, <1>4
<1>6. ch.last_byte = -1 => e < ch.name.length
  BY <1>1, <1>2, <1>5
<1> QED
  BY <1>1, <1>2, <1>3, <1>4, <1>5, <1>6 DEF e

(* A byte is taken: the next position, in the same buffer or in the next. *)
NextByte(ch, new) ==
  /\ Live(new) /\ Reader(new) /\ new.state = ch.state /\ Pos(new) = Pos(ch) + 1
  /\ \/ /\ ch.pointer = Block - 1 /\ ch.last_byte = -1
        /\ new.prefetch = 0 /\ Base(new) = Base(ch) + Block
     \/ new.prefetch = ch.prefetch /\ new.last_byte = ch.last_byte /\ Base(new) = Base(ch)

LEMMA PopReads ==
  ASSUME NEW ch \in ChannelStates, NEW fail \in BOOLEAN, Live(ch), Reader(ch)
  PROVE  /\ SameFile(ch, pop_data(ch, fail))
         /\ \/ pop_data(ch, fail).state = "error"
            \/ pop_data(ch, fail).state = "complete" /\ Pos(ch) + 1 = ch.name.length
            \/ NextByte(ch, pop_data(ch, fail))
<1> DEFINE new == pop_data(ch, fail)
           L == ch.name.length
<1>1. /\ ch.block \in Nat /\ Base(ch) + Block = ch.block * Block /\ Base(ch) \in Nat
      /\ Pos(ch) = Base(ch) + ch.pointer /\ Pos(ch) < L /\ L \in Nat
      /\ ch.last_byte = -1 => Base(ch) + Block < L
      /\ ch.last_byte # -1 => ch.last_byte = L - 1 - Base(ch) /\ ch.pointer <= ch.last_byte
  BY ReaderIs
<1>2. /\ Block \in Nat /\ Block >= 2 /\ ch.pointer \in 0 .. Block - 1
      /\ ch.last_byte \in -1 .. Block - 1 /\ ch.write = FALSE
      /\ ch.name \in Openings /\ ch.name.kind = ch.state
  BY ChannelIs, BlockFacts DEF Live, Reader
<1>3. SameFile(ch, new)
  <2>1. Reading(ch)
    <3>1. ch.last_byte = -1 /\ ch.state = "file" => ch.size = L - ch.block * Block
      BY DEF Reader
    <3>2. ch.block * Block \in Nat
      BY <1>1, <1>2
    <3>3. ch.last_byte = -1 /\ ch.state = "file" => 0 <= ch.size
      BY <1>1, <3>1, <3>2
    <3> QED
      BY <1>1, <1>2, <3>1, <3>3 DEF Reading
  <2>2. ~Writing(ch)
    BY <1>2 DEF Writing
  <2> QED
    BY <2>1, <2>2, PopData
<1>4. CASE ch.pointer = ch.last_byte
  <2>1. new = [ch EXCEPT !.state = "complete"]
    BY <1>4 DEF pop_data, Live
  <2>2. new.state = "complete"
    BY <2>1 DEF ChannelStates
  <2>3. Pos(ch) + 1 = L
    BY <1>1, <1>2, <1>4
  <2> QED
    BY <1>3, <2>2, <2>3
<1>5. CASE ch.pointer # ch.last_byte /\ ch.pointer = Block - 1
  <2>1. ch.last_byte = -1 /\ ch.block * Block < L
    BY <1>1, <1>2, <1>5
  <2>2. Pos(ch) + 1 = ch.block * Block
    BY <1>1, <1>2, <1>5
  <2>3. ASSUME Reader(new), Live(new), new.state = ch.state, Base(new) = ch.block * Block,
               new.prefetch = 0, new.pointer = 0
        PROVE  NextByte(ch, new)
    <3> HIDE DEF new
    <3>1. Pos(new) = ch.block * Block
      BY <1>1, <1>2, <2>3 DEF Pos
    <3> QED
      BY <1>1, <1>5, <2>1, <2>2, <2>3, <3>1 DEF NextByte
  <2>4. CASE ch.state = "file"
    <3>1. new = read_block(ch, fail)
      BY <1>5, <2>4 DEF pop_data
    <3>2. ch.size = L - ch.block * Block
      BY <2>1, <2>4 DEF Reader
    <3>3. \/ new.state = "error"
          \/ /\ Live(new) /\ Reader(new) /\ new.state = "file" /\ Base(new) = ch.block * Block
             /\ new.prefetch = 0 /\ new.pointer = 0
      BY <1>2, <2>1, <2>4, <3>1, <3>2, ReadBlockReads
    <3> HIDE DEF new
    <3>4. new.state = "error" \/ NextByte(ch, new)
      BY <2>3, <2>4, <3>3
    <3> QED
      BY <1>3, <3>4 DEF new
  <2>5. CASE ch.state = "dir"
    <3>1. new = read_dir_entry(ch)
      BY <1>5, <2>5 DEF pop_data
    <3>2. /\ Live(new) /\ Reader(new) /\ new.state = "dir" /\ Base(new) = ch.block * Block
          /\ new.prefetch = 0 /\ new.pointer = 0
      BY <1>2, <2>1, <2>5, <3>1, ReadEntryReads
    <3> HIDE DEF new
    <3>3. NextByte(ch, new)
      BY <2>3, <2>5, <3>2
    <3> QED
      BY <1>3, <3>3 DEF new
  <2> QED
    BY <2>4, <2>5 DEF Live
<1>6. CASE ch.pointer # ch.last_byte /\ ch.pointer # Block - 1
  <2>1. new = [ch EXCEPT !.pointer = @ + 1]
    BY <1>6 DEF pop_data, Live
  <2>2. /\ new.state = ch.state /\ new.block = ch.block /\ new.name = ch.name
        /\ new.last_byte = ch.last_byte /\ new.size = ch.size /\ new.buffer = ch.buffer
        /\ new.prefetch_max = ch.prefetch_max /\ new.pointer = ch.pointer + 1
        /\ new.prefetch = ch.prefetch /\ new.write = ch.write
    BY <2>1 DEF ChannelStates
  <2> HIDE DEF new
  <2>3. Base(new) = Base(ch)
    BY <2>2 DEF Base
  <2>4. Pos(new) = Pos(ch) + 1
    BY <1>1, <1>2, <2>2, <2>3 DEF Pos
  <2>5. Pos(ch) + 1 < L
    BY <1>1, <1>2, <1>6
  <2>6. Reader(new)
    BY <2>2, <2>4, <2>5, SameBuffer
  <2>7. Live(new)
    BY <2>2 DEF Live
  <2>8. NextByte(ch, new)
    BY <2>2, <2>3, <2>4, <2>6, <2>7 DEF NextByte
  <2> QED
    BY <1>3, <2>8 DEF new
<1> QED
  BY <1>4, <1>5, <1>6

(* Opening a file to read or a listing: an error, or its first byte *)
LEMMA OpenReads ==
  ASSUME NEW ch \in ChannelStates, NEW fail \in BOOLEAN, ch.name \in Openings,
         ch.name.kind \in {"file", "dir"}, ch.name.length > 0
  PROVE  \/ open_file(ch, fail).state = "error"
         \/ /\ Live(open_file(ch, fail)) /\ Reader(open_file(ch, fail))
            /\ open_file(ch, fail).state = ch.name.kind /\ Pos(open_file(ch, fail)) = 0
            /\ Fresh(open_file(ch, fail))
<1> DEFINE new == [ch EXCEPT !.write = ch.name.kind = "write", !.size = ch.name.length,
                        !.pointer = 0, !.prefetch = 0, !.prefetch_max = Block,
                        !.last_byte = -1, !.block = 0]
           listing == [new EXCEPT !.state = "dir", !.block = 1, !.buffer = Filled(new)]
           file == [new EXCEPT !.state = "file"]
           L == ch.name.length
<1>0. /\ ch.name \in Names /\ L \in Nat /\ ch.buffer \in Buffer
      /\ Block \in Nat /\ Block >= 2 /\ 0 \in 0 .. Block - 1 /\ 0 \in 0 .. Block
      /\ Block \in 0 .. Block /\ -1 \in -1 .. Block - 1
  BY ChannelIs, BlockFacts
<1>1. new \in ChannelStates
  <2> DEFINE w == ch.name.kind = "write"
             l == ch.name.length
  <2>1. w \in BOOLEAN /\ l \in Int
    BY <1>0
  <2>2. new = [ch EXCEPT !.write = w, !.size = l, !.pointer = 0, !.prefetch = 0,
                         !.prefetch_max = Block, !.last_byte = -1, !.block = 0]
    OBVIOUS
  <2> HIDE DEF w, l, new
  <2> QED
    BY <1>0, <2>1, <2>2 DEF ChannelStates
<1>2. /\ new.write = (ch.name.kind = "write") /\ new.size = L
      /\ new.pointer = 0 /\ new.prefetch = 0 /\ new.prefetch_max = Block
      /\ new.last_byte = -1 /\ new.block = 0 /\ new.name = ch.name /\ new.buffer = ch.buffer
  BY DEF ChannelStates
<1>3. open_file(ch, fail) =
        CASE ch.name.kind = "dir" -> listing
          [] ch.name.kind = "file" -> read_block(file, fail)
          [] OTHER -> open_file(ch, fail)
  BY DEF open_file
<1> HIDE DEF new
<1>4. CASE ch.name.kind = "dir"
  <2>1. open_file(ch, fail) = listing
    BY <1>3, <1>4
  <2>2. /\ listing.state = "dir" /\ listing.write = FALSE /\ listing.name = ch.name
        /\ listing.pointer = 0 /\ listing.prefetch = 0 /\ listing.prefetch_max = Block
        /\ listing.last_byte = -1 /\ listing.block = 1 /\ listing.buffer = Filled(new)
    BY <1>1, <1>2, <1>4 DEF ChannelStates
  <2> HIDE DEF listing
  <2>3. L > Block
    <3>1. PICK m \in Nat : m >= 2 /\ L = Block * m
      BY <1>4, OpeningIs
    <3>2. Block * m = Block + Block + Block * (m - 2) /\ m - 2 \in Nat
      BY <1>0, <3>1
    <3>3. Block * (m - 2) \in Nat
      BY <1>0, <3>2
    <3> HIDE DEF L
    <3> QED
      BY <1>0, <3>1, <3>2, <3>3
  <2>4. listing.block * Block = Block /\ Base(listing) = 0 /\ Pos(listing) = 0
    BY <1>0, <2>2 DEF Base, Pos
  <2>5. \A i \in 0 .. Block - 1 : i < L => Filled(new)[i] = i
    BY <1>0, <1>2 DEF Filled
  <2>6. Reader(listing)
    <3> HIDE DEF L
    <3>1. listing.name.length = L
      BY <2>2 DEF L
    <3> QED
      BY <1>0, <1>4, <2>2, <2>3, <2>4, <2>5, <3>1 DEF Reader
  <2>7. Live(listing) /\ Fresh(listing)
    BY <2>2 DEF Live, Fresh
  <2> QED
    BY <1>4, <2>1, <2>2, <2>4, <2>6, <2>7
<1>5. CASE ch.name.kind = "file"
  <2>1. open_file(ch, fail) = read_block(file, fail)
    BY <1>3, <1>5
  <2>2. /\ file \in ChannelStates /\ file.state = "file" /\ file.write = FALSE
        /\ file.name = ch.name /\ file.size = L /\ file.last_byte = -1 /\ file.block = 0
    BY <1>1, <1>2, <1>5 DEF ChannelStates
  <2> HIDE DEF file
  <2>3. file.block * Block = 0 /\ file.size = file.name.length - 0
    BY <1>0, <2>2
  <2>4. \/ read_block(file, fail).state = "error"
        \/ /\ Live(read_block(file, fail)) /\ Reader(read_block(file, fail))
           /\ read_block(file, fail).state = "file"
           /\ Base(read_block(file, fail)) = 0
           /\ read_block(file, fail).prefetch = 0 /\ read_block(file, fail).pointer = 0
    BY <1>5, <2>2, <2>3, ReadBlockReads
  <2>5. Base(read_block(file, fail)) = 0 /\ read_block(file, fail).pointer = 0
          => Pos(read_block(file, fail)) = 0
    BY DEF Pos
  <2> QED
    BY <1>5, <2>1, <2>4, <2>5 DEF Fresh
<1> QED
  BY <1>4, <1>5

(****************************************************************************)
(* The task handles a token                                                 *)
(****************************************************************************)
FilesHaveBytes == \A o \in Openings : o.kind = "file" => o.length > 0

(* A reader stays one, and what was fresh stays so. *)
StaysGood(c) ==
  /\ Live(chan'[c]) => Reader(chan'[c])
  /\ Fresh(chan[c]) => Fresh(chan'[c])

LEMMA NotTouched ==
  ASSUME ReaderInv, NEW c \in Channels, chan'[c] = chan[c], NEW v, NEW x, Matches(c, v),
         x.at = current', x.cmd = v.cmd, x.name = v.name, x.mode = v.mode, x.pos = v.pos
  PROVE  Matches(c, x)' /\ StaysGood(c)
<1>1. StaysGood(c)
  BY DEF StaysGood, ReaderInv
<1>2. Matches(c, x)'
  BY DEF Matches
<1> QED
  BY <1>1, <1>2

LEMMA CourseElsewhere ==
  ASSUME ReaderInv, NEW c \in Channels, chan'[c] = chan[c], NEW v, NEW x, NEW t, Matches(c, v),
         Turn(c, v, t, x), t[1] \notin Commands, current' = current, current # c
  PROVE  Matches(c, x)' /\ StaysGood(c)
<1>1. v.at = current
  BY DEF Matches
<1>2. /\ x.at = v.at /\ x.cmd = v.cmd /\ x.name = v.name /\ x.mode = v.mode /\ x.pos = v.pos
  BY <1>1 DEF Turn, Ends, Commands
<1> QED
  BY <1>1, <1>2, NotTouched

LEMMA CourseCommand ==
  ASSUME TypeInv, ReaderInv, NEW c \in Channels, NEW d \in Channels, NEW command \in Commands,
         PushCommand(command, d), current' = d, NEW v, NEW x, Matches(c, v),
         Turn(c, v, <<command, d>>, x)
  PROVE  Matches(c, x)' /\ StaysGood(c)
<1> DEFINE t == <<command, d>>
           ch == chan[c]
           new == chan'[c]
<1>1. t[1] = command /\ t[2] = d /\ Turn(c, v, t, x)
  OBVIOUS
<1> HIDE DEF t
<1>2. /\ x.at = d
      /\ x.cmd = (IF d = c THEN command ELSE v.cmd) /\ x.name = v.name /\ x.pos = v.pos
      /\ x.mode = IF command = "open" /\ d = c THEN "naming"
                  ELSE IF command = "close" /\ d = c THEN "closed" ELSE v.mode
  BY <1>1 DEF Turn, Ends, Commands
<1>3. chan \in [Channels -> ChannelStates] /\ ch \in ChannelStates
  BY DEF TypeInv
<1>4. CASE d # c
  <2>1. new = ch
    BY <1>3, <1>4 DEF PushCommand, Update, Commands
  <2> QED
    BY <1>2, <1>4, <2>1, NotTouched
<1>5. CASE d = c /\ command = "open"
  <2>1. new = [[ch EXCEPT !.last_command = command] EXCEPT !.state = "filename", !.pointer = 0]
    BY <1>3, <1>5 DEF PushCommand, Update
  <2>2. new.state = "filename" /\ new.last_command = command /\ new.name = ch.name
    BY <1>3, <2>1 DEF ChannelStates
  <2> HIDE DEF new, ch
  <2>3. ~Live(new)
    BY <2>2 DEF Live
  <2> QED
    BY <1>2, <1>5, <2>2, <2>3 DEF Matches, StaysGood, Fresh, new, ch
<1>6. CASE d = c /\ command = "close"
  <2>1. new = [[ch EXCEPT !.last_command = command] EXCEPT !.state = "idle"]
    BY <1>3, <1>6 DEF PushCommand, Update
  <2>2. new.state = "idle" /\ new.last_command = command /\ new.name = ch.name
    BY <1>3, <2>1 DEF ChannelStates
  <2> HIDE DEF new, ch
  <2>3. ~Live(new)
    BY <2>2 DEF Live
  <2> QED
    BY <1>2, <1>6, <2>2, <2>3 DEF Matches, StaysGood, Fresh, new, ch
<1>7. CASE d = c /\ command = "data"
  <2>1. new = [ch EXCEPT !.last_command = command]
    BY <1>3, <1>7 DEF PushCommand, Update
  <2>2. /\ new.state = ch.state /\ new.block = ch.block /\ new.name = ch.name
        /\ new.last_byte = ch.last_byte /\ new.size = ch.size /\ new.buffer = ch.buffer
        /\ new.prefetch_max = ch.prefetch_max /\ new.pointer = ch.pointer
        /\ new.prefetch = ch.prefetch /\ new.write = ch.write /\ new.last_command = command
    BY <1>3, <2>1 DEF ChannelStates
  <2>3. Live(ch) => Reader(ch)
    BY DEF ReaderInv
  <2> HIDE DEF new, ch
  <2>4. Live(new) = Live(ch) /\ Pos(new) = Pos(ch) /\ Fresh(new) = Fresh(ch)
    BY <2>2 DEF Live, Pos, Base, Fresh
  <2>5. Live(new) => Reader(new)
    <3>1. Live(ch) => Pos(new) < ch.name.length
      BY <2>3, <2>4 DEF Reader
    <3> QED
      BY <2>2, <2>3, <2>4, <3>1, SameBuffer
  <2>6. StaysGood(c)
    BY <2>4, <2>5 DEF StaysGood, new, ch
  <2>7. Matches(c, x)'
    BY <1>2, <1>7, <2>2, <2>4 DEF Matches, new, ch
  <2> QED
    BY <2>6, <2>7
<1> QED
  BY <1>4, <1>5, <1>6, <1>7 DEF Commands

LEMMA CourseName ==
  ASSUME TypeInv, ReaderInv, NEW o \in Openings, current' = current,
         Update(current, PushName(chan[current], o)), NEW v, NEW x, Matches(current, v),
         Turn(current, v, <<"name", o>>, x)
  PROVE  Matches(current, x)' /\ StaysGood(current)
<1> DEFINE t == <<"name", o>>
           ch == chan[current]
           new == chan'[current]
<1>1. t[1] = "name" /\ t[2] = o /\ Turn(current, v, t, x)
  OBVIOUS
<1> HIDE DEF t
<1>2. v.at = current /\ v.cmd = ch.last_command
  BY DEF Matches
<1>3. /\ x.at = current /\ x.cmd = v.cmd /\ x.name = o /\ x.mode = v.mode
      /\ v.mode = "naming"
  BY <1>1, <1>2 DEF Turn, Ends, Commands
<1>4. ch.state = "filename"
  BY <1>3 DEF Matches
<1>5. chan \in [Channels -> ChannelStates] /\ ch \in ChannelStates /\ current \in Channels
  BY DEF TypeInv
<1>6. new = [ch EXCEPT !.name = o, !.pointer = 1, !.buffer[0] = Rest]
  BY <1>4, <1>5 DEF Update, PushName
<1>7. new.state = "filename" /\ new.name = o /\ new.last_command = ch.last_command
  BY <1>4, <1>5, <1>6 DEF ChannelStates
<1> HIDE DEF new, ch
<1>8. ~Live(new)
  BY <1>7 DEF Live
<1> QED
  BY <1>2, <1>3, <1>7, <1>8 DEF Matches, StaysGood, Fresh, new, ch

LEMMA CourseByte ==
  ASSUME TypeInv, ReaderInv, NEW y \in Nat, current' = current, PushByte(y),
         NEW v, NEW x, Matches(current, v), Turn(current, v, <<"byte", y>>, x)
  PROVE  Matches(current, x)' /\ StaysGood(current)
<1> DEFINE t == <<"byte", y>>
           ch == chan[current]
           new == chan'[current]
           with == [ch EXCEPT !.buffer[ch.pointer] = y]
<1>1. t[1] = "byte" /\ Turn(current, v, t, x)
  OBVIOUS
<1> HIDE DEF t
<1>2. v.at = current /\ v.cmd = ch.last_command /\ v.name = ch.name
  BY DEF Matches
<1>3. /\ x.at = current /\ x.cmd = v.cmd /\ x.name = v.name /\ x.mode = v.mode
      /\ v.mode = "write"
  BY <1>1, <1>2 DEF Turn, Ends, Commands
<1>4. ch.state = "file" /\ ch.write
  BY <1>3 DEF Matches
<1>5. chan \in [Channels -> ChannelStates] /\ ch \in ChannelStates /\ current \in Channels
  BY DEF TypeInv
<1>6. \/ new = [with EXCEPT !.pointer = 0]
      \/ new = [with EXCEPT !.pointer = @ + 1]
  BY <1>4, <1>5 DEF PushByte, Update
<1>7. /\ with.state = ch.state /\ with.name = ch.name /\ with.last_command = ch.last_command
      /\ with.write = ch.write
      /\ new.state = ch.state /\ new.name = ch.name /\ new.last_command = ch.last_command
      /\ new.write = ch.write
  BY <1>5, <1>6 DEF ChannelStates
<1> HIDE DEF new, ch
<1>8. ~Live(new)
  BY <1>4, <1>7 DEF Live
<1> QED
  BY <1>2, <1>3, <1>4, <1>7, <1>8 DEF Matches, StaysGood, Fresh, new, ch

LEMMA CourseEnd ==
  ASSUME TypeInv, ReaderInv, FilesHaveBytes, current' = current, PushEnd,
         NEW v \in Courses, NEW x, Matches(current, v), Turn(current, v, <<"end">>, x)
  PROVE  Matches(current, x)' /\ StaysGood(current)
<1> DEFINE t == <<"end">>
           ch == chan[current]
           new == chan'[current]
<1>1. t[1] = "end" /\ Turn(current, v, t, x)
  OBVIOUS
<1> HIDE DEF t
<1>2. v.at = current /\ v.cmd = ch.last_command /\ v.name = ch.name
  BY DEF Matches
<1>3. chan \in [Channels -> ChannelStates] /\ ch \in ChannelStates /\ current \in Channels
  BY DEF TypeInv
<1>4. CASE ch.last_command # "open"
  <2>1. UNCHANGED chan
    BY <1>4 DEF PushEnd
  <2>2. /\ x.at = current /\ x.cmd = v.cmd /\ x.name = v.name /\ x.mode = v.mode
        /\ x.pos = v.pos
    BY <1>1, <1>2, <1>4 DEF Turn, Ends, Commands
  <2>3. new = ch
    BY <2>1
  <2> QED
    BY <1>3, <2>2, <2>3, NotTouched
<1>5. CASE ch.last_command = "open"
  <2>1. PICK fail \in ReadFails : new = open_file(ch, fail)
    BY <1>3, <1>5 DEF PushEnd, Update
  <2>2. fail \in BOOLEAN
    BY TalkAssumption
  <2>3. /\ x.at = current /\ x.cmd = v.cmd /\ x.name = v.name /\ x.mode = v.name.kind
        /\ x.pos = 0 /\ v.mode = "naming" /\ v.name \in Openings
    BY <1>1, <1>2, <1>5 DEF Turn, Ends, Commands
  <2>4. new.last_command = ch.last_command /\ new.name = ch.name
    BY <1>3, <2>1, <2>2, OpenFile
  <2>5. ch.name \in Openings /\ ch.name.kind \in Kinds
    BY <1>2, <2>3, OpeningIs
  <2>6. CASE ch.name.kind \in {"file", "dir"}
    <3>1. ch.name.length > 0
      <4>1. ch.name.kind = "dir" => \E m \in Nat : m >= 2 /\ ch.name.length = Block * m
        BY <2>5, OpeningIs
      <4>2. \A m \in Nat : m >= 2 => Block * m > 0
        <5>1. SUFFICES ASSUME NEW m \in Nat, m >= 2 PROVE Block * m > 0
          OBVIOUS
        <5>2. Block * m = Block + Block * (m - 1) /\ m - 1 \in Nat
          BY BlockFacts, <5>1
        <5>3. Block * (m - 1) \in Nat
          BY BlockFacts, <5>2
        <5> QED
          BY BlockFacts, <5>2, <5>3
      <4> QED
        BY <2>5, <2>6, <4>1, <4>2 DEF FilesHaveBytes
    <3>2. \/ new.state = "error"
          \/ Live(new) /\ Reader(new) /\ new.state = ch.name.kind /\ Pos(new) = 0 /\ Fresh(new)
      BY <1>3, <2>1, <2>2, <2>5, <2>6, <3>1, OpenReads
    <3> HIDE DEF new, ch
    <3>3. StaysGood(current)
      BY <3>2 DEF StaysGood, Live, Fresh, new
    <3>4. Matches(current, x)'
      BY <1>2, <2>3, <2>4, <2>6, <3>2 DEF Matches, new, ch
    <3> QED
      BY <3>3, <3>4
  <2>7. CASE ch.name.kind = "write"
    <3>1. Writing(new)
      BY <1>3, <2>1, <2>2, <2>7, OpenFile
    <3> HIDE DEF new, ch
    <3>2. new.state = "file" /\ new.write /\ ~Live(new)
      BY <3>1 DEF Writing, Live
    <3> QED
      BY <1>2, <2>3, <2>4, <2>7, <3>2 DEF Matches, StaysGood, Fresh, new, ch
  <2>8. CASE ch.name.kind = "missing"
    <3>1. new = [ch EXCEPT !.state = "error", !.write = FALSE]
      BY <2>1, <2>8 DEF open_file
    <3>2. new.state = "error"
      BY <1>3, <3>1 DEF ChannelStates
    <3> HIDE DEF new, ch
    <3>3. ~Live(new)
      BY <3>2 DEF Live
    <3> QED
      BY <1>2, <2>3, <2>4, <2>8, <3>2, <3>3 DEF Matches, StaysGood, Fresh, new, ch
  <2> QED
    BY <2>5, <2>6, <2>7, <2>8 DEF Kinds
<1> QED
  BY <1>4, <1>5

(* A byte that the host took; the channel moves on, if it still can. *)
LEMMA CoursePopped ==
  ASSUME TypeInv, ReaderInv, current' = current, NEW fail \in BOOLEAN,
         Update(current, pop_data(chan[current], fail)),
         NEW v \in Courses, NEW x, Matches(current, v), Turn(current, v, <<"popped">>, x)
  PROVE  /\ Matches(current, x)' /\ (Live(chan'[current]) => Reader(chan'[current]))
         /\ IF Live(chan[current])
            THEN \/ chan'[current].state = "error"
                 \/ chan'[current].state = "complete"
                      /\ Pos(chan[current]) + 1 = chan[current].name.length
                 \/ NextByte(chan[current], chan'[current])
            ELSE chan'[current] = chan[current]
         /\ SameFile(chan[current], chan'[current])
<1> DEFINE t == <<"popped">>
           ch == chan[current]
           new == chan'[current]
<1>1. t[1] = "popped" /\ Turn(current, v, t, x)
  OBVIOUS
<1> HIDE DEF t
<1>2. v.at = current /\ v.cmd = ch.last_command /\ v.name = ch.name
  BY DEF Matches
<1>3. /\ x.at = current /\ x.cmd = v.cmd /\ x.name = v.name /\ x.mode = v.mode
      /\ x.pos = v.pos + 1 /\ v.mode \in {"file", "dir"} /\ v.pos < v.name.length
  BY <1>1, <1>2 DEF Turn, Ends, Commands
<1>4. /\ chan \in [Channels -> ChannelStates] /\ ch \in ChannelStates /\ current \in Channels
      /\ v.pos \in Nat /\ (Live(ch) => Reader(ch))
  BY DEF TypeInv, Courses, ReaderInv
<1>5. new = pop_data(ch, fail)
  BY <1>4 DEF Update
<1>6. CASE Live(ch)
  <2>1. ch.state = v.mode /\ v.pos = Pos(ch)
    BY <1>3, <1>6 DEF Matches, Live
  <2>2. /\ SameFile(ch, new)
        /\ \/ new.state = "error"
           \/ new.state = "complete" /\ Pos(ch) + 1 = ch.name.length
           \/ NextByte(ch, new)
    BY <1>4, <1>5, <1>6, PopReads
  <2> HIDE DEF new, ch
  <2>3. Live(new) => Reader(new)
    BY <2>2 DEF NextByte, Live
  <2>4. Matches(current, x)'
    BY <1>2, <1>3, <2>1, <2>2 DEF Matches, SameFile, NextByte, new, ch
  <2> QED
    BY <1>6, <2>2, <2>3, <2>4 DEF new, ch
<1>7. CASE ~Live(ch)
  <2>1. ch.state = "error" \/ (ch.state = "complete" /\ v.pos = v.name.length)
    BY <1>3, <1>7 DEF Matches
  <2>2. v.name.length \in Nat
    BY DEF Courses, Names
  <2>3. ch.state = "error"
    BY <1>3, <1>4, <2>1, <2>2
  <2>4. new = ch
    BY <1>5, <2>3 DEF pop_data
  <2> HIDE DEF new, ch
  <2>5. Matches(current, x)'
    BY <1>2, <1>3, <2>3, <2>4 DEF Matches, new, ch
  <2> QED
    BY <1>7, <2>4, <2>5 DEF SameFile, new, ch
<1> QED
  BY <1>6, <1>7

LEMMA ResetReads ==
  ASSUME NEW ch \in ChannelStates, Live(ch) => Reader(ch)
  PROVE  /\ SameFile(ch, reset_prefetch(ch)) /\ reset_prefetch(ch).state = ch.state
         /\ Live(reset_prefetch(ch)) = Live(ch) /\ Pos(reset_prefetch(ch)) = Pos(ch)
         /\ Live(ch) => Reader(reset_prefetch(ch))
         /\ Fresh(reset_prefetch(ch))
<1> DEFINE new == reset_prefetch(ch)
<1>1. new = [ch EXCEPT !.prefetch = ch.pointer]
  BY DEF reset_prefetch
<1>2. /\ new.state = ch.state /\ new.block = ch.block /\ new.name = ch.name
      /\ new.last_byte = ch.last_byte /\ new.size = ch.size /\ new.buffer = ch.buffer
      /\ new.prefetch_max = ch.prefetch_max /\ new.pointer = ch.pointer
      /\ new.prefetch = ch.pointer /\ new.write = ch.write
      /\ new.last_command = ch.last_command
  BY <1>1 DEF ChannelStates
<1> HIDE DEF new
<1>3. Live(new) = Live(ch) /\ Pos(new) = Pos(ch) /\ Fresh(new)
  BY <1>2 DEF Live, Pos, Base, Fresh
<1>4. Live(ch) => Reader(new)
  <2>1. Live(ch) => Pos(new) < ch.name.length
    BY <1>3 DEF Reader
  <2> QED
    BY <1>2, <2>1, SameBuffer
<1> QED
  BY <1>2, <1>3, <1>4 DEF SameFile, new

(* What handling a token does to the channels *)
Popping ==
  /\ IF Live(chan[current])
     THEN \/ chan'[current].state = "error"
          \/ chan'[current].state = "complete"
               /\ Pos(chan[current]) + 1 = chan[current].name.length
          \/ NextByte(chan[current], chan'[current])
     ELSE chan'[current] = chan[current]
  /\ SameFile(chan[current], chan'[current])

Effect(c, t) ==
  /\ Live(chan'[c]) => Reader(chan'[c])
  /\ t[1] # "popped" \/ c # current => (Fresh(chan[c]) => Fresh(chan'[c]))
  /\ t[1] = "popped" /\ c = current => Popping
  /\ t[1] = "atn" /\ talking /\ c = current => Fresh(chan'[c])
  /\ t[1] = "ready" => chan'[c] = chan[c]

LEMMA CourseStep ==
  ASSUME TypeInv, ReaderInv, FilesHaveBytes, Handle, NEW c \in Channels,
         NEW v \in Courses, NEW x, Matches(c, v), Turn(c, v, Head(up), x)
  PROVE  Matches(c, x)' /\ Effect(c, Head(up))
<1> DEFINE t == Head(up)
<1>1. /\ up \in Seq(Tokens) /\ up # <<>> /\ t \in Tokens /\ current \in Channels
      /\ chan \in [Channels -> ChannelStates] /\ chan[current] \in ChannelStates
      /\ (Live(chan[current]) => Reader(chan[current])) /\ (Live(chan[c]) => Reader(chan[c]))
  BY HeadTailProperties DEF TypeInv, ReaderInv, Handle
<1>2. CASE t[1] \in Commands
  <2>1. PICK a \in Commands, d \in Channels : t = <<a, d>>
    BY <1>1, <1>2 DEF Tokens, Signals, Commands
  <2>2. PushCommand(a, d) /\ current' = d
    BY <2>1 DEF Handle, Commands
  <2>3. Matches(c, x)' /\ StaysGood(c)
    BY <2>1, <2>2, CourseCommand
  <2>4. t[1] \notin {"popped", "atn", "ready"}
    BY <1>2 DEF Commands
  <2> QED
    BY <2>3, <2>4 DEF StaysGood, Effect
<1>3. CASE t[1] \in {"name", "byte", "end"}
  <2>1. current' = current
    BY <1>3 DEF Handle
  <2>2. CASE c # current
    <3>1. chan'[c] = chan[c]
      BY <1>1, <1>3, <2>2 DEF Handle, PushByte, PushEnd, Update
    <3>2. Matches(c, x)' /\ StaysGood(c)
      BY <1>3, <2>1, <2>2, <3>1, CourseElsewhere DEF Commands
    <3> QED
      BY <1>3, <3>2 DEF StaysGood, Effect
  <2>3. CASE c = current
    <3>1. Matches(c, x)' /\ StaysGood(c)
      <4>1. CASE t[1] = "name"
        <5>1. PICK o \in Openings : t = <<"name", o>>
          BY <1>1, <4>1 DEF Tokens, Signals, Commands
        <5>2. Update(current, PushName(chan[current], o))
          BY <5>1 DEF Handle
        <5> QED
          BY <2>1, <2>3, <5>1, <5>2, CourseName
      <4>2. CASE t[1] = "byte"
        <5>1. PICK y \in Nat : t = <<"byte", y>>
          BY <1>1, <4>2 DEF Tokens, Signals, Commands
        <5>2. PushByte(y)
          BY <5>1 DEF Handle
        <5> QED
          BY <2>1, <2>3, <5>1, <5>2, CourseByte
      <4>3. CASE t[1] = "end"
        <5>1. t = <<"end">>
          BY <1>1, <4>3 DEF Tokens, Signals, Commands
        <5>2. PushEnd
          BY <5>1 DEF Handle
        <5> QED
          BY <2>1, <2>3, <5>1, <5>2, CourseEnd
      <4> QED
        BY <1>3, <4>1, <4>2, <4>3
    <3> QED
      BY <1>3, <3>1 DEF StaysGood, Effect
  <2> QED
    BY <2>2, <2>3
<1>4. CASE t[1] = "popped"
  <2>1. PICK fail \in ReadFails : Update(current, pop_data(chan[current], fail))
    BY <1>4 DEF Handle
  <2>2. current' = current /\ fail \in BOOLEAN
    <3>1. current' = current
      BY <1>4 DEF Handle
    <3>2. fail \in BOOLEAN
      BY <2>1, TalkAssumption
    <3> QED
      BY <3>1, <3>2
  <2>3. CASE c # current
    <3>1. chan'[c] = chan[c]
      BY <1>1, <2>1, <2>3 DEF Update
    <3>2. Matches(c, x)' /\ StaysGood(c)
      BY <1>4, <2>2, <2>3, <3>1, CourseElsewhere DEF Commands
    <3> QED
      BY <1>4, <2>3, <3>2 DEF StaysGood, Effect
  <2>4. CASE c = current
    <3>1. t = <<"popped">>
      BY <1>1, <1>4 DEF Tokens, Signals, Commands
    <3>2. Matches(current, x)' /\ (Live(chan'[current]) => Reader(chan'[current])) /\ Popping
      BY <2>1, <2>2, <2>4, <3>1, CoursePopped DEF Popping
    <3>3. Effect(c, t)
      <4>1. t[1] = "popped" /\ t[1] # "atn" /\ t[1] # "ready"
        BY <1>4
      <4>2. Live(chan'[c]) => Reader(chan'[c])
        BY <2>4, <3>2
      <4> HIDE DEF t
      <4> QED
        BY <2>4, <3>2, <4>1, <4>2 DEF Effect
    <3> QED
      BY <2>2, <2>4, <3>2, <3>3
  <2> QED
    BY <2>3, <2>4
<1>5. CASE t[1] \in {"atn", "released", "ready"}
  <2>1. current' = current /\ t[1] \notin Commands
    BY <1>5 DEF Handle, Commands
  <2>2. /\ x.at = v.at /\ x.cmd = v.cmd /\ x.name = v.name /\ x.mode = v.mode /\ x.pos = v.pos
    BY <1>5 DEF Turn, Ends, Commands
  <2>3. CASE t[1] = "atn" /\ talking /\ c = current
    <3>1. chan'[c] = reset_prefetch(chan[c])
      BY <1>1, <2>3 DEF Handle, Update
    <3> DEFINE ch == chan[c]
               new == chan'[c]
    <3>2. /\ SameFile(ch, new) /\ new.state = ch.state
          /\ Live(new) = Live(ch) /\ Pos(new) = Pos(ch)
          /\ Live(ch) => Reader(new)
          /\ Fresh(new)
      BY <1>1, <3>1, ResetReads
    <3>3. Effect(c, t)
      <4> HIDE DEF ch, new
      <4> QED
        BY <2>3, <3>2 DEF Effect, new
    <3>4. Matches(c, x)'
      <4> HIDE DEF ch, new
      <4> QED
        BY <2>1, <2>2, <3>2 DEF Matches, SameFile, new, ch
    <3> QED
      BY <3>3, <3>4
  <2>4. CASE ~(t[1] = "atn" /\ talking /\ c = current)
    <3>1. chan'[c] = chan[c]
      BY <1>1, <1>5, <2>4 DEF Handle, Update
    <3>2. v.at = current
      BY DEF Matches
    <3>3. Matches(c, x)' /\ StaysGood(c)
      BY <2>1, <2>2, <3>1, <3>2, NotTouched
    <3> QED
      BY <1>5, <2>4, <3>1, <3>3 DEF StaysGood, Effect
  <2> QED
    BY <2>3, <2>4
<1> QED
  BY <1>1, <1>2, <1>3, <1>4, <1>5, TokenIs DEF Signals

LEMMA HandleCourses ==
  ASSUME TypeInv, ReaderInv, CourseInv, FilesHaveBytes, Handle
  PROVE  CourseInv' /\ ReaderInv' /\ \A c \in Channels : Effect(c, Head(up))
<1>1. /\ up \in Seq(Tokens) /\ up # <<>> /\ up' = Tail(up)
      /\ UNCHANGED <<bus, opened, out, on>>
  BY DEF TypeInv, Handle, host
<1>2. ASSUME NEW c \in Channels
      PROVE  /\ \E x, w \in Courses : Matches(c, x)' /\ Runs(c, x, up', w) /\ HostCourse(c, w)'
             /\ Effect(c, Head(up))
  <2>1. PICK v, w \in Courses : Matches(c, v) /\ Runs(c, v, up, w) /\ HostCourse(c, w)
    BY DEF CourseInv
  <2>2. PICK x \in Courses : Turn(c, v, Head(up), x) /\ Runs(c, x, Tail(up), w)
    BY <1>1, <2>1, RunsTail
  <2>3. Matches(c, x)' /\ Effect(c, Head(up))
    BY <2>1, <2>2, CourseStep
  <2>4. HostCourse(c, w)'
    BY <1>1, <2>1 DEF HostCourse
  <2> QED
    BY <1>1, <2>2, <2>3, <2>4
<1> QED
  BY <1>2 DEF CourseInv, ReaderInv, Effect, Runs

(****************************************************************************)
(* The phases, while the task handles tokens                                *)
(****************************************************************************)
LEMMA HeadAndTail ==
  ASSUME TypeInv, up # <<>>, up' = Tail(up)
  PROVE  /\ Head(up) = up[1] /\ Head(up) \in Tokens /\ Len(up) \in Nat /\ Len(up) >= 1
         /\ up' \in Seq(Tokens) /\ Len(up') = Len(up) - 1
         /\ \A i \in 1 .. Len(up') : up'[i] = up[i + 1] /\ i + 1 \in 1 .. Len(up)
         /\ 1 \in 1 .. Len(up)
<1>1. up \in Seq(Tokens)
  BY DEF TypeInv
<1>2. /\ Len(up) \in Nat /\ Len(up) >= 1 /\ Head(up) = up[1] /\ up' \in Seq(Tokens)
      /\ Len(up') = Len(up) - 1
      /\ \A i \in 1 .. Len(up') : up'[i] = up[i + 1]
  BY <1>1, HeadTailProperties, LenProperties, EmptySeq
<1>3. 1 \in 1 .. Len(up) /\ up[1] \in Tokens
  BY <1>1, <1>2
<1> QED
  BY <1>2, <1>3

(* What the host has got of a channel that is read, and that it asked for more *)
LEMMA MoreToTake ==
  ASSUME TypeInv, HostInv, bus = "talk", opened[on].kind \in {"file", "dir"}
  PROVE  /\ Taken \in Nat /\ opened[on].length \in Nat /\ Taken < opened[on].length
<1>1. on \in Channels /\ opened \in [Channels -> Names] /\ out \in [Channels -> Seq(Int)]
  BY DEF TypeInv, HostInv
<1>2. Taken \in Nat /\ opened[on].length \in Nat
  BY <1>1, LenProperties DEF Taken, Names
<1>3. Taken <= opened[on].length /\ (ended[on] <=> Taken = opened[on].length) /\ ~ended[on]
  BY <1>1 DEF HostInv, Taken
<1> QED
  BY <1>2, <1>3

LEMMA StreamingHandle ==
  ASSUME TypeInv, ReaderInv, HostInv, Handle, Streaming,
         \A c \in Channels : Effect(c, Head(up))
  PROVE  Streaming'
<1> DEFINE ch == chan[on]
           new == chan'[on]
<1>1. /\ up # <<>> /\ up' = Tail(up) /\ UNCHANGED <<bus, down, pc, opened, out, on>>
  BY DEF Handle, host
<1>2. /\ Head(up) = up[1] /\ Len(up) \in Nat /\ Len(up) >= 1 /\ Len(up') = Len(up) - 1
      /\ \A i \in 1 .. Len(up') : up'[i] = up[i + 1] /\ i + 1 \in 1 .. Len(up)
      /\ 1 \in 1 .. Len(up)
  BY <1>1, HeadAndTail
<1>3. Head(up) = <<"popped">>
  BY <1>2 DEF Streaming
<1>4. Head(up)[1] = "popped"
  BY <1>3
<1>5. UNCHANGED <<flush, talking, current>>
  BY <1>4 DEF Handle
<1>6. on \in Channels /\ current = on
  BY DEF TypeInv, Streaming
<1>7. Popping /\ (Live(new) => Reader(new))
  BY <1>4, <1>6 DEF Effect
<1>8. /\ IF Live(ch)
         THEN \/ new.state = "error"
              \/ new.state = "complete" /\ Pos(ch) + 1 = ch.name.length
              \/ NextByte(ch, new)
         ELSE new = ch
      /\ new.name = ch.name
  BY <1>6, <1>7 DEF Popping, SameFile
<1>9. /\ ch \in ChannelStates /\ (Live(ch) => Reader(ch))
      /\ down \in Seq(Bytes) /\ Len(down) \in Nat /\ out \in [Channels -> Seq(Int)]
  BY <1>6, LenProperties DEF TypeInv, ReaderInv, HostInv
<1>10. Taken \in Nat /\ Taken' = Taken /\ LastBlock' = LastBlock
  BY <1>1, <1>6, <1>9, LenProperties DEF Taken, LastBlock
<1>11. Live(ch) => /\ ch.name = opened[on] /\ Pos(ch) + Len(up) = Taken
                   /\ Pos(ch) = Base(ch) + ch.pointer
                   /\ Base(ch) \in Nat /\ Pos(ch) \in Nat /\ ch.prefetch \in 0 .. Block
                   /\ opened[on].kind \in {"file", "dir"} /\ Block \in Nat
  BY <1>9, ReaderIs, ChannelIs, BlockFacts DEF Streaming, Reader, Live
<1>12. Live(new) => Live(ch) /\ NextByte(ch, new)
  BY <1>8 DEF Live
<1>13. Live(new) => new.name = opened[on] /\ Pos(new) + Len(up') = Taken
  <2> HIDE DEF ch, new
  <2> QED
    BY <1>2, <1>8, <1>10, <1>11, <1>12 DEF NextByte
<1>14. \A i \in 1 .. Len(up') : up'[i] = <<"popped">>
  BY <1>2 DEF Streaming
<1>15. ASSUME NEW c \in Channels \ {on} PROVE Fresh(chan'[c])
  BY <1>6 DEF Effect, Streaming
<1>16. ASSUME bus = "talk" PROVE Talk'
  <2>1. /\ Live(ch) \/ ch.state = "error"
        /\ \A i \in 1 .. Len(down) : GoodEntry(i)
        /\ Live(ch) => IF talking
                     THEN /\ Base(ch) + ch.prefetch = Taken + Len(down)
                          /\ Taken + Len(down) < opened[on].length
                     ELSE /\ ch.last_byte # -1
                          /\ Taken + Len(down) = opened[on].length
    BY <1>16 DEF Streaming, Talk
  <2>2. Live(ch) => Taken < opened[on].length /\ opened[on].length \in Nat
    BY <1>11, <1>16, MoreToTake
  <2>3. Live(ch) => Pos(ch) + 1 <= Taken
    <3> HIDE DEF ch
    <3> QED
      BY <1>2, <1>10, <1>11
  <2>4. Live(new) \/ new.state = "error"
    <3> HIDE DEF ch, new
    <3> QED
      BY <1>8, <1>10, <1>11, <2>1, <2>2, <2>3 DEF NextByte
  <2>5. ch.state = "error" => new.state = "error"
    <3>1. ch.state = "error" => ~Live(ch)
      BY DEF Live
    <3> QED
      BY <1>8, <3>1
  <2>6. \A i \in 1 .. Len(down) : GoodEntry(i)'
    <3> HIDE DEF Taken
    <3> QED
      BY <1>1, <1>10, <2>1, <2>5 DEF GoodEntry
  <2>7. Live(new) => IF talking
                     THEN /\ Base(new) + new.prefetch = Taken + Len(down)
                          /\ Taken + Len(down) < opened[on].length
                     ELSE /\ new.last_byte # -1
                          /\ Taken + Len(down) = opened[on].length
    <3>1. SUFFICES ASSUME Live(new) PROVE IF talking
                     THEN /\ Base(new) + new.prefetch = Taken + Len(down)
                          /\ Taken + Len(down) < opened[on].length
                     ELSE /\ new.last_byte # -1
                          /\ Taken + Len(down) = opened[on].length
      OBVIOUS
    <3>2. Live(ch)
      BY <1>12, <3>1
    <3>3. \/ /\ ch.pointer = Block - 1 /\ ch.last_byte = -1
             /\ new.prefetch = 0 /\ Base(new) = Base(ch) + Block
          \/ /\ new.prefetch = ch.prefetch
             /\ new.last_byte = ch.last_byte
             /\ Base(new) = Base(ch)
      BY <1>12, <3>1 DEF NextByte
    <3>4. /\ Pos(ch) = Base(ch) + ch.pointer /\ Base(ch) \in Nat /\ Pos(ch) \in Nat
          /\ ch.prefetch \in 0 .. Block /\ Block \in Nat
          /\ Len(down) \in Nat /\ Taken \in Nat /\ Pos(ch) + 1 <= Taken
      BY <1>9, <1>10, <1>11, <2>3, <3>2
    <3>5. IF talking
          THEN /\ Base(ch) + ch.prefetch = Taken + Len(down)
               /\ Taken + Len(down) < opened[on].length
          ELSE /\ ch.last_byte # -1
               /\ Taken + Len(down) = opened[on].length
      BY <2>1, <3>2
    <3> HIDE DEF ch, new, Taken
    <3>6. CASE talking
      <4>1. /\ Base(ch) + ch.prefetch = Taken + Len(down)
            /\ Taken + Len(down) < opened[on].length
        BY <3>5, <3>6
      <4>2. CASE new.prefetch = 0 /\ ch.pointer = Block - 1 /\ Base(new) = Base(ch) + Block
        <5>1. ch.prefetch = Block /\ Len(down) = 0
          BY <3>4, <4>1, <4>2
        <5>2. Base(new) + new.prefetch = Taken + Len(down)
          BY <3>4, <4>1, <4>2, <5>1
        <5> QED
          BY <3>6, <4>1, <5>2
      <4>3. CASE new.prefetch = ch.prefetch /\ Base(new) = Base(ch)
        BY <3>6, <4>1, <4>3
      <4> QED
        BY <3>3, <4>2, <4>3
    <3>7. CASE ~talking
      BY <3>3, <3>5, <3>7
    <3> QED
      BY <3>6, <3>7
  <2> QED
    BY <1>1, <1>5, <1>10, <2>4, <2>6, <2>7 DEF Talk
<1>17. ASSUME bus = "free" PROVE Paused'
  <2>1. Live(ch) => IF talking THEN Taken < LastBlock ELSE Taken = opened[on].length
    BY <1>17 DEF Streaming, Paused
  <2> QED
    BY <1>1, <1>5, <1>10, <1>12, <2>1 DEF Paused
<1>18. ~flush /\ bus # "attention"
  BY DEF Streaming
<1> QED
  BY <1>1, <1>5, <1>6, <1>10, <1>13, <1>14, <1>15, <1>16, <1>17, <1>18 DEF Streaming

LEMMA FlushingHandle ==
  ASSUME TypeInv, TypeInv', ReaderInv, Handle, Flushing, \A c \in Channels : Effect(c, Head(up))
  PROVE  Flushing' \/ Settled'
<1> DEFINE ch == chan[current]
           new == chan'[current]
<1>1. up # <<>> /\ up' = Tail(up) /\ pc = "rx" /\ pc' = "rx"
  BY DEF Handle
<1>2. /\ Head(up) = up[1] /\ Len(up) \in Nat /\ Len(up) >= 1 /\ Len(up') = Len(up) - 1
      /\ \A i \in 1 .. Len(up') : up'[i] = up[i + 1] /\ i + 1 \in 1 .. Len(up)
      /\ 1 \in 1 .. Len(up)
  BY <1>1, HeadAndTail
<1>3. PICK k \in 0 .. Len(up) :
       /\ \A i \in 1 .. k : up[i] = <<"popped">>
       /\ \A i \in k + 1 .. Len(up) : up[i][1] # "popped"
       /\ k < Len(up) => up[k + 1] = <<"atn">>
       /\ Live(ch) => IF talking THEN InBuffer(ch) ELSE Pos(ch) + k = ch.name.length
  BY DEF Flushing
<1>4. flush /\ current \in Channels /\ \A c \in Channels \ {current} : Fresh(chan[c])
  BY DEF TypeInv, Flushing
<1>5. ch \in ChannelStates /\ (Live(ch) => Reader(ch))
  BY <1>4 DEF TypeInv, ReaderInv
<1>6. Live(ch) => /\ Pos(ch) \in Nat /\ ch.name.length \in Nat /\ Pos(ch) < ch.name.length
                  /\ ch.last_byte \in -1 .. Block - 1 /\ Block \in Nat
  BY <1>5, ReaderIs, ChannelIs, BlockFacts
<1>7. CASE k = 0
  <2>1. Head(up) = <<"atn">>
    BY <1>2, <1>3, <1>7
  <2>2. Head(up)[1] = "atn"
    BY <2>1
  <2>3. flush' = flush /\ talking' = FALSE /\ current' = current
    BY <2>2 DEF Handle
  <2>4. ASSUME NEW i \in 1 .. Len(up') PROVE up'[i][1] # "popped"
    BY <1>2, <1>3, <1>7
  <2>5. ASSUME NEW c \in Channels PROVE Fresh(chan'[c])
    <3>1. CASE c = current /\ talking
      BY <2>2, <3>1 DEF Effect
    <3>2. CASE ~(c = current /\ talking)
      <4>1. Fresh(chan[c])
        <5>1. CASE c # current
          BY <1>4, <5>1
        <5>2. CASE c = current
          <6>1. ~Live(ch)
            BY <1>3, <1>6, <1>7, <3>2, <5>2
          <6> QED
            BY <5>2, <6>1 DEF Fresh
        <5> QED
          BY <5>1, <5>2
      <4> QED
        BY <2>2, <4>1 DEF Effect
    <3> QED
      BY <3>1, <3>2
  <2> QED
    BY <1>4, <2>3, <2>4, <2>5 DEF Settled
<1>8. CASE k # 0
  <2>1. Head(up) = <<"popped">>
    BY <1>2, <1>3, <1>8
  <2>2. Head(up)[1] = "popped"
    BY <2>1
  <2>3. flush' = flush /\ talking' = talking /\ current' = current
    BY <2>2 DEF Handle
  <2>4. k - 1 \in 0 .. Len(up')
    BY <1>2, <1>8
  <2>5. /\ \A i \in 1 .. k - 1 : up'[i] = <<"popped">>
        /\ \A i \in (k - 1) + 1 .. Len(up') : up'[i][1] # "popped"
        /\ k - 1 < Len(up') => up'[(k - 1) + 1] = <<"atn">>
    BY <1>2, <1>3, <1>8
  <2>6. ASSUME NEW c \in Channels \ {current} PROVE Fresh(chan'[c])
    BY <1>4 DEF Effect
  <2>7. /\ IF Live(ch)
           THEN \/ new.state = "error"
                \/ new.state = "complete" /\ Pos(ch) + 1 = ch.name.length
                \/ NextByte(ch, new)
           ELSE new = ch
        /\ new.name = ch.name
    BY <1>4, <2>2 DEF Effect, Popping, SameFile
  <2>8. Live(new) => Live(ch) /\ NextByte(ch, new)
    BY <2>7 DEF Live
  <2>9. Live(new) /\ talking => InBuffer(chan[current])'
    <3>1. SUFFICES ASSUME Live(new), talking
                   PROVE  new.last_byte = -1 \/ new.prefetch <= new.last_byte
      <4> HIDE DEF new
      <4>1. chan'[current'] = new /\ pc' # "put"
        BY <1>1, <2>3 DEF new
      <4> QED
        BY <4>1 DEF InBuffer
    <3>2. ch.last_byte = -1 \/ ch.prefetch <= ch.last_byte
      BY <1>3, <2>8, <3>1 DEF InBuffer
    <3>3. new \in ChannelStates
      BY <1>4 DEF TypeInv
    <3>4. new.last_byte \in -1 .. Block - 1 /\ Block \in Nat
      BY <3>3, ChannelIs, BlockFacts
    <3>5. \/ new.prefetch = 0
          \/ new.prefetch = ch.prefetch /\ new.last_byte = ch.last_byte
      BY <2>8, <3>1 DEF NextByte
    <3> HIDE DEF ch, new
    <3> QED
      BY <3>2, <3>4, <3>5
  <2>10. Live(new) /\ ~talking => Pos(new) + (k - 1) = new.name.length
    <3> HIDE DEF ch, new
    <3> QED
      BY <1>3, <1>6, <2>7, <2>8 DEF NextByte
  <2>11. chan'[current'] = new
    BY <2>3
  <2>12. flush' /\ \A c \in (Channels \ {current})' : Fresh(chan[c])'
    BY <1>4, <2>3, <2>6
  <2>13. Live(chan[current])' => IF talking' THEN InBuffer(chan[current])'
                                 ELSE Pos(chan[current])' + (k - 1) = (chan[current].name.length)'
    <3> HIDE DEF new
    <3> QED
      BY <2>3, <2>9, <2>10, <2>11
  <2> HIDE DEF ch, new
  <2> QED
    BY <2>4, <2>5, <2>12, <2>13 DEF Flushing
<1> QED
  BY <1>7, <1>8

LEMMA SettledHandle ==
  ASSUME TypeInv, TypeInv', HostInv, CourseInv', Handle, Settled,
         \A c \in Channels : Effect(c, Head(up))
  PROVE  Streaming' \/ Settled'
<1>1. /\ up # <<>> /\ up' = Tail(up) /\ pc = "rx" /\ pc' = "rx"
      /\ UNCHANGED <<bus, down, opened, out, ended, on, heard>>
  BY DEF Handle, host
<1>2. /\ Head(up) = up[1] /\ Len(up) \in Nat /\ Len(up) >= 1 /\ Len(up') = Len(up) - 1
      /\ \A i \in 1 .. Len(up') : up'[i] = up[i + 1] /\ i + 1 \in 1 .. Len(up)
      /\ 1 \in 1 .. Len(up)
  BY <1>1, HeadAndTail
<1>3. Head(up)[1] # "popped" /\ flush /\ ~talking
  BY <1>2 DEF Settled
<1>4. ASSUME NEW c \in Channels PROVE Fresh(chan'[c])
  BY <1>3 DEF Effect, Settled
<1>5. CASE Head(up)[1] # "ready"
  <2>1. flush' = flush /\ talking' = FALSE
    BY <1>3, <1>5 DEF Handle
  <2>2. ASSUME NEW i \in 1 .. Len(up') PROVE up'[i][1] # "popped"
    BY <1>2 DEF Settled
  <2> QED
    BY <1>3, <1>4, <2>1, <2>2 DEF Settled
<1>6. CASE Head(up)[1] = "ready"
  <2> DEFINE ch == chan'[on]
  <2>1. flush' = FALSE /\ talking' = TRUE /\ current' = current
    BY <1>6 DEF Handle
  <2>2. Len(up) = 1 /\ bus = "talk"
    BY <1>2, <1>6 DEF HostInv
  <2>3. Len(up') = 0 /\ on \in Channels /\ bus' = "talk" /\ on' = on
    BY <1>1, <1>2, <2>2 DEF TypeInv
  <2>4. PICK v, w \in Courses : Matches(on, v)' /\ Runs(on, v, up', w) /\ HostCourse(on, w)'
    BY <2>3 DEF CourseInv
  <2>5. w = v
    BY <2>3, <2>4, RunsNowhere
  <2>6. v.at = current' /\ w.at = on /\ w.mode = opened[on].kind
    BY <1>1, <2>3, <2>4 DEF Matches, HostCourse
  <2>7. current' = on
    BY <2>5, <2>6
  <2>8. ch \in ChannelStates /\ chan' \in [Channels -> ChannelStates]
    BY <2>3 DEF TypeInv
  <2>9. opened[on].kind \in {"file", "dir", "missing"}
    BY <2>2 DEF HostInv
  <2>10. opened[on].kind \in {"file", "dir"} =>
           /\ v.name = opened[on] /\ v.pos = Taken
           /\ ch.state = "error" \/ (ch.state = "complete" /\ v.pos = v.name.length)
              \/ (Live(ch) /\ v.pos = Pos(ch))
    BY <1>1, <2>3, <2>4, <2>5, <2>6 DEF Matches, HostCourse, Taken
  <2>11. opened[on].kind = "missing" => ch.state = "error"
    BY <1>1, <2>3, <2>4, <2>5, <2>6 DEF Matches
  <2>12. opened[on].kind \in {"file", "dir"} =>
           /\ Taken \in Nat /\ opened[on].length \in Nat /\ Taken < opened[on].length
    BY <2>2, MoreToTake
  <2>13. Live(ch) \/ ch.state = "error"
    <3> HIDE DEF ch
    <3> QED
      BY <2>9, <2>10, <2>11, <2>12
  <2>14. Live(ch) => /\ ch.name = opened[on] /\ Pos(ch) = Taken
                     /\ opened[on].kind \in {"file", "dir"}
    <3>1. ch.name = v.name
      BY <2>3, <2>4 DEF Matches
    <3>2. ch.state = "error" => ~Live(ch)
      BY DEF Live
    <3>3. ch.state = "complete" => ~Live(ch)
      BY DEF Live
    <3> HIDE DEF ch
    <3> QED
      BY <2>9, <2>10, <2>11, <3>1, <3>2, <3>3
  <2>15. Len(down) = 0
    BY <1>3 DEF TypeInv
  <2>16. Live(ch) => Base(ch) + ch.prefetch = Taken
    <3>1. Live(ch) => ch.prefetch = ch.pointer
      BY <1>4, <2>3 DEF Fresh
    <3> HIDE DEF ch
    <3> QED
      BY <2>14, <3>1 DEF Pos
  <2>17. Taken' = Taken /\ opened' = opened /\ down' = down
    BY <1>1 DEF Taken
  <2>18. Talk'
    <3>1. chan'[on'] = ch
      BY <2>3
    <3>2. \A i \in 1 .. Len(down') : GoodEntry(i)'
      BY <2>15, <2>17
    <3>3. Live(ch) => /\ Base(ch) + ch.prefetch = Taken + Len(down)
                      /\ Taken + Len(down) < opened[on].length
      BY <2>12, <2>14, <2>15, <2>16
    <3> HIDE DEF ch
    <3> QED
      BY <2>1, <2>3, <2>13, <2>17, <3>1, <3>2, <3>3 DEF Talk
  <2>19. \A i \in 1 .. Len(up') : up'[i] = <<"popped">>
    BY <2>3
  <2>20. Live(ch) => ch.name = opened[on] /\ Pos(ch) + Len(up') = Taken
    BY <2>3, <2>12, <2>14
  <2>21. chan'[on'] = ch
    BY <2>3
  <2>22. \A c \in (Channels \ {on})' : Fresh(chan[c])'
    BY <1>4
  <2> HIDE DEF ch
  <2> QED
    BY <2>1, <2>3, <2>7, <2>17, <2>18, <2>19, <2>20, <2>21, <2>22 DEF Streaming
<1> QED
  BY <1>5, <1>6

LEMMA HandleHost == TypeInv /\ HostInv /\ Handle => HostInv'
<1> SUFFICES ASSUME TypeInv, HostInv, Handle PROVE HostInv'
  OBVIOUS
<1>1. /\ up # <<>> /\ up' = Tail(up) /\ pc' = "rx"
      /\ UNCHANGED <<bus, opened, out, ended, on, heard>>
  BY DEF Handle, host
<1>2. /\ Head(up) = up[1] /\ Len(up) \in Nat /\ Len(up) >= 1 /\ Len(up') = Len(up) - 1
      /\ \A i \in 1 .. Len(up') : up'[i] = up[i + 1] /\ i + 1 \in 1 .. Len(up)
      /\ 1 \in 1 .. Len(up)
  BY <1>1, HeadAndTail
<1>3. flush' = FALSE \/ flush' = flush
  BY DEF Handle
<1>4. bus = "attention" => flush'
  <2>1. bus = "attention" => Head(up)[1] # "ready"
    BY <1>2 DEF HostInv
  <2> QED
    BY <2>1 DEF Handle, HostInv
<1>5. ASSUME NEW i \in 1 .. Len(up'), up'[i][1] = "ready"
      PROVE  i = Len(up') /\ bus = "talk"
  <2>1. up[i + 1][1] = "ready" /\ i + 1 \in 1 .. Len(up)
    BY <1>2, <1>5
  <2>2. i + 1 = Len(up) /\ bus = "talk"
    BY <2>1 DEF HostInv
  <2> QED
    BY <1>2, <2>2
<1>6. bus = "talk" => /\ opened[on].kind \in {"file", "dir", "missing"} /\ ~ended[on]
                      /\ heard => ~flush'
  BY <1>3 DEF HostInv
<1> QED
  BY <1>1, <1>4, <1>5, <1>6 DEF HostInv

LEMMA HandleStreams ==
  FilesHaveBytes /\ TypeInv /\ TypeInv' /\ StreamInv /\ Handle => StreamInv'
<1> SUFFICES ASSUME FilesHaveBytes, TypeInv, TypeInv', StreamInv, Handle PROVE StreamInv'
  OBVIOUS
<1>1. ReaderInv /\ CourseInv /\ HostInv /\ PhaseInv
  BY DEF StreamInv
<1>2. CourseInv' /\ ReaderInv' /\ \A c \in Channels : Effect(c, Head(up))
  BY <1>1, HandleCourses
<1>3. HostInv'
  BY <1>1, HandleHost
<1>4. ASSUME Streaming PROVE PhaseInv'
  BY <1>1, <1>2, <1>4, StreamingHandle DEF PhaseInv
<1>5. ASSUME Flushing PROVE PhaseInv'
  BY <1>1, <1>2, <1>5, FlushingHandle DEF PhaseInv
<1>6. ASSUME Settled PROVE PhaseInv'
  BY <1>1, <1>2, <1>6, SettledHandle DEF PhaseInv
<1>7. PhaseInv'
  BY <1>1, <1>4, <1>5, <1>6 DEF PhaseInv
<1> QED
  BY <1>2, <1>3, <1>7 DEF StreamInv

(****************************************************************************)
(* The task prefetches                                                      *)
(****************************************************************************)
(* The same place in the same file, with another prefetch pointer *)
SamePlace(ch, new) ==
  /\ SameFile(ch, new) /\ new.state = ch.state /\ new.block = ch.block
  /\ new.pointer = ch.pointer /\ new.last_byte = ch.last_byte /\ new.size = ch.size
  /\ new.buffer = ch.buffer /\ new.prefetch_max = ch.prefetch_max

LEMMA SamePlaceReads ==
  ASSUME NEW ch, NEW new, SamePlace(ch, new)
  PROVE  /\ Live(new) = Live(ch) /\ Pos(new) = Pos(ch) /\ Base(new) = Base(ch)
         /\ Reader(ch) => Reader(new)
<1>1. /\ new.state = ch.state /\ new.block = ch.block /\ new.name = ch.name
      /\ new.last_byte = ch.last_byte /\ new.size = ch.size /\ new.buffer = ch.buffer
      /\ new.prefetch_max = ch.prefetch_max /\ new.pointer = ch.pointer /\ new.write = ch.write
  BY DEF SamePlace, SameFile
<1>2. Live(new) = Live(ch) /\ Pos(new) = Pos(ch) /\ Base(new) = Base(ch)
  BY <1>1 DEF Live, Pos, Base
<1>3. Reader(ch) => Reader(new)
  <2>1. Reader(ch) => Pos(new) < ch.name.length
    BY <1>2 DEF Reader
  <2> QED
    BY <1>1, <2>1, SameBuffer
<1> QED
  BY <1>2, <1>3

LEMMA CourseKept ==
  ASSUME CourseInv, UNCHANGED <<current, up, opened, out, on>>,
         \A c \in Channels : SamePlace(chan[c], chan'[c]), bus' = "talk" => bus = "talk"
  PROVE  CourseInv'
<1>1. ASSUME NEW c \in Channels, NEW v \in Courses, Matches(c, v) PROVE Matches(c, v)'
  <2> DEFINE ch == chan[c]
             new == chan'[c]
  <2>1. SamePlace(ch, new)
    OBVIOUS
  <2> HIDE DEF ch, new
  <2>2. Live(new) = Live(ch) /\ Pos(new) = Pos(ch)
    BY <2>1, SamePlaceReads
  <2>3. /\ new.state = ch.state /\ new.name = ch.name /\ new.write = ch.write
        /\ new.last_command = ch.last_command
    BY <2>1 DEF SamePlace, SameFile
  <2> QED
    BY <1>1, <2>2, <2>3 DEF Matches, new, ch
<1>2. ASSUME NEW c \in Channels, NEW w \in Courses, HostCourse(c, w) PROVE HostCourse(c, w)'
  BY <1>2 DEF HostCourse
<1>3. ASSUME NEW c \in Channels
      PROVE  \E v, w \in Courses : Matches(c, v)' /\ Runs(c, v, up', w) /\ HostCourse(c, w)'
  <2>1. PICK v, w \in Courses : Matches(c, v) /\ Runs(c, v, up, w) /\ HostCourse(c, w)
    BY DEF CourseInv
  <2>2. Runs(c, v, up', w)
    BY <2>1
  <2> QED
    BY <1>1, <1>2, <2>1, <2>2
<1> QED
  BY <1>3 DEF CourseInv, Runs

LEMMA ReaderKept ==
  ASSUME ReaderInv, \A c \in Channels : SamePlace(chan[c], chan'[c])
  PROVE  ReaderInv'
BY SamePlaceReads DEF ReaderInv

LEMMA SamePlaceSelf == \A ch : SamePlace(ch, ch)
  BY DEF SamePlace, SameFile

LEMMA TransmitStreams ==
  StreamInv /\ (Transmit \/ ReadTxStatus) => StreamInv'
<1> SUFFICES ASSUME StreamInv, Transmit \/ ReadTxStatus PROVE StreamInv'
  OBVIOUS
<1>1. /\ ReaderInv /\ CourseInv /\ HostInv /\ PhaseInv
      /\ UNCHANGED <<bus, up, down, flush, talking, current, chan, stored>>
      /\ UNCHANGED <<opened, opens, out, ended, sent, heard, on>>
  BY DEF StreamInv, Transmit, ReadTxStatus, fifos, host
<1>2. \A c \in Channels : SamePlace(chan[c], chan'[c])
  BY <1>1, SamePlaceSelf
<1>3. CourseInv' /\ ReaderInv'
  BY <1>1, <1>2, CourseKept, ReaderKept
<1>4. talking
  BY <1>1 DEF Transmit, ReadTxStatus, HostInv
<1>5. HostInv'
  BY <1>1, <1>4 DEF HostInv
<1>6. pc' = "put" => ~flush
  BY DEF Transmit, ReadTxStatus
<1>7. Streaming => Streaming'
  <2>1. Talk => Talk'
    BY <1>1 DEF Talk, GoodEntry, Taken
  <2>2. Paused => Paused'
    BY <1>1 DEF Paused, Taken, LastBlock
  <2> QED
    BY <1>1, <2>1, <2>2 DEF Streaming, Taken
<1>8. Flushing => Flushing'
  <2>1. InBuffer(chan[current]) /\ flush => InBuffer(chan[current])'
    BY <1>1, <1>6 DEF InBuffer
  <2> QED
    BY <1>1, <2>1 DEF Flushing
<1>9. Settled => Settled'
  BY <1>1 DEF Settled
<1> QED
  BY <1>1, <1>3, <1>5, <1>7, <1>8, <1>9 DEF PhaseInv, StreamInv

(* Before the last block, the end is not in the buffer. *)
LEMMA EndIsFar ==
  ASSUME NEW ch \in ChannelStates, Reader(ch), NEW n \in Nat, Pos(ch) <= n,
         n < Block * ((ch.name.length - 1) \div Block)
  PROVE  ch.last_byte = -1
<1> DEFINE L == ch.name.length
           q == (L - 1) \div Block
           b == ch.block
<1>1. /\ b \in Nat /\ b * Block \in Nat /\ Base(ch) \in Nat
      /\ Base(ch) + Block = b * Block /\ Pos(ch) \in Nat
      /\ L \in Nat /\ Pos(ch) = Base(ch) + ch.pointer /\ Pos(ch) < L
      /\ ch.pointer \in 0 .. Block - 1 /\ ch.last_byte \in -1 .. Block - 1
      /\ ch.last_byte # -1 => ch.last_byte = L - 1 - Base(ch)
      /\ Block \in Nat /\ Block >= 2
  BY ReaderIs, ChannelIs, BlockFacts
<1>2. L - 1 \in Nat
  BY <1>1
<1>3. Block * q <= L - 1 /\ q \in Nat
  BY <1>1, <1>2
<1>4. n < Block * q
  OBVIOUS
<1> HIDE DEF q, L, b
<1>5. SUFFICES ASSUME ch.last_byte # -1 PROVE FALSE
  OBVIOUS
<1>6. L <= b * Block
  BY <1>1, <1>5
<1>7. Block * q < Block * b
  <2>1. b * Block = Block * b
    BY <1>1
  <2>2. Block * q \in Nat
    BY <1>1, <1>3
  <2> QED
    BY <1>1, <1>3, <1>6, <2>1, <2>2
<1>8. q * Block + Block <= Block * b
  <2>1. q * Block = Block * q
    BY <1>1, <1>3
  <2> QED
    BY <1>1, <1>3, <1>7, <2>1, NextBlock
<1>9. q * Block = Block * q /\ Block * q \in Nat /\ Block * b = b * Block
  BY <1>1, <1>3
<1> QED
  BY <1>1, <1>4, <1>8, <1>9

Prefetched(ch) == [ch EXCEPT !.prefetch = @ + 1]

LEMMA PrefetchedIs ==
  ASSUME NEW ch \in ChannelStates
  PROVE  SamePlace(ch, Prefetched(ch)) /\ Prefetched(ch).prefetch = ch.prefetch + 1
BY DEF ChannelStates, Prefetched, SamePlace, SameFile

(* What prefetch_data says of a channel that is read *)
LEMMA PrefetchData ==
  ASSUME NEW ch \in ChannelStates
  PROVE  /\ prefetch_data(ch) \in {"data", "last", "buffer_end", "error"}
         /\ ch.state = "error" => prefetch_data(ch) = "error"
         /\ ch.state # "error" =>
              /\ prefetch_data(ch) = "last" <=> ch.prefetch = ch.last_byte
              /\ prefetch_data(ch) = "data" =>
                   ch.prefetch # ch.last_byte /\ ch.prefetch < ch.prefetch_max
              /\ prefetch_data(ch) = "buffer_end" =>
                   ch.prefetch # ch.last_byte /\ ch.prefetch = ch.prefetch_max
              /\ prefetch_data(ch) = "error" => ch.prefetch > ch.prefetch_max
<1>1. ch.prefetch \in Nat /\ ch.prefetch_max \in Nat
  BY ChannelIs, BlockFacts
<1>2. ch.prefetch < ch.prefetch_max \/ ch.prefetch = ch.prefetch_max \/ ch.prefetch > ch.prefetch_max
  BY <1>1
<1>3. CASE ch.state = "error"
  <2>1. prefetch_data(ch) = "error"
    BY <1>3 DEF prefetch_data
  <2> QED
    BY <1>3, <2>1
<1>4. CASE ch.state # "error" /\ ch.prefetch = ch.last_byte
  <2>1. prefetch_data(ch) = "last"
    BY <1>4 DEF prefetch_data
  <2> QED
    BY <1>4, <2>1
<1>5. CASE ch.state # "error" /\ ch.prefetch # ch.last_byte
  <2>1. prefetch_data(ch) =
          CASE ch.prefetch < ch.prefetch_max -> "data"
            [] ch.prefetch = ch.prefetch_max -> "buffer_end"
            [] ch.prefetch > ch.prefetch_max -> "error"
    BY <1>5 DEF prefetch_data
  <2>2. /\ ch.prefetch < ch.prefetch_max => prefetch_data(ch) = "data"
        /\ ch.prefetch = ch.prefetch_max => prefetch_data(ch) = "buffer_end"
        /\ ch.prefetch > ch.prefetch_max => prefetch_data(ch) = "error"
    BY <1>1, <2>1
  <2> QED
    BY <1>2, <1>5, <2>2
<1> QED
  BY <1>3, <1>4, <1>5

(* The steps of Put, by what prefetch_data says *)
Sends(v, kind) ==
  /\ Send(v, kind) /\ chan' = [chan EXCEPT ![current] = Prefetched(@)]

LEMMA PutIs ==
  ASSUME TypeInv, Put
  PROVE  LET ch == chan[current]  st == prefetch_data(ch) IN
         /\ pc = "put" /\ pc' # "put" /\ UNCHANGED <<bus, up, flush, current>>
         /\ UNCHANGED <<opened, opens, out, ended, sent, heard, on>>
         /\ pc' # "rx" => talking'
         /\ talking' = (st \in {"data", "buffer_end"})
         /\ \A c \in Channels : SamePlace(chan[c], chan'[c])
         /\ st \in {"data", "last"} => Sends(ch.buffer[ch.prefetch], st)
         /\ st = "buffer_end" => UNCHANGED <<down, chan>>
         /\ st = "error" => Send(Rest, st) /\ UNCHANGED chan
<1> DEFINE ch == chan[current]
           st == prefetch_data(ch)
<1>1. current \in Channels /\ ch \in ChannelStates /\ chan \in [Channels -> ChannelStates]
  BY DEF TypeInv
<1>2. st \in {"data", "last", "buffer_end", "error"}
  BY <1>1, PrefetchData
<1>3. st \in {"data", "last"} => Sends(ch.buffer[ch.prefetch], st)
  <2>1. Prefetched(ch) = [ch EXCEPT !.prefetch = @ + 1]
    BY DEF Prefetched
  <2>2. st \in {"data", "last"} =>
          Send(ch.buffer[ch.prefetch], st) /\ Update(current, [ch EXCEPT !.prefetch = @ + 1])
    BY DEF Put
  <2> QED
    BY <1>1, <2>1, <2>2 DEF Sends, Update
<1>4. st = "buffer_end" => UNCHANGED <<down, chan>>
  BY DEF Put
<1>5. st = "error" => Send(Rest, st) /\ UNCHANGED chan
  BY DEF Put
<1>6. /\ pc = "put" /\ UNCHANGED <<bus, up, flush, current>>
      /\ UNCHANGED <<opened, opens, out, ended, sent, heard, on>>
      /\ pc' = (IF st = "data" THEN "tx" ELSE "rx")
      /\ talking' = (st \in {"data", "buffer_end"})
  BY DEF Put, host
<1>7. ASSUME NEW c \in Channels PROVE SamePlace(chan[c], chan'[c])
  <2>1. CASE chan' = chan
    BY <2>1, SamePlaceSelf
  <2>2. CASE chan' = [chan EXCEPT ![current] = Prefetched(@)]
    <3>1. chan'[c] = IF c = current THEN Prefetched(chan[c]) ELSE chan[c]
      BY <1>1, <2>2
    <3>2. SamePlace(chan[current], Prefetched(chan[current]))
      BY <1>1, PrefetchedIs
    <3> QED
      BY <3>1, <3>2, SamePlaceSelf
  <2> QED
    BY <1>2, <1>3, <1>4, <1>5, <2>1, <2>2 DEF Sends
<1>8. pc' # "put" /\ (pc' # "rx" => talking')
  BY <1>6
<1> HIDE DEF st, ch
<1> QED
  BY <1>3, <1>4, <1>5, <1>6, <1>7, <1>8 DEF st, ch

LEMMA StreamingPut ==
  ASSUME TypeInv, ReaderInv, HostInv, Put, Streaming
  PROVE  Streaming'
<1> DEFINE ch == chan[on]
           new == chan'[on]
           st == prefetch_data(ch)
           L == opened[on].length
<1>0. PICK n \in Nat : n = Len(down)
  BY LenProperties DEF TypeInv
<1>1. on \in Channels /\ current = on /\ ~flush /\ bus # "attention"
  BY DEF TypeInv, Streaming
<1>2. /\ pc = "put" /\ UNCHANGED <<bus, up, flush, current, opened, out, ended, on>>
      /\ talking' = (st \in {"data", "buffer_end"})
      /\ \A c \in Channels : SamePlace(chan[c], chan'[c])
      /\ st \in {"data", "last"} => Sends(ch.buffer[ch.prefetch], st)
      /\ st = "buffer_end" => UNCHANGED <<down, chan>>
      /\ st = "error" => Send(Rest, st) /\ UNCHANGED chan
  BY <1>1, PutIs
<1>3. talking /\ ch \in ChannelStates /\ (Live(ch) => Reader(ch)) /\ chan \in [Channels -> ChannelStates]
  BY <1>1, <1>2 DEF HostInv, TypeInv, ReaderInv
<1>4. /\ Live(new) = Live(ch) /\ Pos(new) = Pos(ch) /\ Base(new) = Base(ch)
      /\ new.name = ch.name /\ new.last_byte = ch.last_byte /\ new.state = ch.state
  BY <1>1, <1>2, SamePlaceReads DEF SamePlace, SameFile
<1>5. st \in {"data", "last", "buffer_end", "error"}
  BY <1>3, PrefetchData
<1>6. chan' = chan \/ chan' = [chan EXCEPT ![on] = Prefetched(@)]
  <2> HIDE DEF st, ch
  <2> QED
    BY <1>1, <1>2, <1>5 DEF Sends
<1>7. ASSUME NEW c \in Channels \ {on} PROVE Fresh(chan'[c])
  <2>1. chan'[c] = chan[c]
    BY <1>1, <1>3, <1>6
  <2> QED
    BY <2>1 DEF Streaming
<1>8. Taken' = Taken /\ LastBlock' = LastBlock
  BY <1>2 DEF Taken, LastBlock
<1>9. Live(ch) =>
        /\ ch.name = opened[on] /\ Pos(ch) + Len(up) = Taken
        /\ opened[on].kind \in {"file", "dir"}
        /\ L \in Nat /\ Base(ch) \in Nat /\ Pos(ch) \in Nat /\ Len(up) \in Nat
        /\ ch.prefetch \in 0 .. Block /\ Block \in Nat /\ ch.last_byte \in -1 .. Block - 1
        /\ ch.prefetch_max \in 0 .. Block
        /\ ch.last_byte = -1 => Base(ch) + Block < L /\ ch.prefetch_max = Block
        /\ ch.last_byte # -1 => ch.last_byte = L - 1 - Base(ch) /\ ch.last_byte <= ch.prefetch_max
        /\ ch.prefetch_max = Block \/ (ch.prefetch_max = Block - 1 /\ ch.last_byte = Block - 1)
        /\ \A i \in 0 .. Block - 1 : Base(ch) + i < L => ch.buffer[i] = Base(ch) + i
  <2>1. up \in Seq(Tokens) /\ Len(up) \in Nat
    BY LenProperties DEF TypeInv
  <2>2. Live(ch) => ch.name = opened[on] /\ Pos(ch) + Len(up) = Taken
    BY DEF Streaming
  <2> QED
    BY <1>3, <2>1, <2>2, ReaderIs, ChannelIs, BlockFacts DEF Reader, Live
<1>10. ch.state # "error" =>
         /\ st = "last" <=> ch.prefetch = ch.last_byte
         /\ st = "data" => ch.prefetch # ch.last_byte /\ ch.prefetch < ch.prefetch_max
         /\ st = "buffer_end" => ch.prefetch # ch.last_byte /\ ch.prefetch = ch.prefetch_max
         /\ st = "error" => ch.prefetch > ch.prefetch_max
  BY <1>3, PrefetchData
<1>11. ch.state = "error" => st = "error" /\ ~Live(ch)
  BY <1>3, PrefetchData DEF Live
<1>12. ASSUME bus = "talk" PROVE Talk'
  <2>1. /\ Live(ch) \/ ch.state = "error"
        /\ \A i \in 1 .. Len(down) : GoodEntry(i)
        /\ Live(ch) => /\ Base(ch) + ch.prefetch = Taken + n
                       /\ Taken + n < L
    BY <1>0, <1>3, <1>12 DEF Streaming, Talk
  <2>2. down \in Seq(Bytes) /\ n \in Nat /\ out \in [Channels -> Seq(Int)] /\ Taken \in Nat
    BY <1>0, <1>1, LenProperties DEF TypeInv, HostInv, Taken
  <2>3. ASSUME NEW e \in Bytes, down' = Append(down, e)
        PROVE  /\ Len(down') = n + 1 /\ down'[n + 1] = e
               /\ \A i \in 1 .. n : down'[i] = down[i]
    BY <1>0, <2>2, <2>3, AppendProperties
  <2>4. ASSUME NEW i \in 1 .. n, down'[i] = down[i] PROVE GoodEntry(i)'
    <3>1. chan'[on'].state = chan[on].state
      BY <1>2, <1>4
    <3> HIDE DEF Taken, ch, new, st
    <3> QED
      BY <1>0, <1>2, <1>8, <2>1, <2>4, <3>1 DEF GoodEntry
  <2>5. CASE ch.state = "error"
    <3> DEFINE e == [v |-> Rest, kind |-> "error"]
    <3>1. down' = Append(down, e)
      BY <1>1, <1>2, <1>11, <2>5 DEF Send
    <3>2. e \in Bytes
      BY DEF Bytes, Rest
    <3> HIDE DEF e
    <3>3. Len(down') = n + 1 /\ down'[n + 1] = e /\ \A i \in 1 .. n : down'[i] = down[i]
      BY <2>3, <3>1, <3>2
    <3>4. GoodEntry(n + 1)'
      <4>1. down'[n + 1].kind = "error" /\ chan'[on'].state = "error"
        BY <1>2, <1>4, <2>5, <3>3 DEF e
      <4> QED
        BY <4>1 DEF GoodEntry
    <3>5. \A i \in 1 .. Len(down') : GoodEntry(i)'
      BY <2>2, <2>4, <3>3, <3>4
    <3>6. chan'[on'] = new /\ new.state = "error" /\ ~Live(new)
      BY <1>2, <1>4, <1>11, <2>5
    <3> HIDE DEF new
    <3> QED
      BY <3>5, <3>6 DEF Talk
  <2>6. CASE Live(ch)
    <3>1. ch.state # "error"
      BY <2>6 DEF Live
    <3>2. ch.prefetch <= ch.prefetch_max /\ Base(ch) + ch.prefetch < L
      <4> HIDE DEF ch, L
      <4> QED
        BY <1>9, <2>1, <2>2, <2>6
    <3>3. st # "error"
      <4> HIDE DEF ch, L, st
      <4> QED
        BY <1>9, <1>10, <2>6, <3>1, <3>2
    <3>4. CASE st = "buffer_end"
      <4>1. down' = down /\ chan' = chan /\ talking'
        BY <1>2, <3>4
      <4>2. \A i \in 1 .. Len(down) : GoodEntry(i)'
        BY <1>0, <2>4, <4>1
      <4> QED
        BY <1>2, <1>3, <1>8, <2>1, <1>0, <4>1, <4>2 DEF Talk
    <3>5. CASE st \in {"data", "last"}
      <4> DEFINE e == [v |-> ch.buffer[ch.prefetch], kind |-> st]
      <4>1. ch.prefetch \in 0 .. Block - 1
        <5> HIDE DEF ch, L, st
        <5> QED
          BY <1>9, <1>10, <2>6, <3>1, <3>5
      <4>2. ch.buffer[ch.prefetch] = Base(ch) + ch.prefetch
        <5> HIDE DEF ch, L, st
        <5> QED
          BY <1>9, <2>6, <3>2, <4>1
      <4>3. e.v = Taken + (n + 1) - 1 /\ e.v \in Int /\ e.kind = st
        <5>1. e.v = Base(ch) + ch.prefetch /\ e.kind = st
          BY <4>2
        <5> HIDE DEF ch, L, st, e
        <5> QED
          BY <1>9, <2>1, <2>2, <2>6, <5>1
      <4>4. down' = Append(down, e) /\ chan' = [chan EXCEPT ![on] = Prefetched(@)]
        BY <1>1, <1>2, <3>5 DEF Sends, Send
      <4>5. e \in Bytes
        <5>1. st \in {"data", "last", "error"} /\ ch.buffer[ch.prefetch] \in Int
          BY <3>5, <4>3
        <5> HIDE DEF st
        <5> QED
          BY <5>1 DEF Bytes
      <4> HIDE DEF e
      <4>6. Len(down') = n + 1 /\ down'[n + 1] = e /\ \A i \in 1 .. n : down'[i] = down[i]
        BY <2>3, <4>4, <4>5
      <4>0. /\ Base(ch) + ch.prefetch = Taken + n /\ Taken + n < L
            /\ Taken \in Nat /\ n \in Nat /\ L \in Nat /\ Base(ch) \in Nat
            /\ ch.last_byte = -1 => Base(ch) + Block < L
            /\ ch.last_byte # -1 => ch.last_byte = L - 1 - Base(ch)
            /\ Block \in Nat /\ ch.last_byte \in -1 .. Block - 1
            /\ st = "last" <=> ch.prefetch = ch.last_byte
        <5> HIDE DEF ch, L, st
        <5> QED
          BY <1>0, <1>9, <1>10, <2>1, <2>2, <2>6, <3>1
      <4>7. st = "last" <=> Taken + (n + 1) = L
        <5> HIDE DEF ch, L, st
        <5>1. CASE ch.last_byte = -1
          BY <4>0, <4>1, <5>1
        <5>2. CASE ch.last_byte # -1
          BY <4>0, <4>1, <5>2
        <5> QED
          BY <5>1, <5>2
      <4>8. GoodEntry(n + 1)'
        <5>1. down'[n + 1].kind = st /\ down'[n + 1].v = Taken + (n + 1) - 1 /\ st # "error"
          BY <3>5, <4>3, <4>6
        <5>2. Taken + (n + 1) <= L /\ opened[on].kind \in {"file", "dir"}
          <6> HIDE DEF L, ch, st
          <6> QED
            BY <1>9, <2>1, <2>2, <2>6
        <5> HIDE DEF st, ch, new, Taken
        <5> QED
          BY <1>2, <1>8, <4>7, <5>1, <5>2 DEF GoodEntry
      <4>9. \A i \in 1 .. Len(down') : GoodEntry(i)'
        BY <2>2, <2>4, <4>6, <4>8
      <4>10. new.prefetch = ch.prefetch + 1
        BY <1>1, <1>3, <4>4, PrefetchedIs
      <4>11. talking' = (st = "data")
        BY <1>2, <3>5
      <4>12. Base(new) + new.prefetch = Taken + Len(down')
        <5> HIDE DEF ch, new, st
        <5>1. Base(new) = Base(ch) /\ new.prefetch = ch.prefetch + 1 /\ Len(down') = n + 1
          BY <1>4, <4>6, <4>10
        <5>2. Base(ch) + (ch.prefetch + 1) = Taken + (n + 1)
          BY <4>0, <4>1
        <5> QED
          BY <5>1, <5>2
      <4>13. IF talking' THEN Taken + Len(down') < L
             ELSE new.last_byte # -1 /\ Taken + Len(down') = L
        <5>1. st = "last" => ch.last_byte # -1
          <6> HIDE DEF ch, st
          <6> QED
            BY <1>10, <3>1, <4>1
        <5> HIDE DEF ch, new, st, L
        <5>2. new.last_byte = ch.last_byte /\ Len(down') = n + 1
          BY <1>4, <4>6
        <5>3. Taken + (n + 1) < L \/ Taken + (n + 1) = L
          BY <4>0
        <5>4. talking' <=> st # "last"
          BY <3>5, <4>11
        <5> QED
          BY <4>7, <5>1, <5>2, <5>3, <5>4
      <4>14. chan'[on'] = new /\ Live(new) /\ (opened[on].length)' = L
        BY <1>2, <1>4, <2>6
      <4> HIDE DEF new, L
      <4> QED
        BY <1>8, <4>9, <4>12, <4>13, <4>14 DEF Talk
    <3> QED
      BY <1>5, <3>3, <3>4, <3>5
  <2> QED
    BY <2>1, <2>5, <2>6
<1>13. ASSUME bus = "free" PROVE Paused'
  <2>1. SUFFICES ASSUME Live(ch) PROVE talking' /\ Taken < LastBlock
    BY <1>2, <1>4, <1>8 DEF Paused
  <2>2. Taken < LastBlock
    BY <1>3, <1>13, <2>1 DEF Streaming, Paused
  <2>3. Taken \in Nat /\ Pos(ch) <= Taken
    <3>1. Taken \in Nat
      BY <1>1, LenProperties DEF HostInv, Taken
    <3> HIDE DEF ch
    <3> QED
      BY <1>9, <2>1, <3>1
  <2>4. ch.last_byte = -1
    <3>1. Taken < Block * ((ch.name.length - 1) \div Block)
      BY <1>9, <2>1, <2>2 DEF LastBlock
    <3> HIDE DEF ch, Taken
    <3> QED
      BY <1>3, <2>1, <2>3, <3>1, EndIsFar
  <2>5. ch.state # "error"
    BY <2>1 DEF Live
  <2>6. st # "error" /\ st # "last"
    <3> HIDE DEF ch, st
    <3> QED
      BY <1>9, <1>10, <2>1, <2>4, <2>5
  <2> QED
    BY <1>2, <1>5, <2>2, <2>6
<1>14. Live(new) => new.name = opened[on] /\ Pos(new) + Len(up) = Taken
  <2> HIDE DEF new, ch
  <2> QED
    BY <1>4, <1>9
<1>15. chan'[on'] = new /\ \A i \in 1 .. Len(up') : up'[i] = <<"popped">>
  BY <1>2 DEF Streaming
<1>16. \A c \in (Channels \ {on})' : Fresh(chan[c])'
  BY <1>2, <1>7
<1> HIDE DEF new, ch, st
<1> QED
  BY <1>1, <1>2, <1>8, <1>12, <1>13, <1>14, <1>15, <1>16 DEF Streaming

LEMMA FlushingPut ==
  ASSUME TypeInv, ReaderInv, HostInv, Put, Flushing
  PROVE  Flushing'
<1> DEFINE ch == chan[current]
           new == chan'[current]
           st == prefetch_data(ch)
<1>1. /\ pc = "put" /\ pc' # "put" /\ UNCHANGED <<bus, up, flush, current>>
      /\ talking' = (st \in {"data", "buffer_end"})
      /\ \A c \in Channels : SamePlace(chan[c], chan'[c])
      /\ st \in {"data", "last"} => Sends(ch.buffer[ch.prefetch], st)
      /\ st = "buffer_end" => UNCHANGED <<down, chan>>
      /\ st = "error" => Send(Rest, st) /\ UNCHANGED chan
  BY PutIs
<1>2. /\ current \in Channels /\ flush /\ \A c \in Channels \ {current} : Fresh(chan[c])
      /\ chan \in [Channels -> ChannelStates]
  BY DEF TypeInv, Flushing
<1>3. ch \in ChannelStates /\ (Live(ch) => Reader(ch))
  BY <1>2 DEF ReaderInv
<1>4. PICK k \in 0 .. Len(up) :
       /\ \A i \in 1 .. k : up[i] = <<"popped">>
       /\ \A i \in k + 1 .. Len(up) : up[i][1] # "popped"
       /\ k < Len(up) => up[k + 1] = <<"atn">>
       /\ Live(ch) => IF talking THEN InBuffer(ch) ELSE Pos(ch) + k = ch.name.length
  BY DEF Flushing
<1>5. st \in {"data", "last", "buffer_end", "error"}
  BY <1>3, PrefetchData
<1>6. chan' = chan \/ (chan' = [chan EXCEPT ![current] = Prefetched(@)] /\ st \in {"data", "last"})
  <2> HIDE DEF st, ch
  <2> QED
    BY <1>1, <1>5 DEF Sends
<1>7. ASSUME NEW c \in Channels \ {current} PROVE Fresh(chan'[c])
  <2>1. chan'[c] = chan[c]
    BY <1>2, <1>6
  <2> QED
    BY <1>2, <2>1
<1>8. Live(new) = Live(ch) /\ new.last_byte = ch.last_byte /\ Pos(new) = Pos(ch)
      /\ new.name = ch.name
  BY <1>1, <1>2, SamePlaceReads DEF SamePlace, SameFile
<1>9. new.prefetch = ch.prefetch \/ (new.prefetch = ch.prefetch + 1 /\ st \in {"data", "last"})
  BY <1>2, <1>6, PrefetchedIs
<1>10. ch.state # "error" =>
         /\ st = "last" <=> ch.prefetch = ch.last_byte
         /\ st = "data" => ch.prefetch # ch.last_byte /\ ch.prefetch < ch.prefetch_max
         /\ st = "buffer_end" => ch.prefetch # ch.last_byte /\ ch.prefetch = ch.prefetch_max
         /\ st = "error" => ch.prefetch > ch.prefetch_max
  BY <1>3, PrefetchData
<1>11. ASSUME Live(ch), talking
       PROVE  talking' /\ (new.last_byte = -1 \/ new.prefetch <= new.last_byte)
  <2>1. ch.prefetch # ch.last_byte /\ (ch.last_byte = -1 \/ ch.prefetch <= ch.last_byte)
    BY <1>1, <1>4, <1>11 DEF InBuffer
  <2>2. /\ ch.state # "error" /\ ch.prefetch \in 0 .. Block /\ Block \in Nat
        /\ ch.last_byte \in -1 .. Block - 1
        /\ ch.last_byte = -1 => ch.prefetch_max = Block
        /\ ch.last_byte # -1 => ch.last_byte <= ch.prefetch_max
        /\ ch.prefetch_max \in 0 .. Block
    BY <1>3, <1>11, ReaderIs, ChannelIs, BlockFacts DEF Live
  <2> HIDE DEF ch, new, st
  <2>3. st # "last" /\ st # "error"
    BY <1>10, <2>1, <2>2
  <2>4. new.last_byte = -1 \/ new.prefetch <= new.last_byte
    BY <1>8, <1>9, <2>1, <2>2
  <2> QED
    BY <1>1, <1>5, <2>3, <2>4
<1>12. talking
  BY <1>1 DEF HostInv
<1>13. chan'[current'] = new /\ up' = up /\ flush'
  BY <1>1, <1>2
<1>14. \A c \in (Channels \ {current})' : Fresh(chan[c])'
  BY <1>1, <1>7
<1>15. Live(chan[current])' => IF talking' THEN InBuffer(chan[current])'
                               ELSE Pos(chan[current])' + k = (chan[current].name.length)'
  <2> HIDE DEF new, ch, st
  <2> QED
    BY <1>1, <1>8, <1>11, <1>12, <1>13 DEF InBuffer
<1> HIDE DEF new, ch, st
<1> QED
  BY <1>4, <1>13, <1>14, <1>15 DEF Flushing

LEMMA PutStreams ==
  TypeInv /\ StreamInv /\ Put => StreamInv'
<1> SUFFICES ASSUME TypeInv, StreamInv, Put PROVE StreamInv'
  OBVIOUS
<1>1. ReaderInv /\ CourseInv /\ HostInv /\ PhaseInv
  BY DEF StreamInv
<1>2. /\ pc = "put" /\ pc' # "put" /\ UNCHANGED <<bus, up, flush, current>>
      /\ UNCHANGED <<opened, opens, out, ended, sent, heard, on>>
      /\ pc' # "rx" => talking'
      /\ \A c \in Channels : SamePlace(chan[c], chan'[c])
  BY PutIs
<1>3. CourseInv' /\ ReaderInv'
  BY <1>1, <1>2, CourseKept, ReaderKept
<1>4. HostInv'
  BY <1>1, <1>2 DEF HostInv
<1>5. ASSUME Streaming PROVE PhaseInv'
  BY <1>1, <1>5, StreamingPut DEF PhaseInv
<1>6. ASSUME Flushing PROVE PhaseInv'
  BY <1>1, <1>6, FlushingPut DEF PhaseInv
<1>7. ~Settled
  BY <1>1, <1>2 DEF Settled, HostInv
<1>8. PhaseInv'
  BY <1>1, <1>5, <1>6, <1>7 DEF PhaseInv
<1> QED
  BY <1>3, <1>4, <1>8 DEF StreamInv

(****************************************************************************)
(* The bus processor, and a host that stops a talker                        *)
(****************************************************************************)
LEMMA DownTail ==
  ASSUME TypeInv, down # <<>>, down' = Tail(down)
  PROVE  /\ Head(down) = down[1] /\ Len(down) \in Nat /\ Len(down) >= 1
         /\ Len(down') = Len(down) - 1 /\ ~flush
         /\ \A i \in 1 .. Len(down') : down'[i] = down[i + 1] /\ i + 1 \in 1 .. Len(down)
<1>1. down \in Seq(Bytes) /\ ~flush
  BY DEF TypeInv
<1>2. /\ Len(down) \in Nat /\ Len(down) >= 1 /\ Head(down) = down[1]
      /\ Len(down') = Len(down) - 1
      /\ \A i \in 1 .. Len(down') : down'[i] = down[i + 1]
  BY <1>1, HeadTailProperties, LenProperties, EmptySeq
<1> QED
  BY <1>1, <1>2

LEMMA OnlyPopped ==
  ASSUME Streaming
  PROVE  \A i \in 1 .. Len(up) : up[i][1] # "ready"
BY DEF Streaming

(* The talk ends, or there is none. *)
LEMMA HostKept ==
  ASSUME HostInv, UNCHANGED <<opened, out, ended, on, heard, up, pc, talking>>,
         bus' # "talk", bus' = "attention" => flush',
         \A i \in 1 .. Len(up) : up[i][1] # "ready"
  PROVE  HostInv'
BY DEF HostInv

LEMMA TalkStreams ==
  ASSUME TypeInv, StreamInv, bus = "talk", ~flush
  PROVE  Streaming /\ Talk
<1>1. Streaming
  BY DEF StreamInv, PhaseInv, Flushing, Settled
<1> QED
  BY <1>1 DEF Streaming

LEMMA NoReady ==
  ASSUME TypeInv, StreamInv, bus = "free" \/ Streaming
  PROVE  \A i \in 1 .. Len(up) : up[i][1] # "ready"
<1>1. CASE bus = "free"
  BY <1>1 DEF StreamInv, HostInv
<1>2. CASE Streaming
  BY <1>2, OnlyPopped
<1> QED
  BY <1>1, <1>2

LEMMA QuietStreams ==
  ASSUME TypeInv, StreamInv, UNCHANGED <<up, task, host>>,
         bus' # "talk", bus' = "attention" => flush', bus = "free" \/ Streaming, PhaseInv'
  PROVE  StreamInv'
<1>1. ReaderInv /\ CourseInv /\ HostInv
  BY DEF StreamInv
<1>2. /\ UNCHANGED <<up, pc, talking, current, chan>>
      /\ UNCHANGED <<opened, opens, out, ended, sent, heard, on>>
  BY DEF task, host
<1>3. \A c \in Channels : SamePlace(chan[c], chan'[c])
  BY <1>2, SamePlaceSelf
<1>4. CourseInv' /\ ReaderInv'
  BY <1>1, <1>2, <1>3, CourseKept, ReaderKept
<1>5. HostInv'
  BY <1>1, <1>2, NoReady, HostKept
<1> QED
  BY <1>4, <1>5 DEF StreamInv

LEMMA BusErrorStreams == TypeInv /\ StreamInv /\ (BusError \/ Drain) => StreamInv'
<1> SUFFICES ASSUME TypeInv, StreamInv, BusError \/ Drain PROVE StreamInv'
  OBVIOUS
<1>1. /\ down # <<>> /\ down' = Tail(down) /\ bus' = "free" /\ UNCHANGED <<up, flush, task, host>>
      /\ UNCHANGED <<up, flush, pc, talking, current, chan, opened, out, ended, heard, on>>
  BY DEF BusError, Drain, task, host
<1>2. ~flush /\ Head(down) = down[1] /\ 1 \in 1 .. Len(down)
  BY <1>1, DownTail
<1>3. Streaming
  BY <1>2 DEF StreamInv, PhaseInv, Flushing, Settled
<1>4. Paused
  <2>1. CASE BusError
    <3>1. bus = "talk" /\ down[1].kind = "error"
      BY <1>2, <2>1 DEF BusError
    <3>2. chan[on].state = "error"
      BY <1>2, <1>3, <3>1 DEF Streaming, Talk, GoodEntry
    <3> QED
      BY <3>2 DEF Paused, Live
  <2>2. CASE Drain
    BY <1>3, <2>2 DEF Drain, Streaming
  <2> QED
    BY <2>1, <2>2
<1>5. Streaming'
  <2>1. Paused'
    BY <1>1, <1>4 DEF Paused, Taken, LastBlock
  <2> QED
    BY <1>1, <1>3, <2>1 DEF Streaming, Taken
<1> QED
  BY <1>1, <1>3, <1>5, QuietStreams DEF PhaseInv

(* What is known while the FIFO to the bus is open and the channel is read *)
LEMMA StreamingIs ==
  ASSUME TypeInv, ReaderInv, HostInv, Streaming, Live(chan[on])
  PROVE  LET ch == chan[on]  L == opened[on].length IN
         /\ ch \in ChannelStates /\ Reader(ch) /\ ch.name = opened[on] /\ current = on
         /\ opened[on].kind \in {"file", "dir"}
         /\ L \in Nat /\ Taken \in Nat /\ Pos(ch) <= Taken /\ Pos(ch) + Len(up) = Taken
         /\ Base(ch) \in Nat /\ ch.prefetch \in 0 .. Block /\ Block \in Nat
         /\ ch.last_byte \in -1 .. Block - 1
         /\ ch.last_byte # -1 => ch.last_byte = L - 1 - Base(ch)
         /\ Taken < LastBlock => ch.last_byte = -1
<1> DEFINE ch == chan[on]
           L == opened[on].length
<1>1. on \in Channels /\ ch \in ChannelStates /\ Reader(ch) /\ ch.name = opened[on]
      /\ current = on /\ Pos(ch) + Len(up) = Taken
  BY DEF TypeInv, ReaderInv, Streaming
<1>2. Len(up) \in Nat /\ Taken \in Nat
  BY <1>1, LenProperties DEF TypeInv, HostInv, Taken
<1>3. /\ L \in Nat /\ Base(ch) \in Nat /\ Pos(ch) \in Nat /\ ch.prefetch \in 0 .. Block
      /\ Block \in Nat /\ ch.last_byte \in -1 .. Block - 1
      /\ ch.last_byte # -1 => ch.last_byte = L - 1 - Base(ch)
      /\ opened[on].kind \in {"file", "dir"}
  BY <1>1, ReaderIs, ChannelIs, BlockFacts DEF Reader, Live
<1>4. Pos(ch) <= Taken
  BY <1>1, <1>2, <1>3
<1>5. Taken < LastBlock => ch.last_byte = -1
  <2>1. LastBlock = Block * ((ch.name.length - 1) \div Block)
    BY <1>1 DEF LastBlock
  <2> HIDE DEF ch
  <2> QED
    BY <1>1, <1>2, <1>4, <2>1, EndIsFar
<1> QED
  BY <1>1, <1>2, <1>3, <1>4, <1>5

LEMMA HostTimeoutStreams ==
  Interrupts = "far" /\ TypeInv /\ StreamInv /\ HostTimeout => StreamInv'
<1> SUFFICES ASSUME Interrupts = "far", TypeInv, StreamInv, HostTimeout PROVE StreamInv'
  OBVIOUS
<1>1. /\ bus = "talk" /\ down # <<>> /\ heard /\ bus' = "free" /\ UNCHANGED <<fifos, task, host>>
      /\ UNCHANGED <<up, down, flush, pc, talking, current, chan, opened, out, ended, heard, on>>
      /\ Taken < LastBlock
  BY DEF HostTimeout, fifos, task, host, Taken, LastBlock
<1>2. ReaderInv /\ HostInv /\ ~flush
  BY <1>1 DEF StreamInv, HostInv
<1>3. Streaming /\ Talk
  BY <1>1, <1>2, TalkStreams
<1>4. Paused
  BY <1>1, <1>2, <1>3, StreamingIs DEF Paused, Talk
<1>5. Streaming'
  <2>1. Paused'
    BY <1>1, <1>4 DEF Paused, Taken, LastBlock
  <2> QED
    BY <1>1, <1>3, <2>1 DEF Streaming, Taken
<1> QED
  BY <1>1, <1>3, <1>5, QuietStreams DEF PhaseInv, fifos

LEMMA AttentionStreams ==
  Interrupts = "far" /\ TypeInv /\ StreamInv /\ Attention => StreamInv'
<1> SUFFICES ASSUME Interrupts = "far", TypeInv, StreamInv, Attention PROVE StreamInv'
  OBVIOUS
<1>1. /\ bus' = "attention" /\ flush' = TRUE /\ down' = <<>> /\ UNCHANGED <<up, task, host>>
      /\ UNCHANGED <<up, pc, talking, current, chan, opened, out, ended, heard, on>>
      /\ \/ bus = "free"
         \/ bus = "talk" /\ heard /\ opened[on].length - Taken > Depth
  BY DEF Attention, task, host, Taken
<1>2. ReaderInv /\ HostInv /\ (bus = "free" \/ (bus = "talk" /\ ~flush))
  BY <1>1 DEF StreamInv, HostInv
<1>3. bus = "free" \/ (Streaming /\ Talk)
  BY <1>2, TalkStreams
<1>4. ASSUME Streaming PROVE Flushing'
  <2> DEFINE ch == chan[on]
             L == opened[on].length
             n == Len(down)
  <2>0. current = on
    BY <1>4 DEF Streaming
  <2>1. n \in Nat /\ n <= Depth /\ (pc = "put" => n < Depth) /\ Depth \in Nat
    BY LenProperties, BlockFacts DEF TypeInv
  <2>2. Live(ch) => IF talking THEN InBuffer(ch) ELSE Pos(ch) + Len(up) = ch.name.length
    <3> SUFFICES ASSUME Live(ch)
                 PROVE  IF talking THEN InBuffer(ch) ELSE Pos(ch) + Len(up) = ch.name.length
      OBVIOUS
    <3>1. /\ ch.name = opened[on] /\ L \in Nat /\ Taken \in Nat /\ Pos(ch) + Len(up) = Taken
          /\ Base(ch) \in Nat /\ ch.prefetch \in 0 .. Block /\ Block \in Nat
          /\ ch.last_byte \in -1 .. Block - 1
          /\ ch.last_byte # -1 => ch.last_byte = L - 1 - Base(ch)
          /\ Taken < LastBlock => ch.last_byte = -1
      BY <1>2, <1>4, StreamingIs
    <3>2. CASE bus = "free"
      <4>1. IF talking THEN Taken < LastBlock ELSE Taken = L
        BY <1>4, <3>2 DEF Streaming, Paused
      <4>2. talking => InBuffer(ch)
        <5>1. talking => ch.last_byte = -1 /\ ch.prefetch # -1
          BY <3>1, <4>1
        <5> QED
          BY <5>1 DEF InBuffer
      <4> QED
        BY <3>1, <4>1, <4>2
    <3>3. CASE bus # "free"
      <4>1. /\ L - Taken > Depth
            /\ IF talking
               THEN Base(ch) + ch.prefetch = Taken + n /\ Taken + n < L
               ELSE Taken + n = L
        BY <1>1, <1>3, <3>3 DEF Talk
      <4> HIDE DEF ch, L, n
      <4>2. talking
        BY <2>1, <3>1, <4>1
      <4>3. ch.last_byte = -1 \/ ch.prefetch <= ch.last_byte
        BY <2>1, <3>1, <4>1, <4>2
      <4>4. pc = "put" => ch.prefetch # ch.last_byte
        BY <2>1, <3>1, <4>1, <4>2
      <4> QED
        BY <4>2, <4>3, <4>4 DEF InBuffer
    <3> QED
      BY <3>2, <3>3
  <2>3. /\ \A i \in 1 .. Len(up) : up[i] = <<"popped">>
        /\ \A c \in Channels \ {current} : Fresh(chan[c])
    BY <1>4 DEF Streaming
  <2>4. Len(up) \in Nat
    BY LenProperties DEF TypeInv
  <2>5. Len(up) \in 0 .. Len(up) /\ ~(Len(up) < Len(up)) /\ \A i \in Len(up) + 1 .. Len(up) : FALSE
    BY <2>4
  <2>6. PICK k \in 0 .. Len(up) : k = Len(up)
    BY <2>5
  <2>7. Live(chan[current])' => IF talking' THEN InBuffer(chan[current])'
                                ELSE Pos(chan[current])' + k = (chan[current].name.length)'
    BY <1>1, <2>0, <2>2, <2>6 DEF InBuffer
  <2>8. /\ \A i \in 1 .. k : up'[i] = <<"popped">>
        /\ \A i \in k + 1 .. Len(up') : up'[i][1] # "popped"
        /\ ~(k < Len(up')) /\ k \in 0 .. Len(up')
    BY <1>1, <2>3, <2>5, <2>6
  <2> HIDE DEF ch
  <2> QED
    BY <1>1, <2>3, <2>7, <2>8 DEF Flushing
<1>5. Flushing => Flushing'
  <2>1. InBuffer(chan[current]) => InBuffer(chan[current])'
    BY <1>1 DEF InBuffer
  <2> QED
    BY <1>1, <2>1 DEF Flushing
<1>6. Settled => Settled'
  BY <1>1 DEF Settled
<1>7. PhaseInv'
  BY <1>4, <1>5, <1>6 DEF StreamInv, PhaseInv
<1> QED
  BY <1>1, <1>3, <1>7, QuietStreams

(* The host takes a byte: it is the next of the file. *)
LEMMA ByteIsNext ==
  ASSUME TypeInv, StreamInv, BusByte
  PROVE  /\ Streaming /\ Talk /\ on \in Channels /\ opened[on].kind \in {"file", "dir"}
         /\ Taken \in Nat /\ Taken < opened[on].length /\ opened[on].length \in Nat
         /\ out' = [out EXCEPT ![on] = Append(@, Taken)]
         /\ out \in [Channels -> Seq(Int)]
         /\ ended' = [ended EXCEPT ![on] = (Taken + 1 = opened[on].length)]
         /\ bus' = (IF Taken + 1 = opened[on].length THEN "free" ELSE "talk")
         /\ Taken' = Taken + 1
<1>1. bus = "talk" /\ down # <<>> /\ Head(down).kind # "error" /\ down' = Tail(down) /\ on' = on
  BY DEF BusByte
<1>2. ~flush /\ Head(down) = down[1] /\ 1 \in 1 .. Len(down)
  BY <1>1, DownTail
<1>3. Streaming /\ Talk
  BY <1>1, <1>2, TalkStreams
<1>4. HostInv /\ on \in Channels /\ down[1] \in Bytes
  BY <1>2 DEF StreamInv, TypeInv
<1>5. /\ opened[on].kind \in {"file", "dir"}
      /\ down[1].v = Taken + 1 - 1 /\ Taken + 1 <= opened[on].length
      /\ down[1].kind = "last" <=> Taken + 1 = opened[on].length
  BY <1>1, <1>2, <1>3 DEF Talk, GoodEntry
<1>6. /\ Taken \in Nat /\ Taken < opened[on].length /\ opened[on].length \in Nat
      /\ out \in [Channels -> Seq(Int)]
  BY <1>1, <1>4, <1>5, MoreToTake DEF HostInv
<1>7. Head(down).v = Taken
  BY <1>2, <1>5, <1>6
<1>8. out' = [out EXCEPT ![on] = Append(@, Taken)]
  BY <1>7 DEF BusByte
<1>9. ended' = [ended EXCEPT ![on] = (Taken + 1 = opened[on].length)]
  BY <1>2, <1>5 DEF BusByte
<1>10. bus' = (IF Taken + 1 = opened[on].length THEN "free" ELSE "talk")
  BY <1>1, <1>2, <1>5 DEF BusByte
<1>11. Taken' = Taken + 1
  <2>1. out'[on] = Append(out[on], Taken)
    BY <1>4, <1>6, <1>8
  <2>2. Len(Append(out[on], Taken)) = Len(out[on]) + 1
    BY <1>4, <1>6, AppendProperties
  <2> QED
    BY <1>1, <2>1, <2>2 DEF Taken
<1> QED
  BY <1>3, <1>4, <1>5, <1>6, <1>8, <1>9, <1>10, <1>11

LEMMA CourseMoved ==
  ASSUME NEW w \in Courses, NEW n \in Nat
  PROVE  \E x \in Courses : /\ x.at = w.at /\ x.cmd = w.cmd /\ x.name = w.name
                            /\ x.mode = w.mode /\ x.pos = n
<1> DEFINE x == [w EXCEPT !.pos = n]
<1>1. x \in Courses
  BY DEF Courses
<1>2. /\ x.at = w.at /\ x.cmd = w.cmd /\ x.name = w.name
      /\ x.mode = w.mode /\ x.pos = n
  BY DEF Courses
<1> QED
  BY <1>1, <1>2

LEMMA BusByteCourse ==
  ASSUME TypeInv, StreamInv, BusByte
  PROVE  CourseInv'
<1>1. /\ Streaming /\ on \in Channels /\ opened[on].kind \in {"file", "dir"}
      /\ Taken \in Nat /\ Taken < opened[on].length
      /\ out' = [out EXCEPT ![on] = Append(@, Taken)] /\ out \in [Channels -> Seq(Int)]
      /\ Taken' = Taken + 1
  BY ByteIsNext
<1>2. /\ bus = "talk" /\ up' = Append(up, <<"popped">>)
      /\ UNCHANGED <<current, chan, opened, on>>
  BY DEF BusByte, task
<1>3. up \in Seq(Tokens) /\ <<"popped">> \in Tokens
  BY AToken DEF TypeInv, Signals
<1>4. ASSUME NEW c \in Channels
      PROVE  \E v, x \in Courses : Matches(c, v)' /\ Runs(c, v, up', x) /\ HostCourse(c, x)'
  <2>1. PICK v, w \in Courses : Matches(c, v) /\ Runs(c, v, up, w) /\ HostCourse(c, w)
    BY DEF CourseInv, StreamInv
  <2>2. Matches(c, v)'
    BY <1>2, <2>1 DEF Matches
  <2>3. /\ w.at = on /\ w.mode = opened[c].kind
        /\ w.mode \in {"file", "dir"} => w.name = opened[c] /\ w.pos = Len(out[c])
    BY <1>2, <2>1 DEF HostCourse
  <2> DEFINE t == <<"popped">>
  <2>4. t[1] = "popped"
    OBVIOUS
  <2>5. CASE c = on
    <3>1. PICK x \in Courses : /\ x.at = w.at /\ x.cmd = w.cmd /\ x.name = w.name
                               /\ x.mode = w.mode /\ x.pos = Taken + 1
      <4>1. PICK n \in Nat : n = Taken + 1
        BY <1>1
      <4>2. \E x \in Courses : /\ x.at = w.at /\ x.cmd = w.cmd /\ x.name = w.name
                               /\ x.mode = w.mode /\ x.pos = n
        BY <2>1, <4>1, CourseMoved
      <4> QED
        BY <4>1, <4>2
    <3>2. w.mode \in {"file", "dir"} /\ w.name = opened[on] /\ w.pos = Taken
      BY <1>1, <2>3, <2>5 DEF Taken
    <3> HIDE DEF t
    <3>3. Turn(c, w, t, x)
      BY <1>1, <2>3, <2>4, <2>5, <3>1, <3>2 DEF Turn, Ends, Commands
    <3>4. Runs(c, v, up', x)
      BY <1>2, <1>3, <2>1, <3>1, <3>3, RunsAppend DEF t
    <3>5. Len(out'[c]) = Taken + 1
      BY <1>1, <1>2, <2>5 DEF Taken
    <3>6. HostCourse(c, x)'
      BY <1>2, <2>3, <2>5, <3>1, <3>2, <3>5 DEF HostCourse
    <3> QED
      BY <2>2, <3>1, <3>4, <3>6
  <2>6. CASE c # on
    <3> HIDE DEF t
    <3>1. Turn(c, w, t, w)
      BY <2>3, <2>4, <2>6 DEF Turn, Ends, Commands
    <3>2. Runs(c, v, up', w)
      BY <1>2, <1>3, <2>1, <3>1, RunsAppend DEF t
    <3>3. out'[c] = out[c]
      BY <1>1, <2>6
    <3>4. HostCourse(c, w)'
      BY <1>2, <2>1, <2>3, <3>3 DEF HostCourse
    <3> QED
      BY <2>1, <2>2, <3>2, <3>4
  <2> QED
    BY <2>5, <2>6
<1> QED
  BY <1>4 DEF CourseInv, Runs

LEMMA BusByteStreams == TypeInv /\ StreamInv /\ BusByte => StreamInv'
<1> SUFFICES ASSUME TypeInv, StreamInv, BusByte PROVE StreamInv'
  OBVIOUS
<1> DEFINE ch == chan[on]
           L == opened[on].length
<1>1. /\ Streaming /\ Talk /\ on \in Channels /\ opened[on].kind \in {"file", "dir"}
      /\ Taken \in Nat /\ Taken < L /\ L \in Nat
      /\ out' = [out EXCEPT ![on] = Append(@, Taken)] /\ out \in [Channels -> Seq(Int)]
      /\ ended' = [ended EXCEPT ![on] = (Taken + 1 = L)]
      /\ bus' = (IF Taken + 1 = L THEN "free" ELSE "talk")
      /\ Taken' = Taken + 1
  BY ByteIsNext
<1>2. /\ bus = "talk" /\ down # <<>> /\ down' = Tail(down) /\ up' = Append(up, <<"popped">>)
      /\ UNCHANGED <<flush, current, chan, talking, pc, opened, on>>
  BY DEF BusByte, task
<1>3. ReaderInv /\ HostInv
  BY DEF StreamInv
<1>4. ReaderInv'
  BY <1>2, <1>3 DEF ReaderInv
<1>5. CourseInv'
  BY BusByteCourse
<1>6. PICK k, n \in Nat : k = Len(up) /\ n = Len(down)
  BY LenProperties DEF TypeInv
<1>7. /\ Len(up') = k + 1 /\ up'[k + 1] = <<"popped">> /\ \A i \in 1 .. k : up'[i] = up[i]
  <2>1. up \in Seq(Tokens) /\ <<"popped">> \in Tokens
    BY AToken DEF TypeInv, Signals
  <2> QED
    BY <1>2, <1>6, <2>1, AppendProperties
<1>8. \A i \in 1 .. Len(up') : up'[i] = <<"popped">>
  <2>1. \A i \in 1 .. k : up[i] = <<"popped">>
    BY <1>1, <1>6 DEF Streaming
  <2> QED
    BY <1>6, <1>7, <2>1
<1>9. n >= 1 /\ Len(down') = n - 1 /\ ~flush
      /\ \A i \in 1 .. n - 1 : down'[i] = down[i + 1] /\ i + 1 \in 1 .. n
  BY <1>2, <1>6, DownTail
<1>10. HostInv'
  <2>1. out' \in [Channels -> Seq(Int)] /\ ended' \in [Channels -> BOOLEAN]
    <3>1. Append(out[on], Taken) \in Seq(Int)
      BY <1>1, AppendProperties
    <3>2. ended \in [Channels -> BOOLEAN]
      BY <1>3 DEF HostInv
    <3> QED
      BY <1>1, <3>1, <3>2
  <2>2. ASSUME NEW c \in Channels, opened[c].kind \in {"file", "dir"}
        PROVE  /\ Len(out'[c]) <= opened[c].length
               /\ ended'[c] <=> Len(out'[c]) = opened[c].length
    <3>1. CASE c = on
      <4>1. Len(out'[on]) = Taken + 1
        BY <1>1, <1>2 DEF Taken
      <4>2. ended'[on] = (Taken + 1 = L)
        BY <1>1, <1>3 DEF HostInv
      <4>3. Taken + 1 <= L
        <5> HIDE DEF L
        <5> QED
          BY <1>1
      <4> QED
        BY <3>1, <4>1, <4>2, <4>3
    <3>2. CASE c # on
      <4>1. out'[c] = out[c] /\ ended'[c] = ended[c]
        BY <1>1, <1>3, <3>2 DEF HostInv
      <4> QED
        BY <1>3, <2>2, <4>1 DEF HostInv
    <3> QED
      BY <3>1, <3>2
  <2>3. bus' = "talk" => ~ended'[on]
    <3>1. ended \in [Channels -> BOOLEAN]
      BY <1>3 DEF HostInv
    <3> HIDE DEF L
    <3> QED
      BY <1>1, <3>1
  <2>4. bus' # "attention"
    BY <1>1
  <2>5. \A i \in 1 .. Len(up') : up'[i][1] # "ready"
    BY <1>8
  <2>6. opened' \in [Channels -> Openings \cup {Nothing}] /\ (pc' # "rx" => talking')
        /\ opened'[on].kind \in {"file", "dir", "missing"} /\ opened' = opened /\ on' = on
        /\ ~flush'
    BY <1>1, <1>2, <1>3, <1>9 DEF HostInv
  <2> QED
    BY <2>1, <2>2, <2>3, <2>4, <2>5, <2>6 DEF HostInv
<1>11. Live(ch) => IF talking
                   THEN Base(ch) + ch.prefetch = Taken + n /\ Taken + n < L
                   ELSE ch.last_byte # -1 /\ Taken + n = L
  BY <1>1, <1>6 DEF Talk
<1>12. Streaming'
  <2>1. Live(ch) => ch.name = opened[on] /\ Pos(ch) + Len(up') = Taken + 1
    <3>1. Live(ch) => ch.name = opened[on] /\ Pos(ch) + k = Taken /\ Base(ch) \in Nat
          /\ ch.pointer \in Nat
      <4>1. Live(ch) => Base(ch) \in Nat
        BY <1>1, <1>3, StreamingIs
      <4>2. ch.pointer \in Nat
        BY <1>1, ChannelIs, BlockFacts DEF TypeInv
      <4> QED
        BY <1>1, <1>6, <4>1, <4>2 DEF Streaming
    <3> HIDE DEF ch
    <3> QED
      BY <1>1, <1>6, <1>7, <3>1 DEF Pos
  <2>2. ASSUME bus' = "talk" PROVE Talk'
    <3>1. ASSUME NEW i \in 1 .. n - 1 PROVE GoodEntry(i)'
      <4>1. down'[i] = down[i + 1] /\ i + 1 \in 1 .. Len(down)
        BY <1>6, <1>9
      <4>2. GoodEntry(i + 1)
        BY <1>1, <4>1 DEF Talk
      <4>3. Taken + (i + 1) - 1 = (Taken + 1) + i - 1 /\ Taken + (i + 1) = (Taken + 1) + i
        BY <1>1, <1>6
      <4> DEFINE e == down[i + 1]
      <4>4. IF e.kind = "error" THEN chan[on].state = "error"
            ELSE /\ opened[on].kind \in {"file", "dir"}
                 /\ e.v = (Taken + 1) + i - 1 /\ (Taken + 1) + i <= L
                 /\ e.kind = "last" <=> (Taken + 1) + i = L
        BY <4>2, <4>3 DEF GoodEntry
      <4> HIDE DEF e
      <4>5. down'[i] = e
        BY <4>1 DEF e
      <4> QED
        BY <1>1, <1>2, <4>4, <4>5 DEF GoodEntry
    <3>2. (Taken + 1) + (n - 1) = Taken + n
      BY <1>1, <1>6
    <3>3. Live(ch) \/ ch.state = "error"
      BY <1>1 DEF Talk
    <3>4. \A i \in 1 .. Len(down') : GoodEntry(i)'
      BY <1>9, <3>1
    <3>5. Live(ch) => IF talking
                      THEN /\ Base(ch) + ch.prefetch = (Taken + 1) + (n - 1)
                           /\ (Taken + 1) + (n - 1) < L
                      ELSE ch.last_byte # -1 /\ (Taken + 1) + (n - 1) = L
      BY <1>11, <3>2
    <3>6. chan'[on'] = ch /\ (opened[on].length)' = L
      BY <1>2
    <3> HIDE DEF ch, L
    <3> QED
      BY <1>1, <1>2, <1>9, <3>3, <3>4, <3>5, <3>6 DEF Talk
  <2>3. ASSUME bus' = "free" PROVE Paused'
    <3>1. Taken + 1 = L
      BY <1>1, <2>3
    <3>2. Live(ch) => ~talking
      <4> HIDE DEF ch, L
      <4> QED
        BY <1>1, <1>6, <1>9, <1>11, <3>1
    <3> QED
      BY <1>1, <1>2, <3>1, <3>2 DEF Paused
  <2>4. /\ ~flush' /\ bus' # "attention" /\ current' = on' /\ on' = on
        /\ \A c \in (Channels \ {on})' : Fresh(chan[c])'
    BY <1>1, <1>2, <1>9 DEF Streaming
  <2>5. chan'[on'] = ch /\ (opened[on])' = opened[on]
    BY <1>2
  <2> HIDE DEF ch
  <2> QED
    BY <1>1, <1>8, <2>1, <2>2, <2>3, <2>4, <2>5 DEF Streaming
<1> QED
  BY <1>4, <1>5, <1>10, <1>12 DEF StreamInv, PhaseInv

(****************************************************************************)
(* What the host says under ATN                                             *)
(****************************************************************************)
LEMMA RunsSilent ==
  ASSUME NEW c, NEW v, NEW q \in Seq(Tokens), NEW w \in Courses, Runs(c, v, q, w),
         NEW t \in {<<"atn">>, <<"released">>, <<"ready">>}
  PROVE  Append(q, t) \in Seq(Tokens) /\ Runs(c, v, Append(q, t), w)
<1>1. t[1] \in {"atn", "released", "ready"} /\ t \in Tokens
  BY AToken DEF Signals
<1>2. Turn(c, w, t, w)
  BY <1>1 DEF Turn, Ends, Commands
<1> QED
  BY <1>1, <1>2, RunsAppend

LEMMA RunsUnlisten ==
  ASSUME NEW c, NEW v, NEW q \in Seq(Tokens), NEW w \in Courses, Runs(c, v, q, w)
  PROVE  /\ Append(Append(q, <<"atn">>), <<"released">>) \in Seq(Tokens)
         /\ Runs(c, v, Append(Append(q, <<"atn">>), <<"released">>), w)
<1> DEFINE p == Append(q, <<"atn">>)
<1>1. p \in Seq(Tokens) /\ Runs(c, v, p, w)
  BY RunsSilent
<1> HIDE DEF p
<1>2. Append(p, <<"released">>) \in Seq(Tokens) /\ Runs(c, v, Append(p, <<"released">>), w)
  BY <1>1, RunsSilent
<1> QED
  BY <1>2 DEF p

(* Tokens without an address, for another channel or of no effect *)
LEMMA RunsStill ==
  ASSUME NEW c, NEW v, NEW q \in Seq(Tokens), NEW w \in Courses, Runs(c, v, q, w),
         NEW t \in Tokens, t[1] \in {"name", "byte", "end"},
         \/ w.at # c
         \/ t[1] = "byte" /\ w.mode = "write"
         \/ t[1] = "end" /\ w.cmd # "open"
  PROVE  Append(q, t) \in Seq(Tokens) /\ Runs(c, v, Append(q, t), w)
<1>1. Turn(c, w, t, w)
  BY DEF Turn, Ends, Commands
<1> QED
  BY <1>1, RunsAppend

LEMMA CourseIs ==
  ASSUME NEW w \in Courses
  PROVE  /\ w.at \in Channels /\ w.cmd \in Commands \cup {"none"}
         /\ w.mode \in {"naming", "closed"} \cup Kinds /\ w.name \in Names /\ w.pos \in Nat
BY DEF Courses

(* A command for channel d *)
Sent(c, w, command, d, x) ==
  /\ x.at = d /\ x.name = w.name /\ x.pos = w.pos
  /\ x.cmd = IF c = d THEN command ELSE w.cmd
  /\ x.mode = IF c = d /\ command = "open" THEN "naming"
              ELSE IF c = d /\ command = "close" THEN "closed" ELSE w.mode

LEMMA RunsCommand ==
  ASSUME NEW c, NEW v, NEW q \in Seq(Tokens), NEW w \in Courses, Runs(c, v, q, w),
         NEW command \in Commands, NEW d \in Channels
  PROVE  /\ AfterCommand(q, command, d) \in Seq(Tokens)
         /\ \E x \in Courses : /\ Runs(c, v, AfterCommand(q, command, d), x)
                              /\ Sent(c, w, command, d, x)
<1> DEFINE t == <<command, d>>
           p1 == Append(q, <<"atn">>)
           p2 == Append(p1, t)
<1>1. p1 \in Seq(Tokens) /\ Runs(c, v, p1, w)
  BY RunsSilent
<1>2. t \in Tokens /\ t[1] = command /\ t[2] = d
  BY AToken
<1>3. PICK x \in Courses : Sent(c, w, command, d, x)
  <2> DEFINE cmd == IF c = d THEN command ELSE w.cmd
             mode == IF c = d /\ command = "open" THEN "naming"
                     ELSE IF c = d /\ command = "close" THEN "closed" ELSE w.mode
  <2>1. cmd \in Commands \cup {"none"} /\ mode \in {"naming", "closed"} \cup Kinds
        /\ w.name \in Names /\ w.pos \in Nat
    BY CourseIs
  <2>2. \E x \in Courses : /\ x.at = d /\ x.cmd = cmd /\ x.mode = mode
                           /\ x.name = w.name /\ x.pos = w.pos
    <3> HIDE DEF cmd, mode
    <3> DEFINE x == [at |-> d, cmd |-> cmd, mode |-> mode, name |-> w.name, pos |-> w.pos]
    <3>1. x \in Courses
      BY <2>1 DEF Courses
    <3> QED
      BY <3>1
  <2> QED
    BY <2>2 DEF Sent
<1> HIDE DEF t, p1
<1>4. Turn(c, w, t, x)
  BY <1>2, <1>3 DEF Turn, Ends, Commands, Sent
<1>5. p2 \in Seq(Tokens) /\ Runs(c, v, p2, x)
  BY <1>1, <1>2, <1>4, RunsAppend
<1> HIDE DEF p2
<1>6. Append(p2, <<"released">>) \in Seq(Tokens) /\ Runs(c, v, Append(p2, <<"released">>), x)
  BY <1>5, RunsSilent
<1> QED
  BY <1>3, <1>6 DEF AfterCommand, p2, p1, t

(* The name of a file for the channel that has been told to open *)
OpenedAt(c, o, x) == x.at = c /\ x.name = o /\ x.mode = o.kind /\ x.pos = 0

AfterName(q, o) == Append(Append(q, <<"name", o>>), <<"end">>)

LEMMA RunsName ==
  ASSUME NEW c, NEW v, NEW q \in Seq(Tokens), NEW w \in Courses, Runs(c, v, q, w),
         w.at = c, w.mode = "naming", w.cmd = "open", NEW o \in Openings
  PROVE  /\ AfterName(q, o) \in Seq(Tokens)
         /\ \E x \in Courses : Runs(c, v, AfterName(q, o), x) /\ OpenedAt(c, o, x)
<1> DEFINE t == <<"name", o>>
           e == <<"end">>
           q1 == Append(q, t)
<1>1. t \in Tokens /\ t[1] = "name" /\ t[2] = o /\ e \in Tokens /\ e[1] = "end"
  BY AToken DEF Signals
<1>2. o \in Names /\ o.kind \in Kinds /\ w.pos \in Nat /\ w.at \in Channels
  BY OpeningIs, CourseIs
<1>3. PICK y \in Courses : /\ y.at = w.at /\ y.cmd = "open" /\ y.mode = "naming"
                           /\ y.name = o /\ y.pos = w.pos
  <2> DEFINE y == [at |-> w.at, cmd |-> "open", mode |-> "naming", name |-> o, pos |-> w.pos]
  <2>1. y \in Courses
    BY <1>2 DEF Courses, Commands
  <2> QED
    BY <2>1
<1> HIDE DEF t, e
<1>4. Turn(c, w, t, y)
  BY <1>1, <1>3 DEF Turn, Ends, Commands
<1>5. q1 \in Seq(Tokens) /\ Runs(c, v, q1, y)
  BY <1>1, <1>3, <1>4, RunsAppend
<1>6. PICK x \in Courses : /\ x.at = w.at /\ x.cmd = "open" /\ x.mode = o.kind
                           /\ x.name = o /\ x.pos = 0
  <2> DEFINE x == [at |-> w.at, cmd |-> "open", mode |-> o.kind, name |-> o, pos |-> 0]
  <2>1. x \in Courses
    BY <1>2 DEF Courses, Commands
  <2> QED
    BY <2>1
<1>7. Turn(c, y, e, x)
  BY <1>1, <1>3, <1>6 DEF Turn, Ends, Commands
<1> HIDE DEF q1
<1>8. Append(q1, e) \in Seq(Tokens) /\ Runs(c, v, Append(q1, e), x)
  BY <1>1, <1>3, <1>5, <1>6, <1>7, RunsAppend
<1>9. AfterName(q, o) = Append(q1, e)
  BY DEF AfterName, q1, t, e
<1>10. OpenedAt(c, o, x)
  BY <1>6 DEF OpenedAt
<1> QED
  BY <1>6, <1>8, <1>9, <1>10

(* The phases: what is said comes after the byte reports, with ATN first. *)
Calm == {t \in Tokens : t[1] # "popped"}

LEMMA SayPhases ==
  ASSUME TypeInv, HostInv, PhaseInv, bus = "attention", NEW s \in Seq(Calm), Len(s) >= 1,
         s[1] = <<"atn">>, up' = up \o s, UNCHANGED <<flush, pc, talking, current, chan>>
  PROVE  PhaseInv'
<1>1. PICK m, n \in Nat : m = Len(up) /\ n = Len(s)
  BY LenProperties DEF TypeInv
<1>2. up \in Seq(Tokens) /\ s \in Seq(Tokens)
  BY DEF TypeInv, Calm
<1>3. Len(up') = m + n /\ \A i \in 1 .. m + n : up'[i] = IF i <= m THEN up[i] ELSE s[i - m]
  BY <1>1, <1>2, ConcatProperties
<1>4. \A i \in 1 .. n : s[i][1] # "popped"
  <2>1. \A i \in 1 .. n : s[i] \in Calm
    BY <1>1
  <2> QED
    BY <2>1 DEF Calm
<1>5. n >= 1
  BY <1>1
<1>6. /\ \A i \in 1 .. m : up'[i] = up[i] /\ i \in 1 .. m + n
      /\ \A i \in m + 1 .. m + n : up'[i] = s[i - m] /\ i - m \in 1 .. n
  BY <1>1, <1>3
<1>7. up'[m + 1] = <<"atn">>
  <2>1. m + 1 \in m + 1 .. m + n /\ (m + 1) - m = 1
    BY <1>1, <1>5
  <2>2. up'[m + 1] = s[(m + 1) - m]
    BY <1>6, <2>1
  <2> QED
    BY <2>1, <2>2
<1>8. Flushing \/ Settled
  BY DEF PhaseInv, Streaming
<1>9. CASE Flushing
  <2>1. PICK k \in 0 .. Len(up) :
          /\ \A i \in 1 .. k : up[i] = <<"popped">>
          /\ \A i \in k + 1 .. Len(up) : up[i][1] # "popped"
          /\ k < Len(up) => up[k + 1] = <<"atn">>
          /\ Live(chan[current]) =>
               IF talking THEN InBuffer(chan[current])
               ELSE Pos(chan[current]) + k = chan[current].name.length
    BY <1>9 DEF Flushing
  <2>2. k \in Nat /\ k <= m
    BY <1>1, <2>1
  <2>3. \A i \in 1 .. k : up'[i] = <<"popped">>
    BY <1>1, <1>6, <2>1, <2>2
  <2>4. ASSUME NEW i \in k + 1 .. Len(up') PROVE up'[i][1] # "popped"
    <3>1. CASE i <= m
      BY <1>1, <1>6, <2>1, <2>2, <3>1
    <3>2. CASE ~(i <= m)
      <4>1. i \in m + 1 .. m + n
        BY <1>1, <1>3, <2>2, <3>2
      <4>2. up'[i] = s[i - m] /\ i - m \in 1 .. n
        BY <1>6, <4>1
      <4> QED
        BY <1>4, <4>2
    <3> QED
      BY <3>1, <3>2
  <2>5. up'[k + 1] = <<"atn">>
    <3>1. CASE k = m
      BY <1>7, <3>1
    <3>2. CASE k # m
      BY <1>1, <1>6, <2>1, <2>2, <3>2
    <3> QED
      BY <3>1, <3>2
  <2>6. k \in 0 .. Len(up')
    BY <1>1, <1>3, <2>2
  <2>7. Live(chan[current])' =>
               IF talking' THEN InBuffer(chan[current])'
               ELSE Pos(chan[current])' + k = (chan[current].name.length)'
    BY <2>1 DEF InBuffer
  <2>8. flush' /\ \A c \in (Channels \ {current})' : Fresh(chan[c])'
    BY <1>9 DEF Flushing
  <2>9. Flushing'
    BY <2>3, <2>4, <2>5, <2>6, <2>7, <2>8 DEF Flushing
  <2> QED
    BY <2>9 DEF PhaseInv
<1>10. CASE Settled
  <2>1. ASSUME NEW i \in 1 .. Len(up') PROVE up'[i][1] # "popped"
    <3>1. CASE i <= m
      BY <1>1, <1>3, <1>6, <1>10, <3>1 DEF Settled
    <3>2. CASE ~(i <= m)
      <4>1. i \in m + 1 .. m + n
        BY <1>1, <1>3, <3>2
      <4>2. up'[i] = s[i - m] /\ i - m \in 1 .. n
        BY <1>6, <4>1
      <4> QED
        BY <1>4, <4>2
    <3> QED
      BY <3>1, <3>2
  <2>2. Settled'
    BY <1>10, <2>1 DEF Settled
  <2> QED
    BY <2>2 DEF PhaseInv
<1> QED
  BY <1>8, <1>9, <1>10

LEMMA CourseSaid ==
  ASSUME CourseInv, UNCHANGED <<current, chan>>,
         \A c \in Channels, v, w \in Courses :
           Runs(c, v, up, w) /\ HostCourse(c, w) =>
             \E x \in Courses : Runs(c, v, up', x) /\ HostCourse(c, x)'
  PROVE  CourseInv'
<1>1. ASSUME NEW c \in Channels
      PROVE  \E v, x \in Courses : Matches(c, v)' /\ Runs(c, v, up', x) /\ HostCourse(c, x)'
  <2>1. PICK v, w \in Courses : Matches(c, v) /\ Runs(c, v, up, w) /\ HostCourse(c, w)
    BY DEF CourseInv
  <2>2. Matches(c, v)'
    BY <2>1 DEF Matches
  <2>3. PICK x \in Courses : Runs(c, v, up', x) /\ HostCourse(c, x)'
    BY <2>1
  <2> QED
    BY <2>1, <2>2, <2>3
<1> QED
  BY <1>1 DEF CourseInv, Runs

LEMMA SaidStreams ==
  ASSUME TypeInv, StreamInv, bus = "attention", UNCHANGED <<flush, task>>,
         NEW s \in Seq(Calm), Len(s) >= 1, s[1] = <<"atn">>, up' = up \o s,
         CourseInv', HostInv'
  PROVE  StreamInv'
<1>1. ReaderInv /\ HostInv /\ PhaseInv /\ UNCHANGED <<pc, talking, current, chan>>
  BY DEF StreamInv, task
<1>2. ReaderInv'
  BY <1>1 DEF ReaderInv
<1>3. PhaseInv'
  BY <1>1, SayPhases
<1> QED
  BY <1>2, <1>3 DEF StreamInv

(* Nothing of what is said makes the device talk. *)
Quiet == {t \in Tokens : t[1] # "popped" /\ t[1] # "ready"}

LEMMA QuietSaid ==
  ASSUME TypeInv, HostInv, bus = "attention", NEW s \in Seq(Quiet), up' = up \o s
  PROVE  /\ \A i \in 1 .. Len(up') : up'[i][1] # "ready"
         /\ s \in Seq(Calm)
<1>1. PICK m, n \in Nat : m = Len(up) /\ n = Len(s)
  BY LenProperties DEF TypeInv
<1>2. up \in Seq(Tokens) /\ s \in Seq(Tokens) /\ s \in Seq(Calm)
  <2>1. Quiet \subseteq Calm /\ Calm \subseteq Tokens
    BY DEF Quiet, Calm
  <2>2. s \in Seq(Calm)
    BY <2>1, SeqMonotonic
  <2> QED
    BY <2>1, <2>2, SeqMonotonic DEF TypeInv
<1>3. Len(up') = m + n /\ \A i \in 1 .. m + n : up'[i] = IF i <= m THEN up[i] ELSE s[i - m]
  BY <1>1, <1>2, ConcatProperties
<1>4. ASSUME NEW i \in 1 .. Len(up') PROVE up'[i][1] # "ready"
  <2>1. CASE i <= m
    <3>1. up'[i] = up[i] /\ i \in 1 .. Len(up)
      BY <1>1, <1>3, <2>1
    <3>2. up[i][1] # "ready"
      BY <3>1 DEF HostInv
    <3> QED
      BY <3>1, <3>2
  <2>2. CASE ~(i <= m)
    <3>1. i - m \in 1 .. Len(s) /\ up'[i] = s[i - m]
      BY <1>1, <1>3, <2>2
    <3>2. s[i - m] \in Quiet
      BY <3>1
    <3> QED
      BY <3>1, <3>2 DEF Quiet
  <2> QED
    BY <2>1, <2>2
<1> QED
  BY <1>2, <1>4

LEMMA QuietHost ==
  ASSUME TypeInv, HostInv, bus = "attention", NEW s \in Seq(Quiet), up' = up \o s,
         bus' = "free", UNCHANGED task,
         opened' \in [Channels -> Openings \cup {Nothing}],
         out' \in [Channels -> Seq(Int)], ended' \in [Channels -> BOOLEAN],
         \A c \in Channels : opened'[c].kind \in {"file", "dir"} =>
           /\ Len(out'[c]) <= opened'[c].length
           /\ ended'[c] <=> Len(out'[c]) = opened'[c].length
  PROVE  HostInv'
<1>1. \A i \in 1 .. Len(up') : up'[i][1] # "ready"
  BY QuietSaid
<1>2. pc' # "rx" => talking'
  BY DEF HostInv, task
<1> QED
  BY <1>1, <1>2 DEF HostInv

LEMMA QuietTokens ==
  /\ <<"atn">> \in Quiet /\ <<"released">> \in Quiet /\ <<"end">> \in Quiet
  /\ \A a \in Commands, d \in Channels : <<a, d>> \in Quiet
  /\ \A o \in Openings : <<"name", o>> \in Quiet
  /\ \A i \in Nat : <<"byte", i>> \in Quiet
<1>1. <<"atn">> \in Quiet /\ <<"released">> \in Quiet /\ <<"end">> \in Quiet
  BY AToken DEF Quiet, Signals
<1>2. ASSUME NEW a \in Commands, NEW d \in Channels PROVE <<a, d>> \in Quiet
  <2> DEFINE t == <<a, d>>
  <2>1. t[1] = a /\ a # "popped" /\ a # "ready" /\ t \in Tokens
    BY AToken DEF Commands
  <2> HIDE DEF t
  <2>2. t \in Quiet
    BY <2>1 DEF Quiet
  <2> QED
    BY <2>2 DEF t
<1>3. ASSUME NEW o \in Openings PROVE <<"name", o>> \in Quiet
  <2> DEFINE t == <<"name", o>>
  <2>1. t[1] = "name" /\ t \in Tokens
    BY AToken
  <2> HIDE DEF t
  <2>2. t \in Quiet
    BY <2>1 DEF Quiet
  <2> QED
    BY <2>2 DEF t
<1>4. ASSUME NEW i \in Nat PROVE <<"byte", i>> \in Quiet
  <2> DEFINE t == <<"byte", i>>
  <2>1. t[1] = "byte" /\ t \in Tokens
    BY AToken
  <2> HIDE DEF t
  <2>2. t \in Quiet
    BY <2>1 DEF Quiet
  <2> QED
    BY <2>2 DEF t
<1> QED
  BY <1>1, <1>2, <1>3, <1>4

LEMMA HostUntalkStreams == TypeInv /\ StreamInv /\ HostUntalk => StreamInv'
<1> SUFFICES ASSUME TypeInv, StreamInv, HostUntalk PROVE StreamInv'
  OBVIOUS
<1> DEFINE s == <<<<"atn">>, <<"released">>>>
<1>1. /\ bus = "attention" /\ bus' = "free" /\ UNCHANGED <<flush, task>>
      /\ UNCHANGED <<current, chan, opened, out, ended, on>>
      /\ up' = up \o s /\ up \in Seq(Tokens)
  BY DEF HostUntalk, Say, Unlisten, host, task, TypeInv
<1>2. s \in Seq(Quiet) /\ Len(s) >= 1 /\ s[1] = <<"atn">>
  <2>1. <<"atn">> \in Quiet /\ <<"released">> \in Quiet
    BY QuietTokens
  <2> QED
    BY <2>1
<1>3. up' = Append(Append(up, <<"atn">>), <<"released">>)
  BY <1>1, AToken, TwoTokens DEF Signals
<1>4. HostInv /\ CourseInv
  BY DEF StreamInv
<1> HIDE DEF s
<1>5. HostInv'
  BY <1>1, <1>2, <1>4, QuietHost DEF HostInv
<1>6. ASSUME NEW c \in Channels, NEW v \in Courses, NEW w \in Courses,
             Runs(c, v, up, w), HostCourse(c, w)
      PROVE  Runs(c, v, up', w) /\ HostCourse(c, w)'
  <2>1. HostCourse(c, w)'
    BY <1>1, <1>6 DEF HostCourse
  <2> QED
    BY <1>1, <1>3, <1>6, <2>1, RunsUnlisten
<1>7. CourseInv'
  BY <1>1, <1>4, <1>6, CourseSaid
<1>8. s \in Seq(Calm)
  BY <1>1, <1>2, <1>4, QuietSaid
<1> QED
  BY <1>1, <1>2, <1>5, <1>7, <1>8, SaidStreams

LEMMA HostCloseStreams ==
  ASSUME NEW d \in Channels PROVE TypeInv /\ StreamInv /\ HostClose(d) => StreamInv'
<1> SUFFICES ASSUME TypeInv, StreamInv, HostClose(d) PROVE StreamInv'
  OBVIOUS
<1> DEFINE a == <<"atn">>  b == <<"close", d>>  r == <<"released">>
           s == <<a, b, r>> \o <<a, r>>
<1>1. /\ bus = "attention" /\ bus' = "free" /\ UNCHANGED <<flush, task>>
      /\ UNCHANGED <<current, chan, out, ended, on>>
      /\ opened' = [opened EXCEPT ![d] = Nothing]
      /\ up' = up \o s /\ up \in Seq(Tokens)
  BY DEF HostClose, Say, Unlisten, task, TypeInv
<1>2. a \in Quiet /\ b \in Quiet /\ r \in Quiet /\ a \in Tokens /\ b \in Tokens /\ r \in Tokens
  BY QuietTokens, AToken DEF Commands, Signals
<1>4. HostInv /\ CourseInv
  BY DEF StreamInv
<1> HIDE DEF a, b, r
<1>3. /\ up' = Append(Append(Append(Append(Append(up, a), b), r), a), r)
      /\ s \in Seq(Quiet) /\ Len(s) >= 1 /\ s[1] = a
  <2>1. up \o (<<a, b, r>> \o <<a, r>>) = Append(Append(Append(Append(Append(up, a), b), r), a), r)
    BY <1>1, <1>2, ThreeAndTwo
  <2>2. <<a, b, r>> \in Seq(Quiet) /\ <<a, r>> \in Seq(Quiet) /\ Len(<<a, b, r>>) = 3
        /\ Len(<<a, r>>) = 2 /\ <<a, b, r>>[1] = a
    BY <1>2
  <2>3. s \in Seq(Quiet) /\ Len(s) = 5 /\ s[1] = a
    BY <2>2, ConcatProperties
  <2> HIDE DEF s
  <2> QED
    BY <1>1, <2>1, <2>3 DEF s
<1> HIDE DEF s
<1>5. HostInv'
  <2>1. opened' \in [Channels -> Openings \cup {Nothing}]
    BY <1>1, <1>4 DEF HostInv
  <2>2. out' \in [Channels -> Seq(Int)] /\ ended' \in [Channels -> BOOLEAN]
    BY <1>1, <1>4 DEF HostInv
  <2>3. ASSUME NEW c \in Channels, opened'[c].kind \in {"file", "dir"}
        PROVE  /\ Len(out'[c]) <= opened'[c].length
               /\ ended'[c] <=> Len(out'[c]) = opened'[c].length
    <3>1. opened'[c] = opened[c]
      BY <1>1, <1>4, <2>3 DEF HostInv, Nothing
    <3> QED
      BY <1>1, <1>4, <2>3, <3>1 DEF HostInv
  <2> QED
    BY <1>1, <1>3, <1>4, <2>1, <2>2, <2>3, QuietHost
<1>6. ASSUME NEW c \in Channels, NEW v \in Courses, NEW w \in Courses,
             Runs(c, v, up, w), HostCourse(c, w)
      PROVE  \E x \in Courses : Runs(c, v, up', x) /\ HostCourse(c, x)'
  <2> DEFINE p == AfterCommand(up, "close", d)
  <2>1. p \in Seq(Tokens) /\ \E x \in Courses : Runs(c, v, p, x) /\ Sent(c, w, "close", d, x)
    <3>1. "close" \in Commands
      BY DEF Commands
    <3> QED
      BY <1>1, <1>6, <3>1, RunsCommand
  <2>2. up' = Append(Append(p, a), r)
    BY <1>3 DEF AfterCommand, a, b, r
  <2> HIDE DEF p
  <2>3. PICK x \in Courses : Runs(c, v, p, x) /\ Sent(c, w, "close", d, x)
    BY <2>1
  <2>4. Runs(c, v, up', x)
    BY <2>1, <2>2, <2>3, RunsUnlisten DEF a, r
  <2>5. HostCourse(c, x)'
    <3>1. CASE c = d
      <4>1. opened'[c].kind = "closed" /\ x.mode = "closed"
        BY <1>1, <1>4, <2>3, <3>1 DEF HostInv, Nothing, Sent
      <4> QED
        BY <1>1, <4>1 DEF HostCourse
    <3>2. CASE c # d
      <4>1. opened'[c] = opened[c] /\ x.mode = w.mode /\ x.name = w.name /\ x.pos = w.pos
        BY <1>1, <1>4, <2>3, <3>2 DEF HostInv, Sent
      <4> QED
        BY <1>1, <1>6, <4>1 DEF HostCourse
    <3> QED
      BY <3>1, <3>2
  <2> QED
    BY <2>4, <2>5
<1>7. CourseInv'
  BY <1>1, <1>4, <1>6, CourseSaid
<1>8. s \in Seq(Calm)
  BY <1>1, <1>3, <1>4, QuietSaid
<1> QED
  BY <1>1, <1>3, <1>5, <1>7, <1>8, SaidStreams DEF a

(* A file that is written concerns no reader. *)
LEMMA HostWriteStreams ==
  ASSUME NEW d \in Channels PROVE TypeInv /\ StreamInv /\ HostWrite(d) => StreamInv'
<1> SUFFICES ASSUME TypeInv, StreamInv, HostWrite(d) PROVE StreamInv'
  OBVIOUS
<1> DEFINE a == <<"atn">>  b == <<"data", d>>  r == <<"released">>
           y == <<"byte", sent[d]>>  e == <<"end">>
           s == <<a, b, r, y, e>> \o <<a, r>>
<1>1. /\ bus = "attention" /\ bus' = "free" /\ UNCHANGED <<flush, task>>
      /\ UNCHANGED <<current, chan, opened, out, ended, on>>
      /\ opened[d].kind = "write" /\ sent[d] \in Nat
      /\ up' = up \o s /\ up \in Seq(Tokens)
  BY DEF HostWrite, Say, Unlisten, task, TypeInv
<1>2. /\ a \in Quiet /\ b \in Quiet /\ r \in Quiet /\ y \in Quiet /\ e \in Quiet
      /\ a \in Tokens /\ b \in Tokens /\ r \in Tokens /\ y \in Tokens /\ e \in Tokens
      /\ y[1] = "byte" /\ e[1] = "end"
  BY <1>1, QuietTokens, AToken DEF Commands, Signals
<1>4. HostInv /\ CourseInv
  BY DEF StreamInv
<1> HIDE DEF a, b, r, y, e
<1>3. /\ up' = Append(Append(Append(Append(Append(Append(Append(up, a), b), r), y), e), a), r)
      /\ s \in Seq(Quiet) /\ Len(s) >= 1 /\ s[1] = a
  <2>1. up \o (<<a, b, r, y, e>> \o <<a, r>>) =
          Append(Append(Append(Append(Append(Append(Append(up, a), b), r), y), e), a), r)
    BY <1>1, <1>2, FiveAndTwo, SMTT(60)
  <2>2. <<a, b, r, y, e>> \in Seq(Quiet) /\ <<a, r>> \in Seq(Quiet) /\ Len(<<a, b, r, y, e>>) = 5
        /\ Len(<<a, r>>) = 2 /\ <<a, b, r, y, e>>[1] = a
    BY <1>2
  <2>3. s \in Seq(Quiet) /\ Len(s) = 7 /\ s[1] = a
    BY <2>2, ConcatProperties
  <2>4. up' = up \o (<<a, b, r, y, e>> \o <<a, r>>)
    BY <1>1
  <2>5. up' = Append(Append(Append(Append(Append(Append(Append(up, a), b), r), y), e), a), r)
    BY <2>1, <2>4, Zenon
  <2> HIDE DEF s
  <2>6. s \in Seq(Quiet) /\ Len(s) >= 1 /\ s[1] = a
    BY <2>3
  <2> QED
    BY <2>5, <2>6, Zenon
<1> HIDE DEF s
<1>5. HostInv'
  BY <1>1, <1>3, <1>4, QuietHost DEF HostInv
<1>6. ASSUME NEW c \in Channels, NEW v \in Courses, NEW w \in Courses,
             Runs(c, v, up, w), HostCourse(c, w)
      PROVE  \E x \in Courses : Runs(c, v, up', x) /\ HostCourse(c, x)'
  <2> DEFINE p == AfterCommand(up, "data", d)
             p1 == Append(p, y)
             p2 == Append(p1, e)
  <2>1. p \in Seq(Tokens) /\ \E x \in Courses : Runs(c, v, p, x) /\ Sent(c, w, "data", d, x)
    <3>1. "data" \in Commands
      BY DEF Commands
    <3> QED
      BY <1>1, <1>6, <3>1, RunsCommand
  <2>2. up' = Append(Append(p2, a), r)
    BY <1>3 DEF AfterCommand, a, b, r
  <2> HIDE DEF p
  <2>3. PICK x \in Courses : Runs(c, v, p, x) /\ Sent(c, w, "data", d, x)
    BY <2>1
  <2>4. /\ x.at = d /\ x.name = w.name /\ x.pos = w.pos /\ x.mode = w.mode
        /\ c = d => x.cmd = "data" /\ x.mode = "write"
    BY <1>1, <1>6, <2>3 DEF Sent, HostCourse
  <2>5. p1 \in Seq(Tokens) /\ Runs(c, v, p1, x)
    BY <1>2, <2>1, <2>3, <2>4, RunsStill
  <2> HIDE DEF p1
  <2>6. p2 \in Seq(Tokens) /\ Runs(c, v, p2, x)
    BY <1>2, <2>4, <2>5, RunsStill
  <2> HIDE DEF p2
  <2>7. Runs(c, v, up', x)
    BY <2>2, <2>6, RunsUnlisten DEF a, r
  <2>8. HostCourse(c, x)'
    BY <1>1, <1>6, <2>4 DEF HostCourse
  <2> QED
    BY <2>7, <2>8
<1>7. CourseInv'
  BY <1>1, <1>4, <1>6, CourseSaid
<1>8. s \in Seq(Calm)
  BY <1>1, <1>3, <1>4, QuietSaid
<1> QED
  BY <1>1, <1>3, <1>5, <1>7, <1>8, SaidStreams DEF a

LEMMA HasBytes ==
  ASSUME FilesHaveBytes, NEW o \in Openings, o.kind \in {"file", "dir"}
  PROVE  o.length > 0
<1>1. o.length \in Nat /\ (o.kind = "dir" => \E m \in Nat : m >= 2 /\ o.length = Block * m)
  BY OpeningIs
<1>2. ASSUME NEW m \in Nat, m >= 2 PROVE Block * m > 0
  <2>1. Block * m = Block + Block * (m - 1) /\ m - 1 \in Nat
    BY BlockFacts, <1>2
  <2>2. Block * (m - 1) \in Nat
    BY BlockFacts, <2>1
  <2> QED
    BY BlockFacts, <2>1, <2>2
<1> QED
  BY <1>1, <1>2 DEF FilesHaveBytes

LEMMA HostOpenStreams ==
  ASSUME NEW d \in Channels, NEW o \in Openings
  PROVE  FilesHaveBytes /\ TypeInv /\ StreamInv /\ HostOpen(d, o) => StreamInv'
<1> SUFFICES ASSUME FilesHaveBytes, TypeInv, StreamInv, HostOpen(d, o) PROVE StreamInv'
  OBVIOUS
<1> DEFINE a == <<"atn">>  b == <<"open", d>>  r == <<"released">>
           y == <<"name", o>>  e == <<"end">>
           s == <<a, b, r, y, e>> \o <<a, r>>
<1>1. /\ bus = "attention" /\ bus' = "free" /\ UNCHANGED <<flush, task>>
      /\ UNCHANGED <<current, chan, on>>
      /\ opened' = [opened EXCEPT ![d] = o]
      /\ out' = [out EXCEPT ![d] = <<>>] /\ ended' = [ended EXCEPT ![d] = FALSE]
      /\ up' = up \o s /\ up \in Seq(Tokens)
  BY DEF HostOpen, Say, Unlisten, task, TypeInv
<1>2. /\ a \in Quiet /\ b \in Quiet /\ r \in Quiet /\ y \in Quiet /\ e \in Quiet
      /\ a \in Tokens /\ b \in Tokens /\ r \in Tokens /\ y \in Tokens /\ e \in Tokens
      /\ y[1] = "name" /\ e[1] = "end"
  BY <1>1, QuietTokens, AToken DEF Commands, Signals
<1>4. /\ HostInv /\ CourseInv /\ opened \in [Channels -> Openings \cup {Nothing}]
      /\ out \in [Channels -> Seq(Int)] /\ ended \in [Channels -> BOOLEAN]
  BY DEF StreamInv, HostInv
<1> HIDE DEF a, b, r, y, e
<1>3. /\ up' = Append(Append(Append(Append(Append(Append(Append(up, a), b), r), y), e), a), r)
      /\ s \in Seq(Quiet) /\ Len(s) >= 1 /\ s[1] = a
  <2>1. up \o (<<a, b, r, y, e>> \o <<a, r>>) =
          Append(Append(Append(Append(Append(Append(Append(up, a), b), r), y), e), a), r)
    BY <1>1, <1>2, FiveAndTwo, SMTT(60)
  <2>2. <<a, b, r, y, e>> \in Seq(Quiet) /\ <<a, r>> \in Seq(Quiet) /\ Len(<<a, b, r, y, e>>) = 5
        /\ Len(<<a, r>>) = 2 /\ <<a, b, r, y, e>>[1] = a
    BY <1>2
  <2>3. s \in Seq(Quiet) /\ Len(s) = 7 /\ s[1] = a
    BY <2>2, ConcatProperties
  <2>4. up' = up \o (<<a, b, r, y, e>> \o <<a, r>>)
    BY <1>1
  <2>5. up' = Append(Append(Append(Append(Append(Append(Append(up, a), b), r), y), e), a), r)
    BY <2>1, <2>4, Zenon
  <2> HIDE DEF s
  <2>6. s \in Seq(Quiet) /\ Len(s) >= 1 /\ s[1] = a
    BY <2>3
  <2> QED
    BY <2>5, <2>6, Zenon
<1> HIDE DEF s
<1>5. HostInv'
  <2>1. opened' \in [Channels -> Openings \cup {Nothing}]
    BY <1>1, <1>4
  <2>2. out' \in [Channels -> Seq(Int)] /\ ended' \in [Channels -> BOOLEAN]
    BY <1>1, <1>4
  <2>3. ASSUME NEW c \in Channels, opened'[c].kind \in {"file", "dir"}
        PROVE  /\ Len(out'[c]) <= opened'[c].length
               /\ ended'[c] <=> Len(out'[c]) = opened'[c].length
    <3>1. CASE c = d
      <4>1. opened'[c] = o /\ out'[c] = <<>> /\ ended'[c] = FALSE
        BY <1>1, <1>4, <3>1
      <4>2. o.length > 0 /\ o.length \in Nat
        BY <2>3, <4>1, HasBytes, OpeningIs
      <4> QED
        BY <4>1, <4>2
    <3>2. CASE c # d
      <4>1. opened'[c] = opened[c] /\ out'[c] = out[c] /\ ended'[c] = ended[c]
        BY <1>1, <1>4, <3>2
      <4> QED
        BY <1>4, <2>3, <4>1 DEF HostInv
    <3> QED
      BY <3>1, <3>2
  <2> QED
    BY <1>1, <1>3, <1>4, <2>1, <2>2, <2>3, QuietHost
<1>6. ASSUME NEW c \in Channels, NEW v \in Courses, NEW w \in Courses,
             Runs(c, v, up, w), HostCourse(c, w)
      PROVE  \E x \in Courses : Runs(c, v, up', x) /\ HostCourse(c, x)'
  <2> DEFINE p == AfterCommand(up, "open", d)
             p1 == Append(p, y)
             p2 == Append(p1, e)
  <2>1. p \in Seq(Tokens) /\ \E x \in Courses : Runs(c, v, p, x) /\ Sent(c, w, "open", d, x)
    <3>1. "open" \in Commands
      BY DEF Commands
    <3> QED
      BY <1>1, <1>6, <3>1, RunsCommand
  <2>2. up' = Append(Append(p2, a), r)
    BY <1>3 DEF AfterCommand, a, b, r
  <2> HIDE DEF p
  <2>3. PICK x \in Courses : Runs(c, v, p, x) /\ Sent(c, w, "open", d, x)
    BY <2>1
  <2>4. /\ x.at = d /\ x.name = w.name /\ x.pos = w.pos
        /\ c = d => x.cmd = "open" /\ x.mode = "naming"
        /\ c # d => x.mode = w.mode
    BY <2>3 DEF Sent
  <2>5. CASE c = d
    <3>1. p2 = AfterName(p, o)
      BY DEF AfterName, y, e
    <3> HIDE DEF p2
    <3>2. p2 \in Seq(Tokens) /\ \E z \in Courses : Runs(c, v, p2, z) /\ OpenedAt(c, o, z)
      <4>1. x.at = c /\ x.mode = "naming" /\ x.cmd = "open"
        BY <2>4, <2>5
      <4>2. /\ AfterName(p, o) \in Seq(Tokens)
            /\ \E z \in Courses : Runs(c, v, AfterName(p, o), z) /\ OpenedAt(c, o, z)
        BY <2>1, <2>3, <4>1, RunsName
      <4> QED
        BY <3>1, <4>2
    <3>3. PICK z \in Courses : Runs(c, v, p2, z) /\ OpenedAt(c, o, z)
      BY <3>2
    <3>4. Runs(c, v, up', z)
      BY <2>2, <3>2, <3>3, RunsUnlisten DEF a, r
    <3>5. opened'[c] = o /\ out'[c] = <<>>
      BY <1>1, <1>4, <2>5
    <3>6. HostCourse(c, z)'
      BY <1>1, <3>3, <3>5 DEF HostCourse, OpenedAt
    <3> QED
      BY <3>4, <3>6
  <2>6. CASE c # d
    <3>1. p1 \in Seq(Tokens) /\ Runs(c, v, p1, x)
      BY <1>2, <2>1, <2>3, <2>4, <2>6, RunsStill
    <3> HIDE DEF p1
    <3>2. p2 \in Seq(Tokens) /\ Runs(c, v, p2, x)
      BY <1>2, <2>4, <2>6, <3>1, RunsStill
    <3> HIDE DEF p2
    <3>3. Runs(c, v, up', x)
      BY <2>2, <3>2, RunsUnlisten DEF a, r
    <3>4. opened'[c] = opened[c] /\ out'[c] = out[c]
      BY <1>1, <1>4, <2>6
    <3>5. HostCourse(c, x)'
      BY <1>1, <1>6, <2>4, <2>6, <3>4 DEF HostCourse
    <3> QED
      BY <3>3, <3>5
  <2> QED
    BY <2>5, <2>6
<1>7. CourseInv'
  BY <1>1, <1>4, <1>6, CourseSaid
<1>8. s \in Seq(Calm)
  BY <1>1, <1>3, <1>4, QuietSaid
<1> QED
  BY <1>1, <1>3, <1>5, <1>7, <1>8, SaidStreams DEF a

LEMMA HostTalkStreams ==
  ASSUME NEW d \in Channels PROVE TypeInv /\ StreamInv /\ HostTalk(d) => StreamInv'
<1> SUFFICES ASSUME TypeInv, StreamInv, HostTalk(d) PROVE StreamInv'
  OBVIOUS
<1> DEFINE a == <<"atn">>  b == <<"data", d>>  r == <<"released">>  e == <<"ready">>
           s == <<a, b, r, e>>
<1>1. /\ bus = "attention" /\ bus' = "talk" /\ on' = d /\ heard' = FALSE
      /\ UNCHANGED <<flush, task>> /\ UNCHANGED <<current, chan, opened, out, ended, pc, talking>>
      /\ opened[d].kind \in {"file", "dir", "missing"} /\ ~ended[d]
      /\ up' = up \o s /\ up \in Seq(Tokens)
  BY DEF HostTalk, Say, task, TypeInv
<1>2. /\ a \in Quiet /\ b \in Quiet /\ r \in Quiet /\ e \in Calm
      /\ a \in Tokens /\ b \in Tokens /\ r \in Tokens /\ e \in Tokens
  BY QuietTokens, AToken DEF Commands, Signals, Calm
<1>4. HostInv /\ CourseInv
  BY DEF StreamInv
<1>9. a[1] # "ready" /\ b[1] # "ready" /\ r[1] # "ready"
  OBVIOUS
<1> HIDE DEF a, b, r, e
<1>3. up' = Append(Append(Append(Append(up, a), b), r), e)
  BY <1>1, <1>2, FourTokens
<1>10. /\ s \in Seq(Calm) /\ s \in Seq(Tokens) /\ Len(s) = 4 /\ s[1] = a
       /\ \A i \in 1 .. 3 : s[i][1] # "ready"
  <2>1. a \in Calm /\ b \in Calm /\ r \in Calm
    BY <1>2 DEF Quiet, Calm
  <2>2. s \in Seq(Calm) /\ s \in Seq(Tokens) /\ Len(s) = 4
    BY <1>2, <2>1
  <2>3. s[1] = a /\ s[2] = b /\ s[3] = r
    OBVIOUS
  <2> HIDE DEF s
  <2>4. ASSUME NEW i \in 1 .. 3 PROVE s[i][1] # "ready"
    BY <1>9, <2>3
  <2> QED
    BY <2>2, <2>3, <2>4
<1> HIDE DEF s
<1>5. HostInv'
  <2>1. PICK m \in Nat : m = Len(up)
    BY <1>1, LenProperties
  <2>2. Len(up') = m + 4 /\ \A i \in 1 .. m + 4 : up'[i] = IF i <= m THEN up[i] ELSE s[i - m]
    <3>1. /\ Len(up \o s) = Len(up) + Len(s)
          /\ \A i \in 1 .. Len(up) + Len(s) :
               (up \o s)[i] = IF i <= Len(up) THEN up[i] ELSE s[i - Len(up)]
      BY <1>1, <1>10, ConcatProperties
    <3> QED
      BY <1>1, <1>10, <2>1, <3>1
  <2>3. ASSUME NEW i \in 1 .. Len(up'), up'[i][1] = "ready" PROVE i = Len(up')
    <3>1. CASE i <= m
      <4>1. up'[i] = up[i] /\ i \in 1 .. Len(up)
        BY <2>1, <2>2, <3>1
      <4>2. up[i][1] # "ready"
        BY <1>1, <1>4, <4>1 DEF HostInv
      <4> QED
        BY <2>3, <4>1, <4>2
    <3>2. CASE m < i /\ i <= m + 3
      <4>1. up'[i] = s[i - m] /\ i - m \in 1 .. 3
        BY <2>1, <2>2, <3>2
      <4>2. s[i - m][1] # "ready"
        BY <1>10, <4>1
      <4> QED
        BY <2>3, <4>1, <4>2
    <3> QED
      BY <2>1, <2>2, <3>1, <3>2
  <2>4. \A i \in 1 .. Len(up') : up'[i][1] = "ready" => i = Len(up') /\ bus' = "talk"
    BY <1>1, <2>3
  <2>5. pc' # "rx" => talking'
    BY <1>1, <1>4 DEF HostInv
  <2> QED
    BY <1>1, <1>4, <2>4, <2>5 DEF HostInv
<1>6. ASSUME NEW c \in Channels, NEW v \in Courses, NEW w \in Courses,
             Runs(c, v, up, w), HostCourse(c, w)
      PROVE  \E x \in Courses : Runs(c, v, up', x) /\ HostCourse(c, x)'
  <2> DEFINE p == AfterCommand(up, "data", d)
  <2>1. p \in Seq(Tokens) /\ \E x \in Courses : Runs(c, v, p, x) /\ Sent(c, w, "data", d, x)
    <3>1. "data" \in Commands
      BY DEF Commands
    <3> QED
      BY <1>1, <1>6, <3>1, RunsCommand
  <2>2. up' = Append(p, e)
    BY <1>3 DEF AfterCommand, a, b, r
  <2> HIDE DEF p
  <2>3. PICK x \in Courses : Runs(c, v, p, x) /\ Sent(c, w, "data", d, x)
    BY <2>1
  <2>4. Runs(c, v, up', x)
    BY <2>1, <2>2, <2>3, RunsSilent DEF e
  <2>5. x.at = d /\ x.name = w.name /\ x.pos = w.pos /\ x.mode = w.mode
    BY <2>3 DEF Sent
  <2>6. HostCourse(c, x)'
    BY <1>1, <1>6, <2>5 DEF HostCourse
  <2> QED
    BY <2>4, <2>6
<1>7. CourseInv'
  BY <1>1, <1>4, <1>6, CourseSaid
<1>8. s \in Seq(Calm) /\ Len(s) >= 1 /\ s[1] = <<"atn">>
  BY <1>10 DEF a
<1> QED
  BY <1>1, <1>5, <1>7, <1>8, SaidStreams

(****************************************************************************)
(* The invariant and the refinement                                         *)
(****************************************************************************)
LEMMA InitStreams == Init => StreamInv
<1> SUFFICES ASSUME Init PROVE StreamInv
  OBVIOUS
<1>1. /\ bus = "free" /\ up = <<>> /\ flush = TRUE /\ pc = "rx" /\ talking = FALSE
      /\ current \in Channels /\ chan = [c \in Channels |-> Start]
      /\ opened = [c \in Channels |-> Nothing] /\ out = [c \in Channels |-> <<>>]
      /\ ended = [c \in Channels |-> FALSE]
  BY DEF Init
<1>2. Start.state = "idle" /\ Start.last_command = "none" /\ Start.name = Nothing
  BY DEF Start
<1>3. ASSUME NEW c \in Channels
      PROVE  /\ chan[c] = Start /\ opened[c] = Nothing /\ out[c] = <<>> /\ ended[c] = FALSE
             /\ ~Live(chan[c])
  BY <1>1, <1>2 DEF Live
<1>4. ReaderInv
  BY <1>3 DEF ReaderInv
<1>5. HostInv
  <2>1. /\ opened \in [Channels -> Openings \cup {Nothing}]
        /\ out \in [Channels -> Seq(Int)] /\ ended \in [Channels -> BOOLEAN]
    BY <1>1
  <2>2. \A c \in Channels : opened[c].kind \notin {"file", "dir"}
    <3>1. Nothing.kind = "closed"
      BY DEF Nothing
    <3> QED
      BY <1>3, <3>1
  <2> QED
    BY <1>1, <2>1, <2>2 DEF HostInv
<1>6. PhaseInv
  BY <1>1, <1>3 DEF PhaseInv, Settled, Fresh
<1>7. ASSUME NEW c \in Channels
      PROVE  \E v, w \in Courses : Matches(c, v) /\ Runs(c, v, up, w) /\ HostCourse(c, w)
  <2>1. Nothing \in Names
    BY DEF Nothing, Names
  <2>2. PICK v \in Courses : /\ v.at = current /\ v.cmd = "none" /\ v.mode = "closed"
                             /\ v.name = Nothing /\ v.pos = 0
    <3> DEFINE v == [at |-> current, cmd |-> "none", mode |-> "closed", name |-> Nothing, pos |-> 0]
    <3>1. v \in Courses
      BY <1>1, <2>1 DEF Courses
    <3> QED
      BY <3>1
  <2>3. Matches(c, v)
    BY <1>2, <1>3, <2>2 DEF Matches
  <2>4. Runs(c, v, up, v)
    <3> DEFINE f == [i \in 0 .. 0 |-> v]
    <3>1. Len(up) = 0 /\ f \in [0 .. 0 -> Courses] /\ f[0] = v
      BY <1>1, <2>2
    <3> HIDE DEF f
    <3> QED
      BY <3>1 DEF Runs
  <2>5. HostCourse(c, v)
    BY <1>1, <1>3, <2>2 DEF HostCourse, Nothing
  <2> QED
    BY <2>2, <2>3, <2>4, <2>5
<1>8. CourseInv
  BY <1>7 DEF CourseInv
<1> QED
  BY <1>4, <1>5, <1>6, <1>8 DEF StreamInv

(* The files of a host that reads have bytes, and it interrupts a talker    *)
(* only far from the end of the file.                                       *)
PatientHost == Interrupts = "far" /\ FilesHaveBytes

LEMMA StepStreams ==
  PatientHost /\ TypeInv /\ TypeInv' /\ StreamInv /\ [Next]_vars => StreamInv'
<1> SUFFICES ASSUME PatientHost, TypeInv, TypeInv', StreamInv, [Next]_vars PROVE StreamInv'
  OBVIOUS
<1>1. CASE Task
  BY <1>1, HandleStreams, TransmitStreams, PutStreams DEF Task, PatientHost
<1>2. CASE Bus
  BY <1>2, BusByteStreams, BusErrorStreams DEF Bus
<1>3. CASE Host
  BY <1>3, AttentionStreams, HostTimeoutStreams, HostUntalkStreams, HostTalkStreams,
     HostWriteStreams, HostCloseStreams, HostOpenStreams DEF Host, PatientHost
<1>4. CASE UNCHANGED vars
  <2>1. UNCHANGED <<bus, up, down, flush, pc, talking, current, chan, opened, out, ended, heard, on>>
    BY <1>4 DEF vars, fifos, task, host
  <2>2. ReaderInv' /\ PhaseInv' /\ HostInv'
    <3>1. ReaderInv /\ PhaseInv /\ HostInv
      BY DEF StreamInv
    <3>2. ReaderInv'
      BY <2>1, <3>1 DEF ReaderInv
    <3>3. PhaseInv'
      <4>1. Streaming => Streaming'
        <5>1. \A i : GoodEntry(i)' <=> GoodEntry(i)
          BY <2>1 DEF GoodEntry, Taken
        <5>2. (Talk => Talk') /\ (Paused => Paused')
          BY <2>1, <5>1 DEF Talk, Paused, Taken, LastBlock
        <5>3. Taken' = Taken
          BY <2>1 DEF Taken
        <5> QED
          BY <2>1, <5>2, <5>3 DEF Streaming
      <4>2. Flushing => Flushing'
        BY <2>1 DEF Flushing, InBuffer
      <4>3. Settled => Settled'
        BY <2>1 DEF Settled
      <4> QED
        BY <3>1, <4>1, <4>2, <4>3 DEF PhaseInv
    <3>4. HostInv'
      BY <2>1, <3>1 DEF HostInv
    <3> QED
      BY <3>2, <3>3, <3>4
  <2>3. CourseInv'
    BY <2>1 DEF StreamInv, CourseInv, Matches, HostCourse, Runs
  <2> QED
    BY <2>2, <2>3 DEF StreamInv
<1> QED
  BY <1>1, <1>2, <1>3, <1>4 DEF Next

StreamLength == [c \in Channels |-> opened[c].length]
StreamVars == <<StreamLength, out, ended>>

LEMMA ByteReads == TypeInv /\ StreamInv /\ BusByte => Stream!Read(on)
<1> SUFFICES ASSUME TypeInv, StreamInv, BusByte PROVE Stream!Read(on)
  OBVIOUS
<1>1. /\ on \in Channels /\ Taken \in Nat /\ Taken < opened[on].length
      /\ out' = [out EXCEPT ![on] = Append(@, Taken)]
      /\ ended' = [ended EXCEPT ![on] = (Taken + 1 = opened[on].length)]
      /\ Taken' = Taken + 1
  BY ByteIsNext
<1>2. opened' = opened /\ on' = on
  BY DEF BusByte
<1>3. Len(out[on]) < StreamLength[on]
  BY <1>1 DEF StreamLength, Taken
<1>4. out' = [out EXCEPT ![on] = Append(@, Len(@))]
  BY <1>1 DEF Taken
<1>5. ended' = [ended EXCEPT ![on] = Len(out'[on]) = StreamLength[on]]
  BY <1>1, <1>2 DEF StreamLength, Taken
<1>6. StreamLength' = StreamLength
  BY <1>2 DEF StreamLength
<1> QED
  BY <1>3, <1>4, <1>5, <1>6 DEF Stream!Read, StreamLength

LEMMA OpenOpens ==
  ASSUME NEW d \in Channels, NEW o \in Openings, TypeInv, HostOpen(d, o)
  PROVE  Stream!Open(d, o.length)
<1>1. /\ opened \in [Channels -> Names] /\ opened' = [opened EXCEPT ![d] = o]
      /\ out' = [out EXCEPT ![d] = <<>>] /\ ended' = [ended EXCEPT ![d] = FALSE]
  BY DEF HostOpen, TypeInv
<1>2. StreamLength' = [StreamLength EXCEPT ![d] = o.length]
  BY <1>1 DEF StreamLength
<1> QED
  BY <1>1, <1>2 DEF Stream!Open, StreamLength

LEMMA CloseCloses ==
  ASSUME NEW d \in Channels, TypeInv, HostClose(d)
  PROVE  Stream!Close(d)
<1>1. /\ opened \in [Channels -> Names] /\ opened' = [opened EXCEPT ![d] = Nothing]
      /\ UNCHANGED <<out, ended>> /\ Nothing.length = 0
  BY DEF HostClose, TypeInv, Nothing
<1>2. StreamLength' = [StreamLength EXCEPT ![d] = 0]
  BY <1>1 DEF StreamLength
<1> QED
  BY <1>1, <1>2 DEF Stream!Close, StreamLength

LEMMA OthersStutter ==
  ASSUME \/ Task \/ BusError \/ Drain \/ Attention \/ HostTimeout \/ HostUntalk
         \/ (\E c \in Channels : HostTalk(c) \/ HostWrite(c))
         \/ UNCHANGED vars
  PROVE  UNCHANGED StreamVars
<1>1. UNCHANGED <<opened, out, ended>>
  BY DEF Task, Handle, Transmit, ReadTxStatus, Put, BusError, Drain, Attention, HostTimeout,
         HostUntalk, HostTalk, HostWrite, host, vars
<1> QED
  BY <1>1 DEF StreamVars, StreamLength

(* What the host gets of a channel that it reads is the file byte by byte,  *)
(* each once and in order, with the end on its last byte and only there,    *)
(* over interruptions, timeouts, read errors and other channels: for every  *)
(* size of the buffers, which IecChannel empties and fills again as the     *)
(* bytes are reported.                                                      *)
THEOREM StreamImplemented == PatientHost => (Spec => ImplementsStream)
<1> SUFFICES ASSUME PatientHost PROVE Spec => ImplementsStream
  OBVIOUS
<1>1. Init => Stream!Init
  <2> SUFFICES ASSUME Init PROVE Stream!Init
    OBVIOUS
  <2>1. StreamLength = [c \in Channels |-> 0]
    BY DEF Init, StreamLength, Nothing
  <2> QED
    BY <2>1 DEF Init, Stream!Init, StreamLength
<1>2. TypeInv /\ StreamInv /\ [Next]_vars => [Stream!Next]_(Stream!vars)
  <2> SUFFICES ASSUME TypeInv, StreamInv, [Next]_vars PROVE [Stream!Next]_(Stream!vars)
    OBVIOUS
  <2>1. CASE BusByte
    <3>1. on \in Channels /\ Stream!Read(on)
      BY <2>1, ByteReads DEF TypeInv
    <3> QED
      BY <3>1 DEF Stream!Next
  <2>2. ASSUME NEW d \in Channels, NEW o \in Openings, HostOpen(d, o) PROVE Stream!Next
    <3>1. Stream!Open(d, o.length)
      BY <2>2, OpenOpens
    <3> QED
      BY <3>1 DEF Stream!Next
  <2>3. ASSUME NEW d \in Channels, HostClose(d) PROVE Stream!Next
    <3>1. Stream!Close(d)
      BY <2>3, CloseCloses
    <3> QED
      BY <3>1 DEF Stream!Next
  <2>4. CASE \/ Task \/ BusError \/ Drain \/ Attention \/ HostTimeout \/ HostUntalk
             \/ (\E c \in Channels : HostTalk(c) \/ HostWrite(c))
             \/ UNCHANGED vars
    <3>1. UNCHANGED StreamVars
      BY <2>4, OthersStutter
    <3> QED
      BY <3>1 DEF StreamVars, StreamLength, Stream!vars
  <2> QED
    BY <2>1, <2>2, <2>3, <2>4 DEF Next, Bus, Host
<1>3. Inv => TypeInv
  BY DEF Inv
<1>4. TypeInv /\ TypeInv' /\ StreamInv /\ [Next]_vars => StreamInv'
  BY StepStreams
<1>5. Spec => []Inv
  BY Always
<1> QED
  BY <1>1, <1>2, <1>3, <1>4, <1>5, InitStreams, PTL DEF Spec, ImplementsStream, Stream!Spec
=============================================================================
