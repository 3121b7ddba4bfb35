---------------------------- MODULE IecTalkProofs -----------------------------
(****************************************************************************)
(* Proofs about the channels of the software IEC device, for every size of  *)
(* the block and of the FIFOs and for any number of channels and openings.  *)
(****************************************************************************)
EXTENDS IecTalk, SequenceTheorems, TLAPS

(****************************************************************************)
(* The types                                                                *)
(****************************************************************************)
Commands == {"open", "close", "data"}
Names == [kind : Kinds \cup {"closed"}, length : Nat]
Buffer == [0 .. Block - 1 -> Int]

ChannelStates ==
  [state : {"idle", "filename", "file", "dir", "complete", "error"}, write : BOOLEAN,
   last_command : Commands \cup {"none"}, name : Names,
   pointer : 0 .. Block - 1, prefetch : 0 .. Block, prefetch_max : 0 .. Block,
   last_byte : -1 .. Block - 1, size : Int, block : Nat, buffer : Buffer]

Signals == {"atn", "released", "ready", "popped", "end"}
Tokens ==
  {<<s>> : s \in Signals} \cup (Commands \X Channels)
  \cup ({"name"} \X Openings) \cup ({"byte"} \X Nat)

Bytes == [v : Int, kind : {"data", "last", "error"}]

TypeInv ==
  /\ bus \in {"free", "attention", "talk"}
  /\ up \in Seq(Tokens) /\ Len(up) <= UpDepth
  /\ down \in Seq(Bytes) /\ Len(down) <= Depth
  /\ flush \in BOOLEAN /\ (flush => down = <<>>)
  /\ pc \in {"rx", "tx", "put"} /\ (pc = "put" => Len(down) < Depth)
  /\ talking \in BOOLEAN /\ current \in Channels
  /\ chan \in [Channels -> ChannelStates]
  /\ stored \in [Channels -> Seq(Int)]
  /\ opened \in [Channels -> Names] /\ sent \in [Channels -> Nat]
  /\ on \in Channels /\ (bus = "talk" => opened[on].kind # "write")

(* While a file is read, block says how much of it has been read, and the  *)
(* last byte of the file, once it is in the buffer, is still to come.  A   *)
(* file that is written has none.                                          *)
Reading(ch) ==
  ch.state = "file" =>
    /\ ch.last_byte = -1 => 0 <= ch.size /\ ch.size = ch.name.length - ch.block * Block
    /\ ch.last_byte # -1 => ch.pointer <= ch.last_byte /\ ~ch.write

(****************************************************************************)
(* What the task is going to make of the FIFO                               *)
(****************************************************************************)
Writing(ch) == ch.state = "file" /\ ch.write

(* A channel, as far as it concerns writing: the channel that tokens without *)
(* an address go to, whether this one is being written, and how many bytes  *)
(* it has been given.                                                       *)
Views ==
  [at : Channels, mode : {"naming", "write", "other"}, cmd : Commands \cup {"none"},
   kind : Kinds \cup {"closed"}, count : Nat]

ModeOf(ch) ==
  IF ch.state = "filename" THEN "naming" ELSE IF Writing(ch) THEN "write" ELSE "other"

View(c) ==
  [at |-> current, mode |-> ModeOf(chan[c]), cmd |-> chan[c].last_command,
   kind |-> chan[c].name.kind,
   count |-> Len(stored[c]) + (IF Writing(chan[c]) THEN chan[c].pointer ELSE 0)]

(* When a token may come ... *)
Allowed(c, v, t) ==
  /\ t[1] = "open" /\ t[2] = c => v.mode # "write"
  /\ t[1] = "byte" /\ v.at = c => v.mode = "write" /\ t[2] = v.count
  /\ t[1] = "popped" /\ v.at = c => v.mode # "write"
  /\ t[1] = "end" /\ v.at = c /\ v.cmd = "open" => v.mode = "naming"

(* ... and what it does. *)
ModeAfter(v, command) ==
  CASE command = "open" -> "naming" [] command = "close" -> "other" [] OTHER -> v.mode

Does(c, v, t) ==
  CASE t[1] \in Commands /\ t[2] = c ->
         [v EXCEPT !.at = c, !.cmd = t[1], !.mode = ModeAfter(v, t[1])]
    [] t[1] \in Commands /\ t[2] # c -> [v EXCEPT !.at = t[2]]
    [] t[1] = "name" /\ v.at = c /\ v.mode = "naming" -> [v EXCEPT !.kind = t[2].kind]
    [] t[1] = "byte" /\ v.at = c -> [v EXCEPT !.count = @ + 1]
    [] t[1] = "end" /\ v.at = c /\ v.cmd = "open" ->
         [v EXCEPT !.mode = IF v.kind = "write" THEN "write" ELSE "other",
                   !.count = IF v.kind = "write" THEN 0 ELSE @]
    [] OTHER -> v

(* The tokens of q lead from view v to view w of channel c. *)
Leads(c, v, q, w) ==
  \E f \in [0 .. Len(q) -> Views] :
    /\ f[0] = v /\ f[Len(q)] = w
    /\ \A i \in 1 .. Len(q) : Allowed(c, f[i - 1], q[i]) /\ f[i] = Does(c, f[i - 1], q[i])

(* The host's view, which the channel gets when the FIFO has been read. *)
HostView(c, w) ==
  /\ w.mode # "naming" /\ (w.mode = "write" <=> opened[c].kind = "write")
  /\ w.count = sent[c]
  /\ bus = "talk" => w.at = on

ViewInv == \A c \in Channels : \E w \in Views : Leads(c, View(c), up, w) /\ HostView(c, w)

(* The bytes of channel c so far are those the host has sent, in order. *)
Content(c) ==
  /\ \A i \in 1 .. Len(stored[c]) : stored[c][i] = i - 1
  /\ Writing(chan[c]) =>
       \A i \in 0 .. chan[c].pointer - 1 : chan[c].buffer[i] = Len(stored[c]) + i

ReadingInv == \A c \in Channels : Reading(chan[c])
ContentInv == \A c \in Channels : Content(c)
Inv == TypeInv /\ ReadingInv /\ ViewInv /\ ContentInv

(****************************************************************************)
(* Tokens and views                                                         *)
(****************************************************************************)
LEMMA BlockFacts == Block \in Nat /\ Block >= 2 /\ Depth \in Nat /\ Depth >= 1
  BY TalkAssumption

LEMMA TokenIs ==
  ASSUME NEW t \in Tokens
  PROVE  /\ t[1] \in Commands => t[2] \in Channels
         /\ t[1] = "name" => t[2] \in Openings
         /\ t[1] = "byte" => t[2] \in Nat
         /\ t[1] \in Signals \cup Commands \cup {"name", "byte"}
  BY DEF Tokens, Signals, Commands

LEMMA AToken ==
  /\ \A s \in Signals : <<s>> \in Tokens
  /\ \A a \in Commands, c \in Channels : <<a, c>> \in Tokens
  /\ \A o \in Openings : <<"name", o>> \in Tokens
  /\ \A i \in Nat : <<"byte", i>> \in Tokens
  BY DEF Tokens

(* The cases of Does, one by one. *)
Addressed(c, v, t) ==
  [v EXCEPT !.at = c, !.cmd = t[1], !.mode = ModeAfter(v, t[1])]
Named(v, t) == [v EXCEPT !.kind = t[2].kind]
Given(v) == [v EXCEPT !.count = @ + 1]
Opened(v) ==
  [v EXCEPT !.mode = IF v.kind = "write" THEN "write" ELSE "other",
            !.count = IF v.kind = "write" THEN 0 ELSE @]

LEMMA DoesIs ==
  ASSUME NEW c, NEW v, NEW t
  PROVE  /\ t[1] \in Commands /\ t[2] = c => Does(c, v, t) = Addressed(c, v, t)
         /\ t[1] \in Commands /\ t[2] # c => Does(c, v, t) = [v EXCEPT !.at = t[2]]
         /\ t[1] = "name" /\ v.at = c /\ v.mode = "naming" => Does(c, v, t) = Named(v, t)
         /\ t[1] = "byte" /\ v.at = c => Does(c, v, t) = Given(v)
         /\ t[1] = "end" /\ v.at = c /\ v.cmd = "open" => Does(c, v, t) = Opened(v)
         /\ \/ t[1] \notin Commands \cup {"name", "byte", "end"}
            \/ t[1] \notin Commands /\ v.at # c
            \/ t[1] = "name" /\ v.mode # "naming"
            \/ t[1] = "end" /\ v.cmd # "open"
            => Does(c, v, t) = v
<1>1. t[1] \in Commands /\ t[2] = c => Does(c, v, t) = Addressed(c, v, t)
  BY DEF Does, Addressed, Commands
<1>2. t[1] \in Commands /\ t[2] # c => Does(c, v, t) = [v EXCEPT !.at = t[2]]
  BY DEF Does, Commands
<1>3. t[1] = "name" /\ v.at = c /\ v.mode = "naming" => Does(c, v, t) = Named(v, t)
  BY DEF Does, Named, Commands
<1>4. t[1] = "byte" /\ v.at = c => Does(c, v, t) = Given(v)
  BY DEF Does, Given, Commands
<1>5. t[1] = "end" /\ v.at = c /\ v.cmd = "open" => Does(c, v, t) = Opened(v)
  BY DEF Does, Opened, Commands
<1>6. \/ t[1] \notin Commands \cup {"name", "byte", "end"}
      \/ t[1] \notin Commands /\ v.at # c
      \/ t[1] = "name" /\ v.mode # "naming"
      \/ t[1] = "end" /\ v.cmd # "open"
      => Does(c, v, t) = v
  BY DEF Does, Commands
<1> QED
  BY <1>1, <1>2, <1>3, <1>4, <1>5, <1>6

LEMMA DoesType ==
  ASSUME NEW c \in Channels, NEW v \in Views, NEW t \in Tokens
  PROVE  Does(c, v, t) \in Views
<1>1. t[1] \in Commands => t[2] \in Channels
  BY TokenIs
<1>2. t[1] = "name" => t[2].kind \in Kinds
  BY TokenIs, TalkAssumption
<1>3. v.mode \in {"naming", "write", "other"} /\ v.count \in Nat /\ v.count + 1 \in Nat
  BY DEF Views
<1>4. ModeAfter(v, t[1]) \in {"naming", "write", "other"}
  BY <1>3 DEF ModeAfter
<1>5. t[1] \in Commands => Addressed(c, v, t) \in Views
  BY <1>4 DEF Addressed, Views
<1>6. t[1] \in Commands => [v EXCEPT !.at = t[2]] \in Views
  BY <1>1 DEF Views
<1>7. t[1] = "name" => Named(v, t) \in Views
  BY <1>2 DEF Named, Views
<1>8. Given(v) \in Views
  BY <1>3 DEF Given, Views
<1>9. Opened(v) \in Views
  <2>1. (IF v.kind = "write" THEN "write" ELSE "other") \in {"naming", "write", "other"}
    OBVIOUS
  <2>2. (IF v.kind = "write" THEN 0 ELSE v.count) \in Nat
    BY <1>3
  <2> QED
    BY <2>1, <2>2 DEF Opened, Views
<1> QED
  BY <1>5, <1>6, <1>7, <1>8, <1>9, DoesIs

(* Reading the first token, and appending one. *)
LEMMA LeadsTail ==
  ASSUME NEW c \in Channels, NEW v, NEW q \in Seq(Tokens), NEW w, q # <<>>,
         Leads(c, v, q, w)
  PROVE  Allowed(c, v, Head(q)) /\ Leads(c, Does(c, v, Head(q)), Tail(q), w)
<1>1. PICK f \in [0 .. Len(q) -> Views] :
        /\ f[0] = v /\ f[Len(q)] = w
        /\ \A i \in 1 .. Len(q) : Allowed(c, f[i - 1], q[i]) /\ f[i] = Does(c, f[i - 1], q[i])
  BY DEF Leads
<1>2. /\ Len(q) \in Nat /\ Len(q) >= 1 /\ Head(q) = q[1]
      /\ Len(Tail(q)) = Len(q) - 1
      /\ \A i \in 1 .. Len(Tail(q)) : Tail(q)[i] = q[i + 1]
  BY HeadTailProperties, LenProperties, EmptySeq
<1>3. Allowed(c, v, Head(q)) /\ f[1] = Does(c, v, Head(q))
  BY <1>1, <1>2
<1> DEFINE g == [i \in 0 .. Len(Tail(q)) |-> f[i + 1]]
<1>4. g \in [0 .. Len(Tail(q)) -> Views]
  BY <1>1, <1>2
<1>5. g[0] = f[1] /\ g[Len(Tail(q))] = w
  BY <1>1, <1>2
<1>6. ASSUME NEW i \in 1 .. Len(Tail(q))
      PROVE  Allowed(c, g[i - 1], Tail(q)[i]) /\ g[i] = Does(c, g[i - 1], Tail(q)[i])
  <2>1. g[i - 1] = f[i] /\ g[i] = f[i + 1] /\ Tail(q)[i] = q[i + 1] /\ i + 1 \in 1 .. Len(q)
    BY <1>2
  <2>2. (i + 1) - 1 = i
    BY <1>2
  <2> HIDE DEF g
  <2> QED
    BY <1>1, <2>1, <2>2
<1> HIDE DEF g
<1>7. Leads(c, f[1], Tail(q), w)
  BY <1>4, <1>5, <1>6 DEF Leads
<1> QED
  BY <1>3, <1>7

LEMMA LeadsAppend ==
  ASSUME NEW c \in Channels, NEW v, NEW q \in Seq(Tokens), NEW w \in Views,
         Leads(c, v, q, w), NEW t \in Tokens, Allowed(c, w, t)
  PROVE  /\ Append(q, t) \in Seq(Tokens) /\ Does(c, w, t) \in Views
         /\ Leads(c, v, Append(q, t), Does(c, w, t))
<1>1. PICK f \in [0 .. Len(q) -> Views] :
        /\ f[0] = v /\ f[Len(q)] = w
        /\ \A i \in 1 .. Len(q) : Allowed(c, f[i - 1], q[i]) /\ f[i] = Does(c, f[i - 1], q[i])
  BY DEF Leads
<1> DEFINE p == Append(q, t)
           x == Does(c, w, t)
           g == [i \in 0 .. Len(p) |-> IF i = Len(p) THEN x ELSE f[i]]
<1>2. /\ Len(q) \in Nat /\ p \in Seq(Tokens) /\ Len(p) = Len(q) + 1
      /\ p[Len(q) + 1] = t /\ \A i \in 1 .. Len(q) : p[i] = q[i]
  BY AppendProperties, LenProperties
<1>3. x \in Views
  BY DoesType
<1> HIDE DEF p, x
<1>4. g \in [0 .. Len(p) -> Views] /\ g[0] = v /\ g[Len(p)] = x
      /\ \A i \in 0 .. Len(q) : g[i] = f[i]
  BY <1>1, <1>2, <1>3
<1> HIDE DEF g
<1>5. ASSUME NEW i \in 1 .. Len(p)
      PROVE  Allowed(c, g[i - 1], p[i]) /\ g[i] = Does(c, g[i - 1], p[i])
  <2>1. CASE i = Len(p)
    <3>1. i - 1 = Len(q) /\ g[i - 1] = w /\ p[i] = t /\ g[i] = x
      BY <1>1, <1>2, <1>4, <2>1
    <3> QED
      BY <3>1 DEF x
  <2>2. CASE i # Len(p)
    <3>1. i \in 1 .. Len(q) /\ i - 1 \in 0 .. Len(q) /\ i \in 0 .. Len(q)
      BY <1>2, <2>2
    <3>2. g[i - 1] = f[i - 1] /\ g[i] = f[i] /\ p[i] = q[i]
      BY <1>2, <1>4, <3>1
    <3> QED
      BY <1>1, <3>1, <3>2
  <2> QED
    BY <2>1, <2>2
<1>6. Leads(c, v, p, x)
  BY <1>4, <1>5 DEF Leads
<1> QED
  BY <1>2, <1>3, <1>6 DEF p, x

(****************************************************************************)
(* The channels                                                             *)
(****************************************************************************)
LEMMA ChannelIs ==
  ASSUME NEW ch \in ChannelStates
  PROVE  /\ ch.state \in {"idle", "filename", "file", "dir", "complete", "error"}
         /\ ch.write \in BOOLEAN /\ ch.last_command \in Commands \cup {"none"}
         /\ ch.name \in Names /\ ch.name.length \in Nat
         /\ ch.pointer \in 0 .. Block - 1 /\ ch.prefetch \in 0 .. Block
         /\ ch.prefetch_max \in 0 .. Block /\ ch.last_byte \in -1 .. Block - 1
         /\ ch.size \in Int /\ ch.block \in Nat /\ ch.buffer \in Buffer
  BY DEF ChannelStates, Names

LEMMA FilledType ==
  ASSUME NEW ch, ch.block \in Nat, ch.buffer \in Buffer
  PROVE  Filled(ch) \in Buffer
<1>1. ASSUME NEW i \in 0 .. Block - 1
      PROVE  ch.block * Block + i \in Int /\ ch.buffer[i] \in Int
  BY BlockFacts DEF Buffer
<1> QED
  BY <1>1 DEF Filled, Buffer

(* What none of the operations changes *)
SameFile(ch, new) ==
  /\ new.last_command = ch.last_command /\ new.name = ch.name /\ new.write = ch.write

(* A block is only read while bytes of the file are left, or none were. *)
LEMMA ReadBlock ==
  ASSUME NEW ch \in ChannelStates, NEW fail \in BOOLEAN, ch.state = "file",
         ch.last_byte = -1, Reading(ch), ~ch.write
  PROVE  /\ read_block(ch, fail) \in ChannelStates /\ Reading(read_block(ch, fail))
         /\ SameFile(ch, read_block(ch, fail))
         /\ read_block(ch, fail).state \in {"file", "complete", "error"}
<1> DEFINE left == ch.name.length - ch.block * Block
           bytes == IF ch.block * Block + Block <= ch.name.length THEN Block
                    ELSE ch.name.length - ch.block * Block
           done == [ch EXCEPT !.state = IF bytes = 0 THEN "complete" ELSE @,
                      !.last_byte = IF bytes # Block THEN bytes - 1
                                    ELSE IF ch.size = Block THEN Block - 1 ELSE @,
                      !.size = @ - Block, !.block = @ + 1, !.buffer = Filled(ch),
                      !.pointer = 0, !.prefetch = 0, !.prefetch_max = Block]
<1>0. /\ ch.size \in Int /\ ch.block \in Nat /\ ch.name.length \in Nat /\ ch.buffer \in Buffer
      /\ Block \in Nat /\ Block >= 2 /\ ch.block * Block \in Nat
      /\ ch.size = left /\ left >= 0 /\ Filled(ch) \in Buffer
  BY ChannelIs, BlockFacts, FilledType DEF Reading
<1>1. (ch.block + 1) * Block = ch.block * Block + Block /\ ch.block + 1 \in Nat
  BY <1>0
<1>2. /\ bytes \in 0 .. Block /\ (bytes = Block => left >= Block)
      /\ (bytes # Block => bytes = left)
  BY <1>0
<1>3. CASE fail
  <2>1. read_block(ch, fail) = [ch EXCEPT !.state = "error"]
    BY <1>3 DEF read_block
  <2> QED
    BY <2>1 DEF ChannelStates, Reading, SameFile
<1>4. CASE ~fail
  <2>1. read_block(ch, fail) = done
    BY <1>4 DEF read_block
  <2> DEFINE last == IF bytes # Block THEN bytes - 1
                     ELSE IF ch.size = Block THEN Block - 1 ELSE ch.last_byte
             st == IF bytes = 0 THEN "complete" ELSE ch.state
  <2>2. /\ last \in -1 .. Block - 1 /\ st \in {"file", "complete"}
        /\ st = "file" /\ last = -1 => left - Block >= 0
        /\ last # -1 => 0 <= last
    BY <1>0, <1>2
  <2>3. /\ done.state = st /\ done.last_byte = last /\ done.size = ch.size - Block
        /\ done.block = ch.block + 1 /\ done.pointer = 0
        /\ done.name = ch.name /\ done.last_command = ch.last_command /\ done.write = ch.write
    BY DEF ChannelStates
  <2>4. done \in ChannelStates
    <3>1. ch.size - Block \in Int /\ 0 \in 0 .. Block - 1 /\ 0 \in 0 .. Block /\ Block \in 0 .. Block
      BY <1>0
    <3> HIDE DEF bytes
    <3> QED
      BY <1>0, <1>1, <2>2, <3>1 DEF ChannelStates
  <2>5. Reading(done)
    <3> HIDE DEF done, last, st, bytes
    <3>1. done.block * Block = ch.block * Block + Block
      BY <1>1, <2>3
    <3>2. done.size = left - Block /\ done.name.length - done.block * Block = left - Block
      BY <1>0, <2>3, <3>1
    <3> QED
      BY <1>0, <2>2, <2>3, <3>2 DEF Reading
  <2>6. SameFile(ch, done)
    BY <2>3 DEF SameFile
  <2> HIDE DEF done, st
  <2> QED
    BY <2>1, <2>2, <2>3, <2>4, <2>5, <2>6
<1> QED
  BY <1>3, <1>4

LEMMA PopData ==
  ASSUME NEW ch \in ChannelStates, NEW fail \in BOOLEAN, Reading(ch), ~Writing(ch)
  PROVE  /\ pop_data(ch, fail) \in ChannelStates /\ Reading(pop_data(ch, fail))
         /\ SameFile(ch, pop_data(ch, fail)) /\ ModeOf(pop_data(ch, fail)) = ModeOf(ch)
<1>0. /\ ch.pointer \in 0 .. Block - 1 /\ ch.last_byte \in -1 .. Block - 1 /\ ch.block \in Nat
      /\ ch.buffer \in Buffer /\ Block \in Nat /\ Block >= 2
  BY ChannelIs, BlockFacts
<1>1. CASE ch.state \notin {"file", "dir"}
  <2>1. pop_data(ch, fail) = ch
    BY <1>1 DEF pop_data
  <2> QED
    BY <2>1 DEF SameFile
<1>2. CASE ch.state \in {"file", "dir"} /\ ch.pointer = ch.last_byte
  <2>1. pop_data(ch, fail) = [ch EXCEPT !.state = "complete"]
    BY <1>2 DEF pop_data
  <2> QED
    BY <1>2, <2>1 DEF ChannelStates, Reading, SameFile, ModeOf, Writing
<1>3. CASE ch.state = "file" /\ ch.pointer # ch.last_byte /\ ch.pointer = Block - 1
  <2>1. pop_data(ch, fail) = read_block(ch, fail)
    BY <1>3 DEF pop_data
  <2>2. ch.last_byte = -1 /\ ~ch.write
    BY <1>0, <1>3 DEF Reading, Writing
  <2>3. /\ read_block(ch, fail) \in ChannelStates /\ Reading(read_block(ch, fail))
        /\ SameFile(ch, read_block(ch, fail))
        /\ read_block(ch, fail).state \in {"file", "complete", "error"}
    BY <1>3, <2>2, ReadBlock
  <2> QED
    BY <1>3, <2>1, <2>3 DEF SameFile, ModeOf, Writing
<1>4. CASE ch.state = "dir" /\ ch.pointer # ch.last_byte /\ ch.pointer = Block - 1
  <2> DEFINE last == (ch.block + 1) * Block = ch.name.length
  <2>1. pop_data(ch, fail) = read_dir_entry(ch)
    BY <1>4 DEF pop_data
  <2>2. /\ Filled(ch) \in Buffer /\ ch.block + 1 \in Nat
        /\ (IF last THEN Block - 1 ELSE Block) \in 0 .. Block
        /\ (IF last THEN Block - 1 ELSE ch.last_byte) \in -1 .. Block - 1
        /\ 0 \in 0 .. Block - 1 /\ 0 \in 0 .. Block
    BY <1>0, FilledType
  <2>3. read_dir_entry(ch) = [ch EXCEPT !.buffer = Filled(ch), !.block = @ + 1,
                 !.pointer = 0, !.prefetch = 0,
                 !.prefetch_max = IF last THEN Block - 1 ELSE Block,
                 !.last_byte = IF last THEN Block - 1 ELSE @]
    BY DEF read_dir_entry
  <2>4. read_dir_entry(ch) \in ChannelStates
    <3> HIDE DEF last
    <3> QED
      BY <2>2, <2>3 DEF ChannelStates
  <2>5. /\ read_dir_entry(ch).state = "dir" /\ read_dir_entry(ch).name = ch.name
        /\ read_dir_entry(ch).last_command = ch.last_command
        /\ read_dir_entry(ch).write = ch.write
    BY <1>4, <2>3 DEF ChannelStates
  <2> QED
    BY <1>4, <2>1, <2>4, <2>5 DEF SameFile, ModeOf, Writing, Reading
<1>5. CASE ch.state \in {"file", "dir"} /\ ch.pointer # ch.last_byte /\ ch.pointer # Block - 1
  <2>1. pop_data(ch, fail) = [ch EXCEPT !.pointer = @ + 1]
    BY <1>5 DEF pop_data
  <2>2. ch.pointer + 1 \in 0 .. Block - 1
    BY <1>0, <1>5
  <2>3. /\ pop_data(ch, fail) \in ChannelStates /\ SameFile(ch, pop_data(ch, fail))
        /\ ModeOf(pop_data(ch, fail)) = ModeOf(ch)
    BY <2>1, <2>2 DEF ChannelStates, SameFile, ModeOf, Writing
  <2>4. /\ pop_data(ch, fail).pointer = ch.pointer + 1 /\ pop_data(ch, fail).state = ch.state
        /\ pop_data(ch, fail).last_byte = ch.last_byte /\ pop_data(ch, fail).size = ch.size
        /\ pop_data(ch, fail).block = ch.block /\ pop_data(ch, fail).name = ch.name
        /\ pop_data(ch, fail).write = ch.write
    BY <2>1 DEF ChannelStates
  <2>5. Reading(pop_data(ch, fail))
    BY <1>0, <1>5, <2>4 DEF Reading
  <2> QED
    BY <2>3, <2>5
<1> QED
  BY <1>1, <1>2, <1>3, <1>4, <1>5

(* Opening resets the channel for its new file. *)
LEMMA OpenFile ==
  ASSUME NEW ch \in ChannelStates, NEW fail \in BOOLEAN
  PROVE  /\ open_file(ch, fail) \in ChannelStates /\ Reading(open_file(ch, fail))
         /\ open_file(ch, fail).last_command = ch.last_command
         /\ open_file(ch, fail).name = ch.name
         /\ IF ch.name.kind = "write"
            THEN Writing(open_file(ch, fail)) /\ open_file(ch, fail).pointer = 0
            ELSE ~Writing(open_file(ch, fail))
         /\ open_file(ch, fail).state # "filename"
<1> DEFINE new == [ch EXCEPT !.write = ch.name.kind = "write", !.size = ch.name.length,
                        !.pointer = 0, !.prefetch = 0, !.prefetch_max = Block,
                        !.last_byte = -1, !.block = 0]
           listing == [new EXCEPT !.state = "dir", !.block = 1, !.buffer = Filled(new)]
           file == [new EXCEPT !.state = "file"]
           none == [ch EXCEPT !.state = "error", !.write = FALSE]
<1>0. /\ ch.name \in Names /\ ch.name.length \in Nat /\ ch.buffer \in Buffer
      /\ Block \in Nat /\ Block >= 2 /\ 0 \in 0 .. Block - 1 /\ 0 \in 0 .. Block
      /\ Block \in 0 .. Block /\ -1 \in -1 .. Block - 1
  BY ChannelIs, BlockFacts
<1>1. new \in ChannelStates
  <2> DEFINE w == ch.name.kind = "write"
             l == ch.name.length
  <2>1. w \in BOOLEAN /\ l \in Int
    BY <1>0
  <2>2. new = [ch EXCEPT !.write = w, !.size = l, !.pointer = 0, !.prefetch = 0,
                         !.prefetch_max = Block, !.last_byte = -1, !.block = 0]
    OBVIOUS
  <2> HIDE DEF w, l, new
  <2> QED
    BY <1>0, <2>1, <2>2 DEF ChannelStates
<1>2. /\ new.state = ch.state /\ new.write = (ch.name.kind = "write")
      /\ new.size = ch.name.length /\ new.pointer = 0 /\ new.last_byte = -1 /\ new.block = 0
      /\ new.name = ch.name /\ new.last_command = ch.last_command
  BY DEF ChannelStates
<1>3. open_file(ch, fail) =
        CASE ch.name.kind = "dir" -> listing
          [] ch.name.kind = "file" -> read_block(file, fail)
          [] ch.name.kind = "write" -> file
          [] OTHER -> none
  BY DEF open_file
<1>4. Filled(new) \in Buffer
  BY <1>0, <1>1, <1>2, ChannelIs, FilledType
<1> HIDE DEF new
<1>5. /\ file \in ChannelStates /\ file.state = "file" /\ file.write = new.write
      /\ file.size = new.size /\ file.pointer = 0 /\ file.last_byte = -1 /\ file.block = 0
      /\ file.name = ch.name /\ file.last_command = ch.last_command
  BY <1>1, <1>2 DEF ChannelStates
<1> HIDE DEF file
<1>6. Reading(file)
  BY <1>0, <1>2, <1>5 DEF Reading
<1>7. CASE ch.name.kind = "dir"
  <2>1. open_file(ch, fail) = listing
    BY <1>3, <1>7
  <2>2. /\ listing \in ChannelStates /\ listing.state = "dir" /\ listing.name = ch.name
        /\ listing.last_command = ch.last_command
    BY <1>1, <1>2, <1>4 DEF ChannelStates
  <2> HIDE DEF listing
  <2> QED
    BY <1>7, <2>1, <2>2 DEF Reading, Writing
<1>8. CASE ch.name.kind = "file"
  <2>1. open_file(ch, fail) = read_block(file, fail)
    BY <1>3, <1>8
  <2>3. file.write = FALSE
    BY <1>2, <1>5, <1>8
  <2>2. /\ read_block(file, fail) \in ChannelStates /\ Reading(read_block(file, fail))
        /\ SameFile(file, read_block(file, fail))
        /\ read_block(file, fail).state \in {"file", "complete", "error"}
    BY <1>5, <1>6, <2>3, ReadBlock
  <2> QED
    BY <1>5, <1>8, <2>1, <2>2, <2>3 DEF SameFile, Writing
<1>9. CASE ch.name.kind = "write"
  <2>1. open_file(ch, fail) = file
    BY <1>3, <1>9
  <2> QED
    BY <1>2, <1>5, <1>6, <1>9, <2>1 DEF Writing
<1>10. CASE ch.name.kind \notin {"dir", "file", "write"}
  <2>1. open_file(ch, fail) = none
    BY <1>3, <1>10
  <2>2. /\ none \in ChannelStates /\ none.state = "error" /\ none.name = ch.name
        /\ none.last_command = ch.last_command
    BY DEF ChannelStates
  <2> QED
    BY <1>10, <2>1, <2>2 DEF Reading, Writing
<1> QED
  BY <1>7, <1>8, <1>9, <1>10

(****************************************************************************)
(* The task handles a token                                                 *)
(****************************************************************************)
LEMMA ViewIs ==
  ASSUME TypeInv, NEW c \in Channels
  PROVE  /\ View(c) \in Views
         /\ View(c).at = current /\ View(c).mode = ModeOf(chan[c])
         /\ View(c).cmd = chan[c].last_command /\ View(c).kind = chan[c].name.kind
         /\ View(c).count =
              Len(stored[c]) + (IF Writing(chan[c]) THEN chan[c].pointer ELSE 0)
         /\ ModeOf(chan[c]) = "write" <=> Writing(chan[c])
         /\ ModeOf(chan[c]) = "naming" <=> chan[c].state = "filename"
<1>1. chan[c] \in ChannelStates /\ stored[c] \in Seq(Int) /\ current \in Channels
  BY DEF TypeInv
<1>2. /\ chan[c].pointer \in Nat /\ chan[c].last_command \in Commands \cup {"none"}
      /\ chan[c].name.kind \in Kinds \cup {"closed"}
  BY <1>1, ChannelIs, BlockFacts DEF Names
<1>3. Len(stored[c]) + (IF Writing(chan[c]) THEN chan[c].pointer ELSE 0) \in Nat
  BY <1>1, <1>2
<1>4. ModeOf(chan[c]) \in {"naming", "write", "other"}
  BY DEF ModeOf
<1>5. View(c) \in Views
  BY <1>1, <1>2, <1>3, <1>4 DEF View, Views
<1>6. /\ ModeOf(chan[c]) = "write" <=> Writing(chan[c])
      /\ ModeOf(chan[c]) = "naming" <=> chan[c].state = "filename"
  BY DEF ModeOf, Writing
<1> QED
  BY <1>5, <1>6 DEF View

(* What a step leaves of a channel: everything in order, and its view. *)
Kept(c) ==
  /\ chan'[c] \in ChannelStates /\ Reading(chan'[c]) /\ stored'[c] \in Seq(Int)
  /\ Content(c)'

(* A step that does not write to the channel *)
LEMMA NotWritten ==
  ASSUME TypeInv, ContentInv, NEW c \in Channels,
         chan'[c] \in ChannelStates, Reading(chan'[c]), stored'[c] = stored[c],
         current' = current, SameFile(chan[c], chan'[c]), ModeOf(chan'[c]) = ModeOf(chan[c]),
         Writing(chan[c]) => /\ chan'[c].pointer = chan[c].pointer
                             /\ chan'[c].buffer = chan[c].buffer
  PROVE  Kept(c) /\ View(c)' = View(c)
<1>1. stored[c] \in Seq(Int) /\ Content(c)
  BY DEF TypeInv, ContentInv
<1>2. Writing(chan'[c]) = Writing(chan[c])
  BY DEF ModeOf, Writing
<1>3. Content(c)'
  BY <1>1, <1>2 DEF Content
<1>4. View(c)' = View(c)
  BY <1>2 DEF View, SameFile
<1> QED
  BY <1>1, <1>3, <1>4 DEF Kept

LEMMA NotAddressed ==
  ASSUME TypeInv, ReadingInv, ContentInv, NEW c \in Channels,
         chan'[c] = chan[c], stored'[c] = stored[c]
  PROVE  Kept(c) /\ View(c)' = [View(c) EXCEPT !.at = current']
<1>1. /\ chan[c] \in ChannelStates /\ stored[c] \in Seq(Int) /\ Content(c)
      /\ Reading(chan[c])
  BY DEF TypeInv, ContentInv, ReadingInv
<1>2. Content(c)'
  BY <1>1 DEF Content, Writing
<1>3. View(c)' = [View(c) EXCEPT !.at = current']
  BY DEF View, ModeOf, Writing
<1> QED
  BY <1>1, <1>2, <1>3 DEF Kept

LEMMA Untouched ==
  ASSUME TypeInv, ReadingInv, ContentInv, NEW c \in Channels,
         chan'[c] = chan[c], stored'[c] = stored[c], current' = current
  PROVE  Kept(c) /\ View(c)' = View(c)
<1>1. Kept(c) /\ View(c)' = [View(c) EXCEPT !.at = current]
  BY NotAddressed
<1>2. [View(c) EXCEPT !.at = current] = View(c)
  BY DEF View
<1> QED
  BY <1>1, <1>2

(* What handling token t does to channel c. *)
Handled(c, t) == Kept(c) /\ View(c)' = Does(c, View(c), t)

(* Appending to the file: the numbers go on. *)
LEMMA StoredGrows ==
  ASSUME NEW s \in Seq(Int), NEW m \in Nat, NEW b, \A i \in 0 .. m - 1 : b[i] = Len(s) + i,
         \A i \in 1 .. Len(s) : s[i] = i - 1
  PROVE  /\ s \o [i \in 1 .. m |-> b[i - 1]] \in Seq(Int)
         /\ Len(s \o [i \in 1 .. m |-> b[i - 1]]) = Len(s) + m
         /\ \A i \in 1 .. Len(s) + m : (s \o [j \in 1 .. m |-> b[j - 1]])[i] = i - 1
<1> DEFINE p == [i \in 1 .. m |-> b[i - 1]]
<1>1. Len(s) \in Nat
  OBVIOUS
<1>2. \A i \in 1 .. m : b[i - 1] = Len(s) + i - 1 /\ b[i - 1] \in Int
  BY <1>1
<1>3. p \in Seq(Int) /\ Len(p) = m /\ \A i \in 1 .. m : p[i] = Len(s) + i - 1
  BY <1>2
<1> HIDE DEF p
<1>4. /\ s \o p \in Seq(Int) /\ Len(s \o p) = Len(s) + m
      /\ \A i \in 1 .. Len(s) + m : (s \o p)[i] = IF i <= Len(s) THEN s[i] ELSE p[i - Len(s)]
  BY <1>3, ConcatProperties
<1>5. ASSUME NEW i \in 1 .. Len(s) + m PROVE (s \o p)[i] = i - 1
  <2>1. CASE i <= Len(s)
    BY <1>1, <1>4, <2>1
  <2>2. CASE ~(i <= Len(s))
    <3>1. i - Len(s) \in 1 .. m
      BY <1>1, <2>2
    <3>2. p[i - Len(s)] = Len(s) + (i - Len(s)) - 1
      BY <1>3, <3>1
    <3> QED
      BY <1>1, <1>4, <2>2, <3>2
  <2> QED
    BY <2>1, <2>2
<1> QED
  BY <1>4, <1>5 DEF p

LEMMA HandleCommand ==
  ASSUME TypeInv, ReadingInv, ContentInv, NEW c \in Channels, NEW d \in Channels,
         NEW command \in Commands, PushCommand(command, d), current' = d,
         Allowed(c, View(c), <<command, d>>)
  PROVE  Handled(c, <<command, d>>)
<1> DEFINE t == <<command, d>>
           ch == [chan[c] EXCEPT !.last_command = command]
<1>0. /\ t[1] = command /\ t[2] = d /\ t[1] \in Commands
      /\ chan \in [Channels -> ChannelStates] /\ stored \in [Channels -> Seq(Int)]
      /\ chan[c] \in ChannelStates /\ stored[c] \in Seq(Int)
      /\ Reading(chan[c]) /\ Content(c) /\ 0 \in 0 .. Block - 1
  BY BlockFacts DEF TypeInv, ReadingInv, ContentInv
<1> HIDE DEF t
<1>1. CASE c # d
  <2>1. chan'[c] = chan[c] /\ stored'[c] = stored[c]
    BY <1>0, <1>1 DEF PushCommand, Update, Commands
  <2>2. Kept(c) /\ View(c)' = [View(c) EXCEPT !.at = d]
    BY <2>1, NotAddressed
  <2>3. Does(c, View(c), t) = [View(c) EXCEPT !.at = d]
    BY <1>0, <1>1, DoesIs
  <2> QED
    BY <2>2, <2>3 DEF Handled, t
<1>2. CASE c = d
  <2>0. /\ ch \in ChannelStates /\ ch.last_command = command /\ ch.name = chan[c].name
        /\ ch.state = chan[c].state /\ ch.write = chan[c].write
        /\ ch.pointer = chan[c].pointer /\ ch.buffer = chan[c].buffer
        /\ ch.last_byte = chan[c].last_byte /\ ch.size = chan[c].size
        /\ ch.block = chan[c].block
    BY <1>0 DEF ChannelStates
  <2>1. Does(c, View(c), t) = Addressed(c, View(c), t)
    BY <1>0, <1>2, DoesIs
  <2>2. Addressed(c, View(c), t) =
          [at |-> c, mode |-> ModeAfter(View(c), command), cmd |-> command,
           kind |-> chan[c].name.kind, count |-> View(c).count]
    <3> DEFINE m == ModeAfter(View(c), command)
               m0 == ModeOf(chan[c])
               k0 == chan[c].last_command
               x == chan[c].name.kind
               n0 == Len(stored[c]) + (IF Writing(chan[c]) THEN chan[c].pointer ELSE 0)
    <3>1. View(c) = [at |-> current, mode |-> m0, cmd |-> k0, kind |-> x, count |-> n0]
      BY DEF View
    <3>2. Addressed(c, View(c), t) = [View(c) EXCEPT !.at = c, !.cmd = command, !.mode = m]
      BY <1>0 DEF Addressed
    <3> HIDE DEF m, m0, k0, x, n0
    <3>3. Addressed(c, View(c), t) =
            [at |-> c, mode |-> m, cmd |-> command, kind |-> x, count |-> n0]
      <4> DEFINE v == View(c)
                 w1 == [v EXCEPT !.at = c]
                 w2 == [w1 EXCEPT !.cmd = command]
                 w3 == [w2 EXCEPT !.mode = m]
      <4>1. Addressed(c, v, t) = w3
        BY <3>2
      <4> HIDE DEF v, w3
      <4>2. w1 = [at |-> c, mode |-> m0, cmd |-> k0, kind |-> x, count |-> n0]
        BY <3>1 DEF v
      <4> HIDE DEF w1
      <4>3. w2 = [at |-> c, mode |-> m0, cmd |-> command, kind |-> x, count |-> n0]
        BY <4>2
      <4> HIDE DEF w2
      <4>4. w3 = [at |-> c, mode |-> m, cmd |-> command, kind |-> x, count |-> n0]
        BY <4>3 DEF w3
      <4> QED
        BY <4>1, <4>4 DEF v
    <3>4. View(c).count = n0
      BY <3>1
    <3> QED
      BY <3>3, <3>4 DEF m, x
  <2>3. CASE command = "open"
    <3> DEFINE new == [ch EXCEPT !.state = "filename", !.pointer = 0]
    <3>1. chan'[c] = new /\ stored' = stored
      BY <1>0, <1>2, <2>3 DEF PushCommand, Update
    <3> HIDE DEF ch
    <3>2. /\ new \in ChannelStates /\ new.state = "filename" /\ new.name = chan[c].name
          /\ new.last_command = command
      BY <1>0, <2>0 DEF ChannelStates
    <3> HIDE DEF new
    <3>3. ~Writing(chan[c])
      BY <1>0, <1>2, <2>3, ViewIs DEF Allowed, t
    <3>4. Kept(c)
      BY <1>0, <3>1, <3>2 DEF Kept, Reading, Content, Writing
    <3>5. View(c).count = Len(stored[c]) /\ ModeAfter(View(c), command) = "naming"
      BY <1>0, <2>3, <3>3, ViewIs DEF ModeAfter
    <3>6. View(c)' = [at |-> c, mode |-> "naming", cmd |-> command,
                      kind |-> chan[c].name.kind, count |-> Len(stored[c])]
      BY <1>0, <1>2, <3>1, <3>2 DEF View, ModeOf, Writing
    <3> QED
      BY <2>1, <2>2, <3>4, <3>5, <3>6 DEF Handled, t
  <2>4. CASE command = "data"
    <3>1. chan'[c] = ch /\ stored' = stored
      BY <1>0, <1>2, <2>4 DEF PushCommand, Update
    <3> HIDE DEF ch
    <3>2. Kept(c)
      BY <1>0, <2>0, <3>1 DEF Kept, Reading, Content, Writing
    <3>3. ModeAfter(View(c), command) = ModeOf(chan[c])
      BY <2>4, ViewIs DEF ModeAfter
    <3>4. ModeOf(ch) = ModeOf(chan[c]) /\ Writing(ch) = Writing(chan[c])
      BY <2>0 DEF ModeOf, Writing
    <3>5. View(c)' = [at |-> c, mode |-> ModeOf(chan[c]), cmd |-> command,
                      kind |-> chan[c].name.kind, count |-> View(c).count]
      BY <1>2, <2>0, <3>1, <3>4 DEF View
    <3> QED
      BY <2>1, <2>2, <3>2, <3>3, <3>5 DEF Handled, t
  <2>5. CASE command = "close"
    <3> DEFINE new == [ch EXCEPT !.state = "idle"]
    <3>1. /\ chan'[c] = new
          /\ stored'[c] = IF ch.write /\ ch.state = "file"
                          THEN stored[c] \o Pending(ch) ELSE stored[c]
      <4>1. /\ Update(c, new)
            /\ stored' = IF ch.write /\ ch.state = "file"
                         THEN [stored EXCEPT ![c] = stored[c] \o Pending(ch)] ELSE stored
        BY <1>2, <2>5 DEF PushCommand
      <4> HIDE DEF ch
      <4> QED
        BY <1>0, <4>1 DEF Update
    <3>2. /\ new \in ChannelStates /\ new.state = "idle" /\ new.name = chan[c].name
          /\ new.last_command = command
      BY <2>0 DEF ChannelStates
    <3>3. Pending(ch) = [i \in 1 .. chan[c].pointer |-> chan[c].buffer[i - 1]]
      BY <2>0 DEF Pending
    <3> HIDE DEF new, ch
    <3>4. chan[c].pointer \in Nat
      BY <1>0, ChannelIs, BlockFacts
    <3>5. /\ stored'[c] \in Seq(Int) /\ Len(stored'[c]) = View(c).count
          /\ \A i \in 1 .. Len(stored'[c]) : stored'[c][i] = i - 1
      <4>1. CASE Writing(chan[c])
        <5>1. stored'[c] = stored[c] \o [i \in 1 .. chan[c].pointer |-> chan[c].buffer[i - 1]]
          BY <2>0, <3>1, <3>3, <4>1 DEF Writing
        <5>2. /\ \A i \in 1 .. Len(stored[c]) : stored[c][i] = i - 1
              /\ \A i \in 0 .. chan[c].pointer - 1 : chan[c].buffer[i] = Len(stored[c]) + i
          BY <1>0, <4>1 DEF Content
        <5>3. View(c).count = Len(stored[c]) + chan[c].pointer
          BY <4>1, ViewIs
        <5> DEFINE p == [i \in 1 .. chan[c].pointer |-> chan[c].buffer[i - 1]]
        <5>4. /\ stored[c] \o p \in Seq(Int)
              /\ Len(stored[c] \o p) = Len(stored[c]) + chan[c].pointer
              /\ \A i \in 1 .. Len(stored[c]) + chan[c].pointer : (stored[c] \o p)[i] = i - 1
          BY <1>0, <3>4, <5>2, StoredGrows
        <5> HIDE DEF p
        <5>5. stored'[c] = stored[c] \o p
          BY <5>1 DEF p
        <5> QED
          BY <5>3, <5>4, <5>5
      <4>2. CASE ~Writing(chan[c])
        <5>1. stored'[c] = stored[c] /\ View(c).count = Len(stored[c])
          BY <1>0, <2>0, <3>1, <4>2, ViewIs DEF Writing
        <5> QED
          BY <1>0, <5>1 DEF Content
      <4> QED
        BY <4>1, <4>2
    <3>6. Kept(c)
      BY <3>1, <3>2, <3>5 DEF Kept, Reading, Content, Writing
    <3>7. ModeAfter(View(c), command) = "other"
      BY <2>5 DEF ModeAfter
    <3>8. View(c)' = [at |-> c, mode |-> "other", cmd |-> command,
                      kind |-> chan[c].name.kind, count |-> Len(stored'[c])]
      BY <1>2, <3>1, <3>2, <3>5 DEF View, ModeOf, Writing
    <3> QED
      BY <2>1, <2>2, <3>5, <3>6, <3>7, <3>8 DEF Handled, t
  <2> QED
    BY <2>3, <2>4, <2>5 DEF Commands
<1> QED
  BY <1>1, <1>2

LEMMA HandleName ==
  ASSUME TypeInv, ReadingInv, ContentInv, NEW c \in Channels, NEW o \in Openings,
         Update(current, PushName(chan[current], o)), UNCHANGED <<current, stored>>
  PROVE  Handled(c, <<"name", o>>)
<1> DEFINE t == <<"name", o>>
<1>0. /\ t[1] = "name" /\ t[2] = o /\ o \in Names /\ 0 \in 0 .. Block - 1 /\ 1 \in 0 .. Block - 1
      /\ chan \in [Channels -> ChannelStates] /\ stored \in [Channels -> Seq(Int)]
      /\ chan[c] \in ChannelStates /\ stored[c] \in Seq(Int) /\ current \in Channels
      /\ Reading(chan[c]) /\ Content(c)
  BY BlockFacts, TalkAssumption DEF TypeInv, ReadingInv, ContentInv, Names
<1>1. View(c) \in Views /\ View(c).at = current /\ View(c).mode = ModeOf(chan[c])
  BY ViewIs
<1> HIDE DEF t
<1>2. CASE c # current \/ chan[c].state # "filename"
  <2>1. chan'[c] = chan[c] /\ stored'[c] = stored[c]
    BY <1>0, <1>2 DEF Update, PushName
  <2>2. Kept(c) /\ View(c)' = View(c)
    BY <2>1, Untouched
  <2>3. Does(c, View(c), t) = View(c)
    <3>1. t[1] \notin Commands
      BY <1>0 DEF Commands
    <3>2. View(c).at # c \/ View(c).mode # "naming"
      BY <1>1, <1>2, ViewIs
    <3> QED
      BY <1>0, <3>1, <3>2, DoesIs
  <2> QED
    BY <2>2, <2>3 DEF Handled, t
<1>3. CASE c = current /\ chan[c].state = "filename"
  <2> DEFINE new == [chan[c] EXCEPT !.name = o, !.pointer = 1, !.buffer[0] = Rest]
  <2>1. chan'[c] = new /\ stored'[c] = stored[c]
    BY <1>0, <1>3 DEF Update, PushName
  <2>2. /\ new \in ChannelStates /\ new.name = o /\ new.state = "filename"
        /\ new.last_command = chan[c].last_command
    <3>1. chan[c].buffer \in Buffer /\ Rest \in Int
      BY <1>0, ChannelIs DEF Rest
    <3>2. [chan[c].buffer EXCEPT ![0] = Rest] \in Buffer
      BY <1>0, <3>1 DEF Buffer
    <3> QED
      BY <1>0, <1>3, <3>2 DEF ChannelStates
  <2> HIDE DEF new
  <2>3. Kept(c)
    BY <1>0, <2>1, <2>2 DEF Kept, Reading, Content, Writing
  <2>4. Does(c, View(c), t) = Named(View(c), t)
    BY <1>0, <1>1, <1>3, ViewIs, DoesIs
  <2>5. View(c) = [at |-> current, mode |-> "naming", cmd |-> chan[c].last_command,
                   kind |-> chan[c].name.kind, count |-> Len(stored[c]) + 0]
    BY <1>3 DEF View, ModeOf, Writing
  <2>6. View(c)' = [at |-> current, mode |-> "naming", cmd |-> chan[c].last_command,
                    kind |-> o.kind, count |-> Len(stored[c]) + 0]
    BY <2>1, <2>2 DEF View, ModeOf, Writing
  <2>7. Named(View(c), t) = View(c)'
    <3>1. Named(View(c), t) = [View(c) EXCEPT !.kind = o.kind]
      BY <1>0 DEF Named
    <3> QED
      BY <2>5, <2>6, <3>1
  <2> QED
    BY <2>3, <2>4, <2>7 DEF Handled, t
<1> QED
  BY <1>2, <1>3

LEMMA HandleByte ==
  ASSUME TypeInv, ReadingInv, ContentInv, NEW c \in Channels, NEW x \in Nat,
         PushByte(x), UNCHANGED current, Allowed(c, View(c), <<"byte", x>>)
  PROVE  Handled(c, <<"byte", x>>)
<1> DEFINE t == <<"byte", x>>
<1>0. /\ t[1] = "byte" /\ t[2] = x /\ Block \in Nat /\ Block >= 2
      /\ chan \in [Channels -> ChannelStates] /\ stored \in [Channels -> Seq(Int)]
      /\ chan[c] \in ChannelStates /\ stored[c] \in Seq(Int) /\ current \in Channels
      /\ Reading(chan[c]) /\ Content(c)
  BY BlockFacts DEF TypeInv, ReadingInv, ContentInv
<1>1. View(c) \in Views /\ View(c).at = current /\ View(c).mode = ModeOf(chan[c])
  BY ViewIs
<1> HIDE DEF t
<1>2. CASE c # current
  <2>1. chan'[c] = chan[c] /\ stored'[c] = stored[c]
    BY <1>0, <1>2 DEF PushByte, Update
  <2>2. Kept(c) /\ View(c)' = View(c)
    BY <2>1, Untouched
  <2>3. Does(c, View(c), t) = View(c)
    <3>1. t[1] \notin Commands /\ View(c).at # c
      BY <1>0, <1>1, <1>2 DEF Commands
    <3> QED
      BY <3>1, DoesIs
  <2> QED
    BY <2>2, <2>3 DEF Handled, t
<1>3. CASE c = current
  <2> DEFINE ch == chan[c]
             with == [ch EXCEPT !.buffer[ch.pointer] = x]
             n == Len(stored[c])
  <2>1. /\ Writing(ch) /\ ch.state = "file" /\ x = View(c).count
    BY <1>0, <1>1, <1>3, ViewIs DEF Allowed, t, Writing
  <2>2. /\ x = n + ch.pointer /\ n \in Nat /\ ch.pointer \in 0 .. Block - 1
        /\ ch.buffer \in Buffer /\ x \in Int
    BY <1>0, <2>1, ViewIs, ChannelIs
  <2> DEFINE b == [ch.buffer EXCEPT ![ch.pointer] = x]
  <2>3. b \in Buffer /\ \A i \in 0 .. ch.pointer : b[i] = n + i
    <3>1. \A i \in 0 .. ch.pointer - 1 : ch.buffer[i] = n + i
      BY <1>0, <2>1 DEF Content
    <3>2. b \in Buffer /\ b[ch.pointer] = x
      BY <2>2 DEF Buffer
    <3>3. \A i \in 0 .. ch.pointer - 1 : b[i] = ch.buffer[i]
      BY <2>2 DEF Buffer
    <3>4. ASSUME NEW i \in 0 .. ch.pointer PROVE b[i] = n + i
      <4> HIDE DEF b, n, ch
      <4>1. CASE i = ch.pointer
        BY <2>2, <3>2, <4>1
      <4>2. CASE i # ch.pointer
        BY <2>2, <3>1, <3>3, <4>2
      <4> QED
        BY <4>1, <4>2
    <3> QED
      BY <3>2, <3>4
  <2>4. with = [ch EXCEPT !.buffer = b]
    OBVIOUS
  <2>5. /\ with \in ChannelStates /\ with.state = "file" /\ with.write = ch.write
        /\ with.pointer = ch.pointer /\ with.buffer = b /\ with.name = ch.name
        /\ with.last_command = ch.last_command /\ with.last_byte = ch.last_byte
        /\ with.size = ch.size /\ with.block = ch.block
    <3> HIDE DEF with, b, ch
    <3>1. ch \in ChannelStates
      BY <1>0 DEF ch
    <3> QED
      BY <2>1, <2>3, <2>4, <3>1 DEF ChannelStates
  <2>6. Does(c, View(c), t) = Given(View(c))
    BY <1>0, <1>1, <1>3, DoesIs
  <2>7. View(c) = [at |-> current, mode |-> "write", cmd |-> ch.last_command,
                   kind |-> ch.name.kind, count |-> x]
    BY <2>1, <2>2 DEF View, ModeOf, Writing
  <2>8. Given(View(c)) = [at |-> current, mode |-> "write", cmd |-> ch.last_command,
                          kind |-> ch.name.kind, count |-> x + 1]
    BY <2>7 DEF Given
  <2>9. ASSUME ch.pointer + 1 = Block
        PROVE  Kept(c) /\ View(c)' = Given(View(c))
    <3> DEFINE full == [with EXCEPT !.pointer = Block]
               new == [with EXCEPT !.pointer = 0]
    <3>1. /\ stored' = [stored EXCEPT ![c] = @ \o Pending(full)]
          /\ chan' = [chan EXCEPT ![c] = new]
      BY <1>3, <2>1, <2>9 DEF PushByte, Update
    <3>2. Pending(full) = [i \in 1 .. Block |-> b[i - 1]]
      <4> HIDE DEF with, b
      <4>1. full.pointer = Block /\ full.buffer = b
        BY <2>5 DEF ChannelStates
      <4> HIDE DEF full
      <4> QED
        BY <4>1 DEF Pending
    <3> HIDE DEF with, full
    <3>3. /\ new \in ChannelStates /\ new.state = "file" /\ new.write = ch.write
          /\ new.pointer = 0 /\ new.name = ch.name /\ new.last_command = ch.last_command
          /\ new.last_byte = ch.last_byte /\ new.size = ch.size /\ new.block = ch.block
      <4>1. 0 \in 0 .. Block - 1
        BY BlockFacts
      <4> QED
        BY <2>5, <4>1 DEF ChannelStates
    <3> HIDE DEF new
    <3>4. chan'[c] = new /\ stored'[c] = stored[c] \o [i \in 1 .. Block |-> b[i - 1]]
      BY <1>0, <3>1, <3>2
    <3> HIDE DEF b
    <3>5. /\ stored'[c] \in Seq(Int) /\ Len(stored'[c]) = n + Block
          /\ \A i \in 1 .. n + Block : stored'[c][i] = i - 1
      <4>1. \A i \in 0 .. Block - 1 : b[i] = Len(stored[c]) + i
        BY <1>0, <2>2, <2>3, <2>9
      <4>2. \A i \in 1 .. Len(stored[c]) : stored[c][i] = i - 1
        BY <1>0 DEF Content
      <4> DEFINE q == stored[c]
                 p == [i \in 1 .. Block |-> b[i - 1]]
      <4>3. /\ q \in Seq(Int) /\ Block \in Nat
            /\ \A i \in 0 .. Block - 1 : b[i] = Len(q) + i
            /\ \A i \in 1 .. Len(q) : q[i] = i - 1
        BY <1>0, <4>1, <4>2
      <4> HIDE DEF q
      <4>4. /\ q \o p \in Seq(Int) /\ Len(q \o p) = Len(q) + Block
            /\ \A i \in 1 .. Len(q) + Block : (q \o p)[i] = i - 1
        BY <4>3, StoredGrows
      <4>5. stored'[c] = q \o p /\ n = Len(q)
        BY <3>4 DEF q
      <4> HIDE DEF p
      <4> QED
        BY <4>4, <4>5
    <3>6. Content(c)'
      <4>1. \A i \in 0 .. new.pointer - 1 : FALSE
        BY <3>3
      <4> QED
        BY <3>4, <3>5, <4>1 DEF Content
    <3>7. Reading(new)
      BY <1>0, <2>1, <2>2, <3>3 DEF Reading, Writing
    <3>8. Kept(c)
      BY <3>3, <3>4, <3>5, <3>6, <3>7 DEF Kept
    <3>9. View(c)' = [at |-> current, mode |-> "write", cmd |-> ch.last_command,
                      kind |-> ch.name.kind, count |-> n + Block]
      <4>1. Writing(new) /\ ModeOf(new) = "write"
        BY <2>1, <3>3 DEF Writing, ModeOf
      <4>2. Len(stored'[c]) + (IF Writing(new) THEN new.pointer ELSE 0) = n + Block
        BY <2>2, <3>3, <3>5, <4>1, BlockFacts
      <4> QED
        BY <1>3, <3>3, <3>4, <4>1, <4>2 DEF View
    <3>10. n + Block = x + 1
      <4> HIDE DEF n, ch
      <4> QED
        BY <2>2, <2>9, BlockFacts
    <3> QED
      BY <2>8, <3>8, <3>9, <3>10
  <2>10. ASSUME ch.pointer + 1 # Block
         PROVE  Kept(c) /\ View(c)' = Given(View(c))
    <3> DEFINE new == [with EXCEPT !.pointer = @ + 1]
    <3>1. stored' = stored /\ chan' = [chan EXCEPT ![c] = new]
      BY <1>3, <2>1, <2>10 DEF PushByte, Update
    <3> HIDE DEF with
    <3>2. ch.pointer + 1 \in 0 .. Block - 1
      BY <2>2, <2>10, BlockFacts
    <3>3. /\ new \in ChannelStates /\ new.state = "file" /\ new.write = ch.write
          /\ new.pointer = ch.pointer + 1 /\ new.buffer = b
          /\ new.name = ch.name /\ new.last_command = ch.last_command
          /\ new.last_byte = ch.last_byte /\ new.size = ch.size /\ new.block = ch.block
      <4> HIDE DEF b
      <4> QED
        BY <2>5, <3>2 DEF ChannelStates
    <3> HIDE DEF new, b
    <3>4. chan'[c] = new /\ stored'[c] = stored[c]
      BY <1>0, <3>1
    <3>5. Content(c)'
      <4>1. \A i \in 0 .. new.pointer - 1 : new.buffer[i] = n + i
        BY <2>2, <2>3, <3>3
      <4> QED
        BY <1>0, <3>4, <4>1 DEF Content
    <3>6. Reading(new)
      BY <1>0, <2>1, <3>3 DEF Reading, Writing
    <3>7. Kept(c)
      BY <1>0, <3>3, <3>4, <3>5, <3>6 DEF Kept
    <3>8. View(c)' = [at |-> current, mode |-> "write", cmd |-> ch.last_command,
                      kind |-> ch.name.kind, count |-> n + (ch.pointer + 1)]
      BY <1>0, <2>1, <2>2, <3>3, <3>4 DEF View, ModeOf, Writing
    <3>9. n + (ch.pointer + 1) = x + 1
      BY <2>2
    <3> QED
      BY <2>8, <3>7, <3>8, <3>9
  <2> QED
    BY <2>6, <2>9, <2>10 DEF Handled, t
<1> QED
  BY <1>2, <1>3

LEMMA HandleEnd ==
  ASSUME TypeInv, ReadingInv, ContentInv, NEW c \in Channels,
         PushEnd, UNCHANGED current, Allowed(c, View(c), <<"end">>)
  PROVE  Handled(c, <<"end">>)
<1> DEFINE t == <<"end">>
<1>0. /\ t[1] = "end" /\ t[1] \notin Commands
      /\ chan \in [Channels -> ChannelStates] /\ stored \in [Channels -> Seq(Int)]
      /\ chan[c] \in ChannelStates /\ stored[c] \in Seq(Int) /\ current \in Channels
      /\ Content(c)
  BY DEF TypeInv, ContentInv, Commands
<1>1. /\ View(c).at = current /\ View(c).cmd = chan[c].last_command
      /\ View(c).mode = ModeOf(chan[c])
  BY ViewIs
<1> HIDE DEF t
<1>2. CASE c # current \/ chan[c].last_command # "open"
  <2>1. chan'[c] = chan[c] /\ stored'[c] = stored[c]
    BY <1>0, <1>2 DEF PushEnd, Update
  <2>2. Kept(c) /\ View(c)' = View(c)
    BY <2>1, Untouched
  <2>3. Does(c, View(c), t) = View(c)
    <3>1. View(c).at # c \/ View(c).cmd # "open"
      BY <1>1, <1>2
    <3> QED
      BY <1>0, <3>1, DoesIs
  <2> QED
    BY <2>2, <2>3 DEF Handled, t
<1>3. CASE c = current /\ chan[c].last_command = "open"
  <2>1. PICK fail \in ReadFails :
          /\ Update(c, open_file(chan[c], fail))
          /\ stored' = IF chan[c].name.kind = "write"
                       THEN [stored EXCEPT ![c] = <<>>] ELSE stored
    BY <1>3 DEF PushEnd
  <2>2. fail \in BOOLEAN
    BY TalkAssumption
  <2> DEFINE new == open_file(chan[c], fail)
  <2>3. /\ new \in ChannelStates /\ Reading(new)
        /\ new.last_command = chan[c].last_command /\ new.name = chan[c].name
        /\ IF chan[c].name.kind = "write"
           THEN Writing(new) /\ new.pointer = 0 ELSE ~Writing(new)
        /\ new.state # "filename"
    BY <1>0, <2>2, OpenFile
  <2>4. chan'[c] = new
    BY <1>0, <2>1 DEF Update
  <2> HIDE DEF new
  <2>5. stored'[c] = IF chan[c].name.kind = "write" THEN <<>> ELSE stored[c]
    BY <1>0, <2>1
  <2>6. ~Writing(chan[c])
    BY <1>0, <1>1, <1>3, ViewIs DEF Allowed, t
  <2>7. Kept(c)
    <3>1. CASE chan[c].name.kind = "write"
      <4>1. stored'[c] = <<>> /\ <<>> \in Seq(Int) /\ Len(<<>>) = 0
        BY <2>5, <3>1
      <4>2. Content(c)'
        BY <2>3, <2>4, <3>1, <4>1 DEF Content
      <4> QED
        BY <2>3, <2>4, <4>1, <4>2 DEF Kept
    <3>2. CASE chan[c].name.kind # "write"
      BY <1>0, <2>3, <2>4, <2>5, <3>2 DEF Kept, Content
    <3> QED
      BY <3>1, <3>2
  <2>8. Does(c, View(c), t) = Opened(View(c))
    BY <1>0, <1>1, <1>3, DoesIs
  <2> DEFINE m0 == ModeOf(chan[c])
             x == chan[c].name.kind
             n0 == Len(stored[c])
  <2>9. View(c) = [at |-> current, mode |-> m0, cmd |-> "open", kind |-> x, count |-> n0 + 0]
    BY <1>3, <2>6 DEF View
  <2>10. n0 \in Nat /\ n0 + 0 = n0
    BY <1>0
  <2>11. View(c)' = [at |-> current, mode |-> IF x = "write" THEN "write" ELSE "other",
                     cmd |-> "open", kind |-> x, count |-> IF x = "write" THEN 0 ELSE n0]
    <3>1. CASE x = "write"
      <4>1. ModeOf(new) = "write" /\ Len(stored'[c]) + new.pointer = 0 /\ Writing(new)
        BY <2>3, <2>5, <3>1 DEF ModeOf
      <4> QED
        BY <1>3, <2>3, <2>4, <3>1, <4>1 DEF View
    <3>2. CASE x # "write"
      <4>1. ModeOf(new) = "other" /\ Len(stored'[c]) + 0 = n0 /\ ~Writing(new)
        BY <2>3, <2>5, <2>10, <3>2 DEF ModeOf
      <4> QED
        BY <1>3, <2>3, <2>4, <3>2, <4>1 DEF View
    <3> QED
      BY <3>1, <3>2
  <2>12. Opened(View(c)) = View(c)'
    <3> HIDE DEF m0, x, n0
    <3>1. Opened(View(c)) = [at |-> current, mode |-> IF x = "write" THEN "write" ELSE "other",
                     cmd |-> "open", kind |-> x, count |-> IF x = "write" THEN 0 ELSE n0]
      <4> DEFINE m1 == IF x = "write" THEN "write" ELSE "other"
                 n1 == IF x = "write" THEN 0 ELSE n0
      <4>1. View(c) = [at |-> current, mode |-> m0, cmd |-> "open", kind |-> x, count |-> n0]
        BY <2>9, <2>10
      <4>2. View(c).kind = x /\ View(c).count = n0
        BY <4>1
      <4>3. Opened(View(c)) = [View(c) EXCEPT !.mode = m1, !.count = n1]
        BY <4>2 DEF Opened
      <4> HIDE DEF m1, n1
      <4>4. Opened(View(c)) =
              [at |-> current, mode |-> m1, cmd |-> "open", kind |-> x, count |-> n1]
        <5> DEFINE v == View(c)
                   w1 == [v EXCEPT !.mode = m1]
                   w2 == [w1 EXCEPT !.count = n1]
        <5>1. Opened(v) = w2
          BY <4>3
        <5> HIDE DEF v, w2
        <5>2. w1 = [at |-> current, mode |-> m1, cmd |-> "open", kind |-> x, count |-> n0]
          BY <4>1 DEF v
        <5> HIDE DEF w1
        <5>3. w2 = [at |-> current, mode |-> m1, cmd |-> "open", kind |-> x, count |-> n1]
          BY <5>2 DEF w2
        <5> QED
          BY <5>1, <5>3 DEF v
      <4> QED
        BY <4>4 DEF m1, n1
    <3> QED
      BY <2>11, <3>1
  <2> QED
    BY <2>7, <2>8, <2>12 DEF Handled, t
<1> QED
  BY <1>2, <1>3

(* The tokens that carry no command: the end of a talk, and a byte that the *)
(* host has taken.                                                          *)
LEMMA HandleRest ==
  ASSUME TypeInv, ReadingInv, ContentInv, NEW c \in Channels, NEW new,
         Update(current, new), UNCHANGED <<current, stored>>,
         new \in ChannelStates, Reading(new), SameFile(chan[current], new),
         ModeOf(new) = ModeOf(chan[current]),
         Writing(chan[current]) => /\ new.pointer = chan[current].pointer
                                   /\ new.buffer = chan[current].buffer
  PROVE  Kept(c) /\ View(c)' = View(c)
<1>1. /\ chan \in [Channels -> ChannelStates] /\ current \in Channels
      /\ current' = current /\ stored'[c] = stored[c]
  BY DEF TypeInv
<1>2. CASE c = current
  <2>1. chan'[c] = new
    BY <1>1, <1>2 DEF Update
  <2> QED
    BY <1>1, <1>2, <2>1, NotWritten
<1>3. CASE c # current
  <2>1. chan'[c] = chan[c]
    BY <1>1, <1>3 DEF Update
  <2> QED
    BY <1>1, <2>1, Untouched
<1> QED
  BY <1>2, <1>3

LEMMA ResetPrefetch ==
  ASSUME NEW ch \in ChannelStates, Reading(ch)
  PROVE  /\ reset_prefetch(ch) \in ChannelStates /\ Reading(reset_prefetch(ch))
         /\ SameFile(ch, reset_prefetch(ch)) /\ ModeOf(reset_prefetch(ch)) = ModeOf(ch)
         /\ reset_prefetch(ch).pointer = ch.pointer /\ reset_prefetch(ch).buffer = ch.buffer
<1> DEFINE new == [ch EXCEPT !.prefetch = ch.pointer]
<1>1. ch.pointer \in 0 .. Block
  BY ChannelIs, BlockFacts
<1>2. /\ new \in ChannelStates /\ new.state = ch.state /\ new.write = ch.write
      /\ new.last_command = ch.last_command /\ new.name = ch.name
      /\ new.pointer = ch.pointer /\ new.last_byte = ch.last_byte /\ new.size = ch.size
      /\ new.block = ch.block /\ new.buffer = ch.buffer
  BY <1>1 DEF ChannelStates
<1>3. reset_prefetch(ch) = new
  BY DEF reset_prefetch
<1> HIDE DEF new
<1> QED
  BY <1>2, <1>3 DEF Reading, SameFile, ModeOf, Writing

LEMMA HandleStep ==
  ASSUME TypeInv, ReadingInv, ContentInv, Handle,
         \A c \in Channels : Allowed(c, View(c), Head(up))
  PROVE  current' \in Channels /\ \A c \in Channels : Handled(c, Head(up))
<1> DEFINE t == Head(up)
<1>1. /\ up \in Seq(Tokens) /\ up # <<>> /\ t \in Tokens /\ current \in Channels
      /\ chan[current] \in ChannelStates /\ Reading(chan[current])
  BY HeadTailProperties DEF TypeInv, ReadingInv, Handle
<1>2. CASE t[1] \in Commands
  <2>1. PICK a \in Commands, d \in Channels : t = <<a, d>>
    BY <1>1, <1>2 DEF Tokens, Signals, Commands
  <2>2. PushCommand(a, d) /\ current' = d
    BY <2>1 DEF Handle, Commands
  <2> QED
    BY <2>1, <2>2, HandleCommand
<1>3. CASE t[1] = "name"
  <2>1. PICK o \in Openings : t = <<"name", o>>
    BY <1>1, <1>3 DEF Tokens, Signals, Commands
  <2>2. Update(current, PushName(chan[current], o)) /\ UNCHANGED <<current, stored>>
    BY <2>1 DEF Handle
  <2> QED
    BY <1>1, <2>1, <2>2, HandleName
<1>4. CASE t[1] = "byte"
  <2>1. PICK x \in Nat : t = <<"byte", x>>
    BY <1>1, <1>4 DEF Tokens, Signals, Commands
  <2>2. PushByte(x) /\ UNCHANGED current
    BY <2>1 DEF Handle
  <2> QED
    BY <1>1, <2>1, <2>2, HandleByte
<1>5. CASE t[1] = "end"
  <2>1. t = <<"end">>
    BY <1>1, <1>5 DEF Tokens, Signals, Commands
  <2>2. PushEnd /\ UNCHANGED current
    BY <2>1 DEF Handle
  <2> QED
    BY <1>1, <2>1, <2>2, HandleEnd
<1>6. ASSUME t[1] \in Signals \ {"end"}, NEW c \in Channels
      PROVE  current' = current /\ Kept(c) /\ View(c)' = View(c)
  <2>1. CASE t[1] = "atn" /\ talking
    <3>1. /\ Update(current, reset_prefetch(chan[current]))
          /\ UNCHANGED <<current, stored>>
      BY <2>1 DEF Handle
    <3> QED
      BY <1>1, <3>1, ResetPrefetch, HandleRest
  <2>2. CASE t[1] = "popped"
    <3>1. PICK fail \in ReadFails : Update(current, pop_data(chan[current], fail))
      BY <2>2 DEF Handle
    <3>2. UNCHANGED <<current, stored>>
      BY <2>2 DEF Handle
    <3>4. fail \in BOOLEAN
      BY TalkAssumption
    <3>3. ~Writing(chan[current])
      <4>1. View(current).at = current /\ Allowed(current, View(current), t)
        BY <1>1, ViewIs
      <4> QED
        BY <1>1, <2>2, <4>1, ViewIs DEF Allowed
    <3> QED
      BY <1>1, <3>1, <3>2, <3>3, <3>4, PopData, HandleRest
  <2>3. CASE t[1] # "popped" /\ ~(t[1] = "atn" /\ talking)
    <3>1. UNCHANGED <<chan, current, stored>>
      BY <1>6, <2>3 DEF Handle, Signals
    <3> QED
      BY <3>1, Untouched
  <2> QED
    BY <2>1, <2>2, <2>3
<1>7. CASE t[1] \in Signals \ {"end"}
  <2>1. t[1] \notin Commands \cup {"name", "byte", "end"}
    BY <1>7 DEF Signals, Commands
  <2>2. ASSUME NEW c \in Channels PROVE Does(c, View(c), t) = View(c)
    <3> DEFINE v == View(c)
    <3> HIDE DEF t, v
    <3>1. Does(c, v, t) = v
      BY <2>1, DoesIs
    <3> QED
      BY <3>1 DEF v
  <2> QED
    BY <1>1, <1>6, <1>7, <2>2 DEF Handled
<1> QED
  BY <1>1, <1>2, <1>3, <1>4, <1>5, <1>7, TokenIs

LEMMA UpdateDomain ==
  ASSUME TypeInv, NEW d, NEW new, Update(d, new)
  PROVE  chan' = [c \in Channels |-> chan'[c]]
  BY DEF TypeInv, Update

LEMMA HandleDomains ==
  ASSUME TypeInv, Handle
  PROVE  chan' = [c \in Channels |-> chan'[c]] /\ stored' = [c \in Channels |-> stored'[c]]
<1> DEFINE token == Head(up)[1]
           chanOk == chan' = [c \in Channels |-> chan'[c]]
           storedOk == stored' = [c \in Channels |-> stored'[c]]
<1>1. UNCHANGED chan => chanOk
  BY DEF TypeInv
<1>2. UNCHANGED stored => storedOk
  BY DEF TypeInv
<1>3. \A d, s : stored' = [stored EXCEPT ![d] = s] => storedOk
  BY DEF TypeInv
<1>4. \A d, new : Update(d, new) => chanOk
  BY UpdateDomain
<1> HIDE DEF chanOk, storedOk
<1>5. CASE token = "atn" /\ talking
  BY <1>2, <1>4, <1>5 DEF Handle, chanOk, storedOk
<1>6. CASE token = "popped"
  BY <1>2, <1>4, <1>6 DEF Handle, chanOk, storedOk
<1>7. CASE token \in Commands
  <2>1. PushCommand(token, Head(up)[2])
    BY <1>7 DEF Handle, Commands
  <2>2. chanOk
    BY <1>4, <1>7, <2>1 DEF PushCommand, Commands
  <2>3. storedOk
    BY <1>2, <1>3, <1>7, <2>1 DEF PushCommand, Commands
  <2> QED
    BY <2>2, <2>3 DEF chanOk, storedOk
<1>8. CASE token = "name"
  BY <1>2, <1>4, <1>8 DEF Handle, chanOk, storedOk
<1>9. CASE token = "byte"
  <2>1. PushByte(Head(up)[2])
    BY <1>9 DEF Handle
  <2>2. chanOk /\ storedOk
    BY <1>1, <1>2, <1>3, <1>4, <2>1 DEF PushByte
  <2> QED
    BY <2>2 DEF chanOk, storedOk
<1>10. CASE token = "end"
  <2>1. PushEnd
    BY <1>10 DEF Handle
  <2>2. chanOk /\ storedOk
    BY <1>1, <1>2, <1>3, <1>4, <2>1 DEF PushEnd
  <2> QED
    BY <2>2 DEF chanOk, storedOk
<1>11. CASE /\ token \notin Commands \cup {"popped", "name", "byte", "end"}
            /\ ~(token = "atn" /\ talking)
  <2>1. UNCHANGED <<chan, stored>>
    BY <1>11 DEF Handle, Commands
  <2> QED
    BY <1>1, <1>2, <2>1 DEF chanOk, storedOk
<1> QED
  BY <1>5, <1>6, <1>7, <1>8, <1>9, <1>10, <1>11

LEMMA HandleKeeps == Inv /\ Handle => Inv'
<1> SUFFICES ASSUME Inv, Handle
             PROVE  Inv'
  OBVIOUS
<1>1. /\ TypeInv /\ ReadingInv /\ ContentInv /\ ViewInv
      /\ up \in Seq(Tokens) /\ up # <<>> /\ up' = Tail(up) /\ Len(up) <= UpDepth
      /\ UNCHANGED <<bus, down, pc, opened, sent, on>> /\ pc = "rx"
  BY DEF Inv, TypeInv, Handle, host
<1>2. up' \in Seq(Tokens) /\ Len(up') <= UpDepth
  <2>1. Tail(up) \in Seq(Tokens) /\ Len(Tail(up)) = Len(up) - 1 /\ Len(up) \in Nat
    BY <1>1, HeadTailProperties
  <2>2. UpDepth \in Nat
    BY TalkAssumption
  <2> QED
    BY <1>1, <2>1, <2>2
<1>3. ASSUME NEW c \in Channels
      PROVE  \E w \in Views : /\ Allowed(c, View(c), Head(up)) /\ HostView(c, w)
                              /\ Leads(c, Does(c, View(c), Head(up)), up', w)
  <2>1. PICK w \in Views : Leads(c, View(c), up, w) /\ HostView(c, w)
    BY <1>1 DEF ViewInv
  <2>2. /\ Allowed(c, View(c), Head(up))
        /\ Leads(c, Does(c, View(c), Head(up)), Tail(up), w)
    BY <1>1, <2>1, LeadsTail
  <2> QED
    BY <1>1, <2>1, <2>2
<1>4. current' \in Channels /\ \A c \in Channels : Handled(c, Head(up))
  BY <1>1, <1>3, HandleStep
<1>5. chan' \in [Channels -> ChannelStates] /\ stored' \in [Channels -> Seq(Int)]
  <2>1. \A c \in Channels : chan'[c] \in ChannelStates /\ stored'[c] \in Seq(Int)
    BY <1>4 DEF Handled, Kept
  <2> QED
    BY <1>1, <2>1, HandleDomains
<1>6. flush' \in BOOLEAN /\ (flush' => down' = <<>>) /\ talking' \in BOOLEAN
  <2>1. flush \in BOOLEAN /\ (flush => down = <<>>) /\ talking \in BOOLEAN
    BY <1>1 DEF TypeInv
  <2>2. flush' = FALSE \/ flush' = flush
    BY DEF Handle
  <2>3. talking' = TRUE \/ talking' = FALSE \/ talking' = talking
    BY DEF Handle
  <2>4. flush' \in BOOLEAN /\ talking' \in BOOLEAN
    BY <2>1, <2>2, <2>3
  <2>5. CASE flush' = FALSE
    BY <2>4, <2>5
  <2>6. CASE flush' = flush
    BY <1>1, <2>1, <2>4, <2>6
  <2> QED
    BY <2>2, <2>5, <2>6
<1>7. TypeInv'
  BY <1>1, <1>2, <1>4, <1>5, <1>6 DEF TypeInv
<1>8. ReadingInv' /\ ContentInv'
  BY <1>4 DEF ReadingInv, ContentInv, Handled, Kept
<1>9. ViewInv'
  <2>1. ASSUME NEW c \in Channels
        PROVE  \E w \in Views : Leads(c, View(c)', up', w) /\ HostView(c, w)'
    <3>1. PICK w \in Views : /\ HostView(c, w)
                             /\ Leads(c, Does(c, View(c), Head(up)), up', w)
      BY <1>3
    <3>2. View(c)' = Does(c, View(c), Head(up))
      BY <1>4 DEF Handled
    <3>3. HostView(c, w)'
      BY <1>1, <3>1 DEF HostView
    <3> QED
      BY <3>1, <3>2, <3>3
  <2> QED
    BY <2>1 DEF ViewInv, Leads
<1> QED
  BY <1>7, <1>8, <1>9 DEF Inv

(****************************************************************************)
(* The steps that leave the FIFO to the software alone                      *)
(****************************************************************************)
LEMMA ViewsKept ==
  ASSUME ViewInv, UNCHANGED <<up, opened, sent, on>>, bus' = bus \/ bus' # "talk",
         \A c \in Channels : View(c)' = View(c)
  PROVE  ViewInv'
<1>1. ASSUME NEW c \in Channels
      PROVE  \E w \in Views : Leads(c, View(c)', up', w) /\ HostView(c, w)'
  <2>1. PICK w \in Views : Leads(c, View(c), up, w) /\ HostView(c, w)
    BY DEF ViewInv
  <2>2. HostView(c, w)'
    BY <2>1 DEF HostView
  <2> QED
    BY <2>1, <2>2
<1> QED
  BY <1>1 DEF ViewInv, Leads

LEMMA ChannelsKept ==
  ASSUME Inv, UNCHANGED <<chan, stored, current>>
  PROVE  ReadingInv' /\ ContentInv' /\ \A c \in Channels : View(c)' = View(c)
<1>1. \A c \in Channels : Kept(c) /\ View(c)' = View(c)
  BY Untouched DEF Inv
<1> QED
  BY <1>1 DEF Kept, ReadingInv, ContentInv

LEMMA QuietKeeps ==
  ASSUME Inv, TypeInv', UNCHANGED <<up, chan, stored, current, opened, sent, on>>,
         bus' = bus \/ bus' # "talk"
  PROVE  Inv'
  BY ChannelsKept, ViewsKept DEF Inv

LEMMA TransmitKeeps == Inv /\ (Transmit \/ ReadTxStatus) => Inv'
<1> SUFFICES ASSUME Inv, Transmit \/ ReadTxStatus
             PROVE  Inv'
  OBVIOUS
<1>1. /\ UNCHANGED <<up, down, flush, talking, chan, stored, current, opened, sent, on, bus>>
      /\ pc' \in {"rx", "tx", "put"} /\ (pc' = "put" => Len(down) # Depth)
  BY DEF Transmit, ReadTxStatus, fifos, host
<1>2. TypeInv /\ Len(down) \in Nat
  BY DEF Inv, TypeInv
<1>3. pc' = "put" => Len(down) < Depth
  BY <1>1, <1>2, BlockFacts DEF TypeInv
<1>4. TypeInv'
  BY <1>1, <1>2, <1>3 DEF TypeInv
<1> QED
  BY <1>1, <1>4, QuietKeeps

LEMMA TailLength ==
  ASSUME NEW S, NEW q \in Seq(S), q # <<>>
  PROVE  Tail(q) \in Seq(S) /\ Len(Tail(q)) = Len(q) - 1 /\ Len(q) \in Nat
  BY HeadTailProperties

LEMMA BusQuietKeeps == Inv /\ (BusError \/ Drain \/ HostTimeout \/ Attention) => Inv'
<1> SUFFICES ASSUME Inv, BusError \/ Drain \/ HostTimeout \/ Attention
             PROVE  Inv'
  OBVIOUS
<1>1. /\ UNCHANGED <<up, talking, chan, stored, current, opened, sent, on, pc>>
      /\ bus' \in {"free", "attention"}
  BY DEF BusError, Drain, HostTimeout, Attention, fifos, task, host
<1>2. TypeInv /\ down \in Seq(Bytes) /\ Len(down) \in Nat /\ Len(down) <= Depth
  BY DEF Inv, TypeInv
<1>3. \/ down # <<>> /\ down' = Tail(down) /\ flush' = flush
      \/ UNCHANGED <<down, flush>>
      \/ down' = <<>> /\ flush' = TRUE
  BY DEF BusError, Drain, HostTimeout, Attention, fifos
<1>4. /\ down' \in Seq(Bytes) /\ Len(down') \in Nat /\ Len(down') <= Len(down)
      /\ flush' \in BOOLEAN /\ (flush' => down' = <<>>)
  <2>1. CASE down # <<>> /\ down' = Tail(down) /\ flush' = flush
    BY <1>2, <2>1, TailLength DEF TypeInv
  <2>2. CASE UNCHANGED <<down, flush>>
    BY <1>2, <2>2 DEF TypeInv
  <2>3. CASE down' = <<>> /\ flush' = TRUE
    BY <1>2, <2>3
  <2> QED
    BY <1>3, <2>1, <2>2, <2>3
<1>5. Len(down') <= Depth /\ (pc' = "put" => Len(down') < Depth)
  <2>1. pc = "put" => Len(down) < Depth
    BY <1>2 DEF TypeInv
  <2> QED
    BY <1>1, <1>2, <1>4, <2>1, BlockFacts
<1>6. TypeInv'
  BY <1>1, <1>2, <1>4, <1>5 DEF TypeInv
<1> QED
  BY <1>1, <1>6, QuietKeeps

(* The task puts a byte of the buffer into the FIFO to the bus. *)
LEMMA PutKeeps == Inv /\ Put => Inv'
<1> SUFFICES ASSUME Inv, Put
             PROVE  Inv'
  OBVIOUS
<1> DEFINE ch == chan[current]
           st == prefetch_data(ch)
           new == [ch EXCEPT !.prefetch = @ + 1]
<1>1. /\ UNCHANGED <<bus, up, flush, current, stored, opened, sent, on>>
      /\ pc = "put" /\ pc' \in {"tx", "rx"} /\ talking' \in BOOLEAN
      /\ \/ st \in {"data", "last"} /\ Send(ch.buffer[ch.prefetch], st) /\ Update(current, new)
         \/ st = "error" /\ Send(Rest, st) /\ UNCHANGED chan
         \/ UNCHANGED <<down, chan>>
  BY DEF Put, host
<1>2. /\ TypeInv /\ ReadingInv /\ ContentInv /\ current \in Channels /\ ch \in ChannelStates
      /\ Reading(ch) /\ down \in Seq(Bytes) /\ Len(down) \in Nat /\ Len(down) < Depth
      /\ flush \in BOOLEAN /\ (flush => down = <<>>) /\ chan \in [Channels -> ChannelStates]
  BY <1>1 DEF Inv, TypeInv, ReadingInv
<1>3. st \in {"data", "last"} => ch.prefetch \in 0 .. Block - 1
  <2>1. /\ ch.prefetch \in 0 .. Block /\ ch.prefetch_max \in 0 .. Block
        /\ ch.last_byte \in -1 .. Block - 1 /\ Block \in Nat
    BY <1>2, ChannelIs, BlockFacts
  <2>2. CASE ch.state = "error"
    BY <2>2 DEF prefetch_data
  <2>3. CASE ch.state # "error" /\ ch.prefetch = ch.last_byte
    BY <2>1, <2>3
  <2>4. CASE ch.state # "error" /\ ch.prefetch # ch.last_byte
    <3>1. CASE ch.prefetch < ch.prefetch_max
      BY <2>1, <3>1
    <3>2. CASE ch.prefetch = ch.prefetch_max
      BY <2>1, <2>4, <3>2 DEF prefetch_data
    <3>3. CASE ch.prefetch > ch.prefetch_max
      BY <2>1, <2>4, <3>3 DEF prefetch_data
    <3> QED
      BY <2>1, <3>1, <3>2, <3>3
  <2> QED
    BY <2>2, <2>3, <2>4
<1>4. ASSUME NEW v \in Int, NEW kind \in {"data", "last", "error"}, Send(v, kind)
      PROVE  /\ down' \in Seq(Bytes) /\ Len(down') <= Depth /\ (flush' => down' = <<>>)
  <2>1. [v |-> v, kind |-> kind] \in Bytes
    BY DEF Bytes
  <2>2. CASE flush
    <3>1. down' = down /\ down = <<>> /\ flush' = flush
      BY <1>1, <1>2, <1>4, <2>2 DEF Send
    <3> QED
      BY <1>2, <3>1, BlockFacts
  <2>3. CASE ~flush
    <3>1. down' = Append(down, [v |-> v, kind |-> kind])
      BY <1>4, <2>3 DEF Send
    <3>2. down' \in Seq(Bytes) /\ Len(down') = Len(down) + 1
      BY <1>2, <2>1, <3>1, AppendProperties
    <3> QED
      BY <1>1, <1>2, <2>3, <3>2, BlockFacts
  <2> QED
    BY <2>2, <2>3
<1>5. CASE st \in {"data", "last"} /\ Send(ch.buffer[ch.prefetch], st) /\ Update(current, new)
  <2>1. ch.buffer[ch.prefetch] \in Int
    BY <1>2, <1>3, <1>5, ChannelIs DEF Buffer
  <2>2. down' \in Seq(Bytes) /\ Len(down') <= Depth /\ (flush' => down' = <<>>)
    <3> HIDE DEF st, ch
    <3> QED
      BY <1>4, <1>5, <2>1
  <2>3. ch.prefetch + 1 \in 0 .. Block
    BY <1>3, <1>5, BlockFacts
  <2>4. /\ new \in ChannelStates /\ new.state = ch.state /\ new.write = ch.write
        /\ new.last_command = ch.last_command /\ new.name = ch.name
        /\ new.pointer = ch.pointer /\ new.last_byte = ch.last_byte /\ new.size = ch.size
        /\ new.block = ch.block /\ new.buffer = ch.buffer
    <3> HIDE DEF ch
    <3> QED
      BY <1>2, <2>3 DEF ChannelStates
  <2> HIDE DEF new
  <2>5. Reading(new) /\ SameFile(ch, new) /\ ModeOf(new) = ModeOf(ch)
    BY <1>2, <2>4 DEF Reading, SameFile, ModeOf, Writing
  <2>6. \A c \in Channels : Kept(c) /\ View(c)' = View(c)
    BY <1>1, <1>2, <1>5, <2>4, <2>5, HandleRest
  <2>7. chan' \in [Channels -> ChannelStates]
    BY <1>2, <1>5, <2>4 DEF Update
  <2>8. TypeInv'
    BY <1>1, <1>2, <2>2, <2>7 DEF TypeInv
  <2> QED
    BY <1>1, <2>6, <2>8, ViewsKept DEF Inv, ReadingInv, ContentInv, Kept
<1>6. CASE (st = "error" /\ Send(Rest, st) /\ UNCHANGED chan) \/ UNCHANGED <<down, chan>>
  <2>1. down' \in Seq(Bytes) /\ Len(down') <= Depth /\ (flush' => down' = <<>>)
    <3>1. CASE UNCHANGED down
      BY <1>1, <1>2, <3>1, BlockFacts
    <3>2. CASE st = "error" /\ Send(Rest, st)
      <4>1. Rest \in Int
        BY DEF Rest
      <4> HIDE DEF st
      <4> QED
        BY <1>4, <3>2, <4>1
    <3> QED
      BY <1>6, <3>1, <3>2
  <2>2. UNCHANGED chan
    BY <1>6
  <2>3. TypeInv'
    BY <1>1, <1>2, <2>1, <2>2 DEF TypeInv
  <2> QED
    BY <1>1, <2>2, <2>3, QuietKeeps
<1> QED
  BY <1>1, <1>5, <1>6

(****************************************************************************)
(* The steps that add to the FIFO to the software                           *)
(****************************************************************************)
LEMMA TypeKept ==
  ASSUME Inv, UNCHANGED task, up' \in Seq(Tokens), Len(up') <= UpDepth,
         bus' \in {"free", "attention", "talk"}, UNCHANGED flush,
         down' \in Seq(Bytes), Len(down') <= Len(down), down = <<>> => down' = <<>>,
         opened' \in [Channels -> Names], sent' \in [Channels -> Nat], on' \in Channels,
         bus' = "talk" => opened'[on'].kind # "write"
  PROVE  TypeInv'
<1>1. TypeInv /\ Len(down) \in Nat /\ Len(down') \in Nat
  BY DEF Inv, TypeInv
<1>2. Len(down') <= Depth /\ (pc' = "put" => Len(down') < Depth)
  BY <1>1, BlockFacts DEF TypeInv, task
<1>3. flush' \in BOOLEAN /\ (flush' => down' = <<>>)
  BY <1>1 DEF TypeInv
<1> QED
  BY <1>1, <1>2, <1>3 DEF TypeInv, task

LEMMA SayKeeps ==
  ASSUME Inv, UNCHANGED task, TypeInv',
         \A c \in Channels : \E w \in Views : Leads(c, View(c), up', w) /\ HostView(c, w)'
  PROVE  Inv'
<1>1. ReadingInv' /\ ContentInv' /\ \A c \in Channels : View(c)' = View(c)
  BY ChannelsKept DEF task
<1>2. ViewInv'
  BY <1>1 DEF ViewInv, Leads
<1> QED
  BY <1>1, <1>2 DEF Inv

(* Tokens that do nothing to any view *)
LEMMA Silent ==
  ASSUME NEW c \in Channels, NEW v, NEW t \in {<<"atn">>, <<"released">>, <<"ready">>}
  PROVE  t \in Tokens /\ Allowed(c, v, t) /\ Does(c, v, t) = v
<1>1. t[1] \in {"atn", "released", "ready"}
  OBVIOUS
<1>2. t[1] \notin Commands \cup {"name", "byte", "end"}
  BY <1>1 DEF Commands
<1>3. Does(c, v, t) = v
  BY <1>2, DoesIs
<1>4. t \in Tokens
  BY AToken DEF Signals
<1> QED
  BY <1>1, <1>3, <1>4 DEF Allowed

LEMMA LeadsSilent ==
  ASSUME NEW c \in Channels, NEW v, NEW q \in Seq(Tokens), NEW w \in Views,
         Leads(c, v, q, w), NEW t \in {<<"atn">>, <<"released">>, <<"ready">>}
  PROVE  Append(q, t) \in Seq(Tokens) /\ Leads(c, v, Append(q, t), w)
<1>1. t \in Tokens /\ Allowed(c, w, t)
  BY Silent
<1>2. Does(c, w, t) = w
  BY Silent
<1>3. Append(q, t) \in Seq(Tokens) /\ Leads(c, v, Append(q, t), Does(c, w, t))
  BY <1>1, LeadsAppend
<1> QED
  BY <1>2, <1>3

LEMMA TwoTokens ==
  ASSUME NEW q \in Seq(Tokens), NEW a \in Tokens, NEW b \in Tokens
  PROVE  q \o <<a, b>> = Append(Append(q, a), b)
  OBVIOUS

LEMMA FourTokens ==
  ASSUME NEW q \in Seq(Tokens), NEW a \in Tokens, NEW b \in Tokens, NEW s \in Tokens,
         NEW d \in Tokens
  PROVE  q \o <<a, b, s, d>> = Append(Append(Append(Append(q, a), b), s), d)
  OBVIOUS

LEMMA ThreeAndTwo ==
  ASSUME NEW q \in Seq(Tokens), NEW a \in Tokens, NEW b \in Tokens, NEW s \in Tokens,
         NEW d \in Tokens, NEW e \in Tokens
  PROVE  q \o (<<a, b, s>> \o <<d, e>>) =
           Append(Append(Append(Append(Append(q, a), b), s), d), e)
  OBVIOUS

LEMMA FiveAndTwo ==
  ASSUME NEW q \in Seq(Tokens), NEW a \in Tokens, NEW b \in Tokens, NEW r \in Tokens,
         NEW x \in Tokens, NEW e \in Tokens
  PROVE  q \o (<<a, b, r, x, e>> \o <<a, r>>) =
           Append(Append(Append(Append(Append(Append(Append(q, a), b), r), x), e), a), r)
  BY SMTT(30)

(* After ATN, a command for channel d leads to view w1 instead of w. *)
AfterCommand(q, command, d) ==
  Append(Append(Append(q, <<"atn">>), <<command, d>>), <<"released">>)

Called(c, w, command, d, w1) ==
  /\ w1.at = d /\ w1.kind = w.kind /\ w1.count = w.count
  /\ IF c = d THEN w1.cmd = command /\ w1.mode = ModeAfter(w, command) ELSE w1.mode = w.mode

LEMMA LeadsCommand ==
  ASSUME NEW c \in Channels, NEW v, NEW q \in Seq(Tokens), NEW w \in Views,
         Leads(c, v, q, w), NEW command \in Commands, NEW d \in Channels,
         command = "open" /\ c = d => w.mode # "write"
  PROVE  /\ AfterCommand(q, command, d) \in Seq(Tokens)
         /\ \E w1 \in Views : /\ Leads(c, v, AfterCommand(q, command, d), w1)
                             /\ Called(c, w, command, d, w1)
<1> DEFINE p1 == Append(q, <<"atn">>)
           t == <<command, d>>
           p2 == Append(p1, t)
           w1 == Does(c, w, t)
           p3 == Append(p2, <<"released">>)
<1>1. p1 \in Seq(Tokens) /\ Leads(c, v, p1, w)
  BY LeadsSilent
<1>2. t \in Tokens /\ t[1] = command /\ t[2] = d /\ t[1] \in Commands
  BY AToken
<1>3. Allowed(c, w, t)
  <2> HIDE DEF t
  <2> QED
    BY <1>2 DEF Allowed, Commands
<1> HIDE DEF p1, t
<1>4. p2 \in Seq(Tokens) /\ w1 \in Views /\ Leads(c, v, p2, w1)
  BY <1>1, <1>2, <1>3, LeadsAppend
<1> HIDE DEF p2
<1>5. p3 \in Seq(Tokens) /\ Leads(c, v, p3, w1)
  <2> HIDE DEF w1
  <2> QED
    BY <1>4, LeadsSilent
<1>6. /\ w1.at = d /\ w1.kind = w.kind /\ w1.count = w.count
      /\ IF c = d THEN w1.cmd = command /\ w1.mode = ModeAfter(w, command)
         ELSE w1.mode = w.mode
  <2>1. CASE c = d
    <3>1. w1 = Addressed(c, w, t)
      BY <1>2, <2>1, DoesIs
    <3> HIDE DEF w1
    <3> QED
      BY <1>2, <2>1, <3>1 DEF Addressed, Views
  <2>2. CASE c # d
    <3>1. w1 = [w EXCEPT !.at = d]
      BY <1>2, <2>2, DoesIs
    <3> HIDE DEF w1
    <3> QED
      BY <2>2, <3>1 DEF Views
  <2> QED
    BY <2>1, <2>2
<1> HIDE DEF w1
<1> QED
  BY <1>4, <1>5, <1>6 DEF p1, p2, p3, t, AfterCommand, Called

LEMMA LeadsUnlisten ==
  ASSUME NEW c \in Channels, NEW v, NEW q \in Seq(Tokens), NEW w \in Views,
         Leads(c, v, q, w)
  PROVE  /\ Append(Append(q, <<"atn">>), <<"released">>) \in Seq(Tokens)
         /\ Leads(c, v, Append(Append(q, <<"atn">>), <<"released">>), w)
<1> DEFINE p == Append(q, <<"atn">>)
<1>1. p \in Seq(Tokens) /\ Leads(c, v, p, w)
  BY LeadsSilent
<1> HIDE DEF p
<1>2. Append(p, <<"released">>) \in Seq(Tokens) /\ Leads(c, v, Append(p, <<"released">>), w)
  BY <1>1, LeadsSilent
<1> QED
  BY <1>2 DEF p

(* What Say does in each of its uses *)
LEMMA SayType ==
  ASSUME Inv, NEW tokens, Say(tokens), up' \in Seq(Tokens), Len(tokens) \in Nat,
         Len(up') = Len(up) + Len(tokens), bus' \in {"free", "talk"},
         opened' \in [Channels -> Names], sent' \in [Channels -> Nat], on' \in Channels,
         bus' = "talk" => opened'[on'].kind # "write"
  PROVE  TypeInv'
<1>1. UNCHANGED <<task, down, flush>> /\ Len(up) + Len(tokens) <= UpDepth
  BY DEF Say, Room
<1>2. down \in Seq(Bytes) /\ Len(down) \in Nat
  BY DEF Inv, TypeInv
<1> QED
  BY <1>1, <1>2, TypeKept

LEMMA HostUntalkKeeps == Inv /\ HostUntalk => Inv'
<1> SUFFICES ASSUME Inv, HostUntalk
             PROVE  Inv'
  OBVIOUS
<1>1. /\ Say(Unlisten) /\ bus' = "free" /\ UNCHANGED <<opened, sent, on, task>>
      /\ up' = up \o <<<<"atn">>, <<"released">>>> /\ up \in Seq(Tokens)
  BY DEF HostUntalk, Say, Unlisten, host, Inv, TypeInv
<1>2. up' = Append(Append(up, <<"atn">>), <<"released">>)
  BY <1>1, AToken, TwoTokens DEF Signals
<1>3. ASSUME NEW c \in Channels
      PROVE  up' \in Seq(Tokens) /\ \E w \in Views : Leads(c, View(c), up', w) /\ HostView(c, w)'
  <2>1. PICK w \in Views : Leads(c, View(c), up, w) /\ HostView(c, w)
    BY DEF Inv, ViewInv
  <2>2. HostView(c, w)'
    BY <1>1, <2>1 DEF HostView
  <2> QED
    BY <1>1, <1>2, <2>1, <2>2, LeadsUnlisten
<1>4. TypeInv'
  <2>1. up' \in Seq(Tokens) /\ Len(up') = Len(up) + 2 /\ Len(Unlisten) = 2
    BY <1>1, <1>2, AToken DEF Signals, Unlisten
  <2>2. opened' \in [Channels -> Names] /\ sent' \in [Channels -> Nat] /\ on' \in Channels
    BY <1>1 DEF Inv, TypeInv
  <2>3. /\ Len(Unlisten) \in Nat /\ Len(up') = Len(up) + Len(Unlisten)
        /\ bus' \in {"free", "talk"} /\ bus' # "talk"
    BY <1>1, <2>1
  <2>4. Say(Unlisten)
    BY <1>1
  <2> QED
    BY <2>1, <2>2, <2>3, <2>4, SayType
<1> QED
  BY <1>1, <1>3, <1>4, SayKeeps

(* A token that is for another channel does nothing to the view of c. *)
LEMMA Elsewhere ==
  ASSUME NEW c, NEW v, NEW t, t[1] \notin Commands, v.at # c
  PROVE  Allowed(c, v, t) /\ Does(c, v, t) = v
  BY DoesIs DEF Allowed, Commands

LEMMA LeadsElsewhere ==
  ASSUME NEW c \in Channels, NEW v, NEW q \in Seq(Tokens), NEW w \in Views,
         Leads(c, v, q, w), NEW t \in Tokens, t[1] \notin Commands, w.at # c
  PROVE  Append(q, t) \in Seq(Tokens) /\ Leads(c, v, Append(q, t), w)
<1>1. Allowed(c, w, t) /\ Does(c, w, t) = w
  BY Elsewhere
<1>2. Append(q, t) \in Seq(Tokens) /\ Leads(c, v, Append(q, t), Does(c, w, t))
  BY <1>1, LeadsAppend
<1> QED
  BY <1>1, <1>2

LEMMA HostTalkKeeps == ASSUME NEW d \in Channels PROVE Inv /\ HostTalk(d) => Inv'
<1> SUFFICES ASSUME Inv, HostTalk(d)
             PROVE  Inv'
  OBVIOUS
<1> DEFINE a == <<"atn">>  b == <<"data", d>>  r == <<"released">>  e == <<"ready">>
<1>1. /\ Say(<<a, b, r, e>>) /\ bus' = "talk" /\ on' = d /\ UNCHANGED <<opened, sent, task>>
      /\ up' = up \o <<a, b, r, e>> /\ up \in Seq(Tokens) /\ opened[d].kind # "write"
  BY DEF HostTalk, Say, Inv, TypeInv
<1>2. a \in Tokens /\ b \in Tokens /\ r \in Tokens /\ e \in Tokens
  BY AToken DEF Signals, Commands
<1> HIDE DEF a, b, r, e
<1>3. up' = Append(Append(Append(Append(up, a), b), r), e)
  BY <1>1, <1>2, FourTokens
<1>4. ASSUME NEW c \in Channels
      PROVE  \E w \in Views : Leads(c, View(c), up', w) /\ HostView(c, w)'
  <2>1. PICK w \in Views : Leads(c, View(c), up, w) /\ HostView(c, w)
    BY DEF Inv, ViewInv
  <2> DEFINE p == AfterCommand(up, "data", d)
  <2>7. "data" \in Commands /\ "data" # "open"
    BY DEF Commands
  <2>8. p \in Seq(Tokens) /\ p = Append(Append(Append(up, a), b), r)
    BY <1>1, <2>1, <2>7, LeadsCommand DEF a, b, r, AfterCommand
  <2>9. \E w1 \in Views : Leads(c, View(c), p, w1) /\ Called(c, w, "data", d, w1)
    BY <1>1, <2>1, <2>7, LeadsCommand
  <2> HIDE DEF p
  <2>2. PICK w1 \in Views :
          /\ p \in Seq(Tokens) /\ Leads(c, View(c), p, w1) /\ w1.count = w.count
          /\ w1.at = d /\ w1.mode = IF c = d THEN ModeAfter(w, "data") ELSE w.mode
    BY <2>8, <2>9 DEF Called
  <2>3. Leads(c, View(c), Append(p, e), w1)
    BY <2>2, LeadsSilent DEF e
  <2>4. w1.mode = w.mode
    BY <2>2 DEF ModeAfter
  <2>5. HostView(c, w1)'
    BY <1>1, <2>1, <2>2, <2>4 DEF HostView
  <2> QED
    BY <1>3, <2>2, <2>3, <2>5, <2>8
<1>5. TypeInv'
  <2>1. up' \in Seq(Tokens) /\ Len(up') = Len(up) + 4
    BY <1>1, <1>2, <1>3
  <2>2. opened' \in [Channels -> Names] /\ sent' \in [Channels -> Nat] /\ on' \in Channels
    BY <1>1 DEF Inv, TypeInv
  <2> DEFINE s == <<a, b, r, e>>
  <2>3. /\ Len(s) \in Nat /\ Len(up') = Len(up) + Len(s)
        /\ bus' \in {"free", "talk"} /\ opened'[on'].kind # "write"
    BY <1>1, <2>1
  <2>4. Say(s)
    BY <1>1
  <2> HIDE DEF s
  <2> QED
    BY <2>1, <2>2, <2>3, <2>4, SayType
<1> QED
  BY <1>1, <1>4, <1>5, SayKeeps

LEMMA HostCloseKeeps == ASSUME NEW d \in Channels PROVE Inv /\ HostClose(d) => Inv'
<1> SUFFICES ASSUME Inv, HostClose(d)
             PROVE  Inv'
  OBVIOUS
<1> DEFINE a == <<"atn">>  b == <<"close", d>>  r == <<"released">>
<1>1. /\ Say(<<a, b, r>> \o <<a, r>>) /\ bus' = "free" /\ UNCHANGED <<on, sent, task>>
      /\ up' = up \o (<<a, b, r>> \o <<a, r>>) /\ up \in Seq(Tokens)
      /\ opened' = [opened EXCEPT ![d] = Nothing]
  BY DEF HostClose, Say, Unlisten, Inv, TypeInv
<1>2. a \in Tokens /\ b \in Tokens /\ r \in Tokens
  BY AToken DEF Signals, Commands
<1>6. opened \in [Channels -> Names] /\ sent \in [Channels -> Nat] /\ on \in Channels
  BY DEF Inv, TypeInv
<1> HIDE DEF a, b, r
<1>3. up' = Append(Append(Append(Append(Append(up, a), b), r), a), r)
  BY <1>1, <1>2, ThreeAndTwo
<1>4. ASSUME NEW c \in Channels
      PROVE  \E w \in Views : Leads(c, View(c), up', w) /\ HostView(c, w)'
  <2>1. PICK w \in Views : Leads(c, View(c), up, w) /\ HostView(c, w)
    BY DEF Inv, ViewInv
  <2> DEFINE p == AfterCommand(up, "close", d)
  <2>7. "close" \in Commands /\ "close" # "open"
    BY DEF Commands
  <2>8. p \in Seq(Tokens) /\ p = Append(Append(Append(up, a), b), r)
    BY <1>1, <2>1, <2>7, LeadsCommand DEF a, b, r, AfterCommand
  <2>9. \E w1 \in Views : Leads(c, View(c), p, w1) /\ Called(c, w, "close", d, w1)
    BY <1>1, <2>1, <2>7, LeadsCommand
  <2> HIDE DEF p
  <2>2. PICK w1 \in Views :
          /\ p \in Seq(Tokens) /\ Leads(c, View(c), p, w1) /\ w1.count = w.count
          /\ w1.at = d /\ w1.mode = IF c = d THEN ModeAfter(w, "close") ELSE w.mode
    BY <2>8, <2>9 DEF Called
  <2>3. Leads(c, View(c), Append(Append(p, a), r), w1)
    BY <2>2, LeadsUnlisten DEF a, r
  <2>4. IF c = d THEN w1.mode = "other" ELSE w1.mode = w.mode
    BY <2>2 DEF ModeAfter
  <2>5. IF c = d THEN opened'[c].kind = "closed" ELSE opened'[c] = opened[c]
    BY <1>1, <1>6 DEF Nothing
  <2>6. HostView(c, w1)'
    BY <1>1, <2>1, <2>2, <2>4, <2>5 DEF HostView
  <2> QED
    BY <1>3, <2>2, <2>3, <2>6, <2>8
<1>5. TypeInv'
  <2>1. up' \in Seq(Tokens) /\ Len(up') = Len(up) + 5
    BY <1>1, <1>2, <1>3
  <2>2. opened' \in [Channels -> Names] /\ sent' \in [Channels -> Nat] /\ on' \in Channels
    <3>1. Nothing \in Names
      BY DEF Nothing, Names
    <3> QED
      BY <1>1, <1>6, <3>1
  <2> DEFINE s == <<a, b, r>> \o <<a, r>>
  <2>3. /\ Len(s) \in Nat /\ Len(up') = Len(up) + Len(s)
        /\ bus' \in {"free", "talk"} /\ bus' # "talk"
    BY <1>1, <2>1
  <2>4. Say(s)
    BY <1>1
  <2> HIDE DEF s
  <2> QED
    BY <2>1, <2>2, <2>3, <2>4, SayType
<1> QED
  BY <1>1, <1>4, <1>5, SayKeeps

LEMMA HostWriteKeeps == ASSUME NEW d \in Channels PROVE Inv /\ HostWrite(d) => Inv'
<1> SUFFICES ASSUME Inv, HostWrite(d)
             PROVE  Inv'
  OBVIOUS
<1> DEFINE a == <<"atn">>  b == <<"data", d>>  r == <<"released">>
           x == <<"byte", sent[d]>>  e == <<"end">>
<1>1. /\ Say(<<a, b, r, x, e>> \o <<a, r>>) /\ bus' = "free" /\ UNCHANGED <<opened, on, task>>
      /\ up' = up \o (<<a, b, r, x, e>> \o <<a, r>>) /\ up \in Seq(Tokens)
      /\ sent' = [sent EXCEPT ![d] = @ + 1] /\ opened[d].kind = "write"
  BY DEF HostWrite, Say, Unlisten, Inv, TypeInv
<1>6. opened \in [Channels -> Names] /\ sent \in [Channels -> Nat] /\ on \in Channels
  BY DEF Inv, TypeInv
<1>2. /\ a \in Tokens /\ b \in Tokens /\ r \in Tokens /\ x \in Tokens /\ e \in Tokens
      /\ x[1] = "byte" /\ x[2] = sent[d] /\ e[1] = "end"
  BY <1>6, AToken DEF Signals, Commands
<1> HIDE DEF a, b, r, x, e
<1>3. up' = Append(Append(Append(Append(Append(Append(Append(up, a), b), r), x), e), a), r)
  <2>1. /\ up \in Seq(Tokens) /\ a \in Tokens /\ b \in Tokens /\ r \in Tokens
        /\ x \in Tokens /\ e \in Tokens
    BY <1>1, <1>2
  <2>2. up \o (<<a, b, r, x, e>> \o <<a, r>>) =
          Append(Append(Append(Append(Append(Append(Append(up, a), b), r), x), e), a), r)
    BY <2>1, FiveAndTwo, SMTT(60)
  <2> QED
    BY <1>1, <2>2
<1>4. ASSUME NEW c \in Channels
      PROVE  \E w \in Views : Leads(c, View(c), up', w) /\ HostView(c, w)'
  <2>1. PICK w \in Views : Leads(c, View(c), up, w) /\ HostView(c, w)
    BY DEF Inv, ViewInv
  <2> DEFINE p == AfterCommand(up, "data", d)
  <2>7. "data" \in Commands /\ "data" # "open"
    BY DEF Commands
  <2>8. p \in Seq(Tokens) /\ p = Append(Append(Append(up, a), b), r)
    BY <1>1, <2>1, <2>7, LeadsCommand DEF a, b, r, AfterCommand
  <2>9. \E w1 \in Views : Leads(c, View(c), p, w1) /\ Called(c, w, "data", d, w1)
    BY <1>1, <2>1, <2>7, LeadsCommand
  <2> HIDE DEF p
  <2>2. PICK w1 \in Views :
          /\ p \in Seq(Tokens) /\ Leads(c, View(c), p, w1) /\ w1.count = w.count
          /\ w1.at = d /\ w1.mode = w.mode /\ (c = d => w1.cmd = "data")
    BY <2>8, <2>9 DEF Called, ModeAfter
  <2> DEFINE p2 == Append(Append(p, x), e)
  <2>3. \E w2 \in Views : /\ p2 \in Seq(Tokens) /\ Leads(c, View(c), p2, w2)
                          /\ w2.mode = w.mode
                          /\ w2.count = IF c = d THEN w.count + 1 ELSE w.count
    <3>1. CASE c = d
      <4> DEFINE w2 == Given(w1)
      <4>1. Allowed(c, w1, x) /\ Does(c, w1, x) = w2
        <5>1. w1.mode = "write" /\ x[2] = w1.count
          BY <1>1, <1>2, <2>1, <2>2, <3>1 DEF HostView
        <5>2. Allowed(c, w1, x)
          BY <1>2, <5>1 DEF Allowed
        <5>3. Does(c, w1, x) = Given(w1)
          BY <1>2, <2>2, <3>1, DoesIs
        <5> QED
          BY <5>2, <5>3
      <4>2. w2.mode = w.mode /\ w2.cmd = "data" /\ w2.at = c /\ w2.count = w.count + 1
        BY <2>2, <3>1 DEF Given, Views
      <4> HIDE DEF w2
      <4>3. /\ Append(p, x) \in Seq(Tokens) /\ w2 \in Views
            /\ Leads(c, View(c), Append(p, x), w2)
        <5>1. p \in Seq(Tokens) /\ Leads(c, View(c), p, w1) /\ w1 \in Views /\ x \in Tokens
          BY <1>2, <2>2
        <5> QED
          BY <4>1, <5>1, LeadsAppend
      <4>4. Allowed(c, w2, e) /\ Does(c, w2, e) = w2
        <5>1. Allowed(c, w2, e)
          BY <1>2, <4>2 DEF Allowed
        <5>2. e[1] = "end" /\ w2.cmd # "open"
          BY <1>2, <4>2
        <5> QED
          BY <5>1, <5>2, DoesIs
      <4>5. p2 \in Seq(Tokens) /\ Leads(c, View(c), p2, w2)
        <5>1. e \in Tokens /\ Allowed(c, w2, e)
          BY <1>2, <4>4
        <5>2. p2 \in Seq(Tokens) /\ Leads(c, View(c), p2, Does(c, w2, e))
          BY <4>3, <5>1, LeadsAppend
        <5> QED
          BY <4>4, <5>2
      <4> QED
        BY <3>1, <4>2, <4>3, <4>5
    <3>2. CASE c # d
      <4>1. x[1] \notin Commands /\ e[1] \notin Commands /\ w1.at # c
        BY <1>2, <2>2, <3>2 DEF Commands
      <4>2. Append(p, x) \in Seq(Tokens) /\ Leads(c, View(c), Append(p, x), w1)
        BY <1>2, <2>2, <4>1, LeadsElsewhere
      <4>3. p2 \in Seq(Tokens) /\ Leads(c, View(c), p2, w1)
        BY <1>2, <4>1, <4>2, LeadsElsewhere
      <4> QED
        BY <2>2, <3>2, <4>3
    <3> QED
      BY <3>1, <3>2
  <2> HIDE DEF p2
  <2>4. PICK w2 \in Views : /\ p2 \in Seq(Tokens) /\ Leads(c, View(c), p2, w2)
                            /\ w2.mode = w.mode
                            /\ w2.count = IF c = d THEN w.count + 1 ELSE w.count
    BY <2>3
  <2>5. Leads(c, View(c), Append(Append(p2, a), r), w2)
    BY <2>4, LeadsUnlisten DEF a, r
  <2>6. HostView(c, w2)'
    BY <1>1, <1>6, <2>1, <2>4 DEF HostView
  <2> QED
    BY <1>3, <2>4, <2>5, <2>6, <2>8 DEF p2
<1>5. TypeInv'
  <2>1. up' \in Seq(Tokens) /\ Len(up') = Len(up) + 7
    BY <1>1, <1>2, <1>3
  <2>2. opened' \in [Channels -> Names] /\ sent' \in [Channels -> Nat] /\ on' \in Channels
    BY <1>1, <1>6
  <2> DEFINE s == <<a, b, r, x, e>> \o <<a, r>>
  <2>3. /\ Len(s) \in Nat /\ Len(up') = Len(up) + Len(s)
        /\ bus' \in {"free", "talk"} /\ bus' # "talk"
    BY <1>1, <2>1
  <2>4. Say(s)
    BY <1>1
  <2> HIDE DEF s
  <2> QED
    BY <2>1, <2>2, <2>3, <2>4, SayType
<1> QED
  BY <1>1, <1>4, <1>5, SayKeeps

LEMMA HostOpenKeeps ==
  ASSUME NEW d \in Channels, NEW o \in Openings PROVE Inv /\ HostOpen(d, o) => Inv'
<1> SUFFICES ASSUME Inv, HostOpen(d, o)
             PROVE  Inv'
  OBVIOUS
<1> DEFINE a == <<"atn">>  b == <<"open", d>>  r == <<"released">>
           x == <<"name", o>>  e == <<"end">>
<1>1. /\ Say(<<a, b, r, x, e>> \o <<a, r>>) /\ bus' = "free" /\ UNCHANGED <<on, task>>
      /\ up' = up \o (<<a, b, r, x, e>> \o <<a, r>>) /\ up \in Seq(Tokens)
      /\ opened' = [opened EXCEPT ![d] = o]
      /\ sent' = [sent EXCEPT ![d] = IF o.kind = "write" THEN 0 ELSE @]
      /\ opened[d].kind # "write"
  BY DEF HostOpen, Say, Unlisten, Inv, TypeInv
<1>6. opened \in [Channels -> Names] /\ sent \in [Channels -> Nat] /\ on \in Channels
  BY DEF Inv, TypeInv
<1>2. /\ a \in Tokens /\ b \in Tokens /\ r \in Tokens /\ x \in Tokens /\ e \in Tokens
      /\ x[1] = "name" /\ x[2] = o /\ e[1] = "end"
  BY AToken DEF Signals, Commands
<1> HIDE DEF a, b, r, x, e
<1>3. up' = Append(Append(Append(Append(Append(Append(Append(up, a), b), r), x), e), a), r)
  <2>1. /\ up \in Seq(Tokens) /\ a \in Tokens /\ b \in Tokens /\ r \in Tokens
        /\ x \in Tokens /\ e \in Tokens
    BY <1>1, <1>2
  <2>2. up \o (<<a, b, r, x, e>> \o <<a, r>>) =
          Append(Append(Append(Append(Append(Append(Append(up, a), b), r), x), e), a), r)
    BY <2>1, FiveAndTwo, SMTT(60)
  <2> QED
    BY <1>1, <2>2
<1>4. ASSUME NEW c \in Channels
      PROVE  \E w \in Views : Leads(c, View(c), up', w) /\ HostView(c, w)'
  <2>1. PICK w \in Views : Leads(c, View(c), up, w) /\ HostView(c, w)
    BY DEF Inv, ViewInv
  <2> DEFINE p == AfterCommand(up, "open", d)
  <2>7. "open" \in Commands /\ (c = d => w.mode # "write")
    BY <1>1, <2>1 DEF Commands, HostView
  <2>8. p \in Seq(Tokens) /\ p = Append(Append(Append(up, a), b), r)
    BY <1>1, <2>1, <2>7, LeadsCommand DEF a, b, r, AfterCommand
  <2>9. \E w1 \in Views : Leads(c, View(c), p, w1) /\ Called(c, w, "open", d, w1)
    BY <1>1, <2>1, <2>7, LeadsCommand
  <2> HIDE DEF p
  <2>2. PICK w1 \in Views :
          /\ p \in Seq(Tokens) /\ Leads(c, View(c), p, w1) /\ w1.count = w.count
          /\ w1.at = d
          /\ IF c = d THEN w1.mode = "naming" /\ w1.cmd = "open" ELSE w1.mode = w.mode
    BY <2>8, <2>9 DEF Called, ModeAfter
  <2> DEFINE p2 == Append(Append(p, x), e)
             mode == IF o.kind = "write" THEN "write" ELSE "other"
             count == IF o.kind = "write" THEN 0 ELSE w.count
  <2>3. \E w3 \in Views : /\ p2 \in Seq(Tokens) /\ Leads(c, View(c), p2, w3)
                          /\ w3.mode = IF c = d THEN mode ELSE w.mode
                          /\ w3.count = IF c = d THEN count ELSE w.count
    <3>1. CASE c = d
      <4> DEFINE w2 == Named(w1, x)
                 w3 == Opened(w2)
      <4>1. Allowed(c, w1, x) /\ Does(c, w1, x) = w2
        <5>1. Allowed(c, w1, x)
          BY <1>2 DEF Allowed
        <5>2. Does(c, w1, x) = Named(w1, x)
          BY <1>2, <2>2, <3>1, DoesIs
        <5> QED
          BY <5>1, <5>2
      <4>2. /\ w2.mode = "naming" /\ w2.cmd = "open" /\ w2.at = c /\ w2.count = w.count
            /\ w2.kind = o.kind
        BY <1>2, <2>2, <3>1 DEF Named, Views
      <4>6. w2 \in Views
        BY <1>2, <2>2, <4>1, DoesType
      <4> HIDE DEF w2
      <4>3. Append(p, x) \in Seq(Tokens) /\ Leads(c, View(c), Append(p, x), w2)
        <5>1. p \in Seq(Tokens) /\ Leads(c, View(c), p, w1) /\ w1 \in Views /\ x \in Tokens
          BY <1>2, <2>2
        <5> QED
          BY <4>1, <5>1, LeadsAppend
      <4>4. Allowed(c, w2, e) /\ Does(c, w2, e) = w3
        <5>1. Allowed(c, w2, e)
          BY <1>2, <4>2 DEF Allowed
        <5>2. e[1] = "end" /\ w2.cmd = "open" /\ w2.at = c
          BY <1>2, <4>2
        <5>3. Does(c, w2, e) = Opened(w2)
          BY <5>2, DoesIs
        <5> QED
          BY <5>1, <5>3
      <4>7. w3 \in Views
        BY <1>2, <4>4, <4>6, DoesType
      <4>8. w3.mode = mode /\ w3.count = count
        BY <4>2, <4>6 DEF Opened, Views
      <4> HIDE DEF w3
      <4>5. p2 \in Seq(Tokens) /\ Leads(c, View(c), p2, w3)
        BY <1>2, <4>3, <4>4, <4>6, LeadsAppend
      <4> QED
        BY <3>1, <4>5, <4>7, <4>8
    <3>2. CASE c # d
      <4>1. x[1] \notin Commands /\ e[1] \notin Commands /\ w1.at # c
        BY <1>2, <2>2, <3>2 DEF Commands
      <4>2. Append(p, x) \in Seq(Tokens) /\ Leads(c, View(c), Append(p, x), w1)
        BY <1>2, <2>2, <4>1, LeadsElsewhere
      <4>3. p2 \in Seq(Tokens) /\ Leads(c, View(c), p2, w1)
        BY <1>2, <4>1, <4>2, LeadsElsewhere
      <4> QED
        BY <2>2, <3>2, <4>3
    <3> QED
      BY <3>1, <3>2
  <2> HIDE DEF p2
  <2>4. PICK w3 \in Views : /\ p2 \in Seq(Tokens) /\ Leads(c, View(c), p2, w3)
                            /\ w3.mode = IF c = d THEN mode ELSE w.mode
                            /\ w3.count = IF c = d THEN count ELSE w.count
    BY <2>3
  <2>5. Leads(c, View(c), Append(Append(p2, a), r), w3)
    BY <2>4, LeadsUnlisten DEF a, r
  <2>10. /\ opened'[c] = IF c = d THEN o ELSE opened[c]
         /\ sent'[c] = IF c = d /\ o.kind = "write" THEN 0 ELSE sent[c]
    BY <1>1, <1>6
  <2>6. HostView(c, w3)'
    BY <1>1, <2>1, <2>4, <2>10 DEF HostView
  <2> QED
    BY <1>3, <2>4, <2>5, <2>6, <2>8 DEF p2
<1>5. TypeInv'
  <2>1. up' \in Seq(Tokens) /\ Len(up') = Len(up) + 7
    BY <1>1, <1>2, <1>3
  <2>2. opened' \in [Channels -> Names] /\ sent' \in [Channels -> Nat] /\ on' \in Channels
    <3>1. o \in Names
      BY TalkAssumption DEF Names
    <3> QED
      BY <1>1, <1>6, <3>1
  <2> DEFINE s == <<a, b, r, x, e>> \o <<a, r>>
  <2>3. /\ Len(s) \in Nat /\ Len(up') = Len(up) + Len(s)
        /\ bus' \in {"free", "talk"} /\ bus' # "talk"
    BY <1>1, <2>1
  <2>4. Say(s)
    BY <1>1
  <2> HIDE DEF s
  <2> QED
    BY <2>1, <2>2, <2>3, <2>4, SayType
<1> QED
  BY <1>1, <1>4, <1>5, SayKeeps

(* A byte the host takes is of a channel that it reads. *)
LEMMA BusByteKeeps == Inv /\ BusByte => Inv'
<1> SUFFICES ASSUME Inv, BusByte
             PROVE  Inv'
  OBVIOUS
<1> DEFINE t == <<"popped">>
<1>1. /\ bus = "talk" /\ bus' \in {"free", "talk"} /\ down # <<>> /\ down' = Tail(down)
      /\ up' = Append(up, t) /\ Len(up) + 1 <= UpDepth
      /\ UNCHANGED <<flush, task, opened, sent, on>>
  BY DEF BusByte, Room
<1>2. /\ up \in Seq(Tokens) /\ down \in Seq(Bytes)
      /\ opened \in [Channels -> Names] /\ sent \in [Channels -> Nat] /\ on \in Channels
      /\ opened[on].kind # "write"
  BY <1>1 DEF Inv, TypeInv
<1>3. t \in Tokens /\ t[1] = "popped"
  BY AToken DEF Signals
<1> HIDE DEF t
<1>4. ASSUME NEW c \in Channels
      PROVE  \E w \in Views : Leads(c, View(c), up', w) /\ HostView(c, w)'
  <2>1. PICK w \in Views : Leads(c, View(c), up, w) /\ HostView(c, w)
    BY DEF Inv, ViewInv
  <2>2. w.at = c => w.mode # "write"
    BY <1>1, <1>2, <2>1 DEF HostView
  <2>3. Allowed(c, w, t)
    BY <1>3, <2>2 DEF Allowed
  <2>4. Does(c, w, t) = w
    <3>1. t[1] \notin Commands \cup {"name", "byte", "end"}
      BY <1>3 DEF Commands
    <3> QED
      BY <3>1, DoesIs
  <2>5. Leads(c, View(c), up', w)
    BY <1>1, <1>2, <1>3, <2>1, <2>3, <2>4, LeadsAppend
  <2>6. HostView(c, w)'
    BY <1>1, <2>1 DEF HostView
  <2> QED
    BY <2>5, <2>6
<1>5. TypeInv'
  <2>1. up' \in Seq(Tokens) /\ Len(up') = Len(up) + 1
    BY <1>1, <1>2, <1>3, AppendProperties
  <2>2. down' \in Seq(Bytes) /\ Len(down') <= Len(down)
    BY <1>1, <1>2, TailLength
  <2>3. opened' \in [Channels -> Names] /\ sent' \in [Channels -> Nat] /\ on' \in Channels
        /\ opened'[on'].kind # "write" /\ bus' \in {"free", "attention", "talk"}
    BY <1>1, <1>2
  <2>4. Len(up') <= UpDepth
    BY <1>1, <2>1
  <2> QED
    BY <1>1, <2>1, <2>2, <2>3, <2>4, TypeKept
<1> QED
  BY <1>1, <1>4, <1>5, SayKeeps

(****************************************************************************)
(* The theorems                                                             *)
(****************************************************************************)
LEMMA StartType == Start \in ChannelStates /\ Reading(Start) /\ ModeOf(Start) = "other"
<1> DEFINE rest == [i \in 0 .. Block - 1 |-> Rest]
<1>1. rest \in Buffer /\ Nothing \in Names
  BY DEF Buffer, Rest, Nothing, Names
<1>2. Start.state = "idle" /\ Start.write = FALSE
  BY DEF Start
<1>3. 0 \in 0 .. Block - 1 /\ 0 \in 0 .. Block /\ 0 \in -1 .. Block - 1
  BY BlockFacts
<1> HIDE DEF rest
<1>4. Start = [state |-> "idle", write |-> FALSE, last_command |-> "none", name |-> Nothing,
               pointer |-> 0, prefetch |-> 0, prefetch_max |-> 0, last_byte |-> 0,
               size |-> 0, block |-> 0, buffer |-> rest]
  BY DEF Start, rest
<1>5. Start \in ChannelStates
  BY <1>1, <1>3, <1>4 DEF ChannelStates
<1> QED
  BY <1>2, <1>5 DEF Reading, ModeOf, Writing

LEMMA InitInv == Init => Inv
<1> SUFFICES ASSUME Init
             PROVE  Inv
  OBVIOUS
<1>1. /\ bus = "free" /\ up = <<>> /\ down = <<>> /\ flush = TRUE /\ pc = "rx"
      /\ talking = FALSE /\ current \in Channels /\ on = current
      /\ chan = [c \in Channels |-> Start] /\ stored = [c \in Channels |-> <<>>]
      /\ opened = [c \in Channels |-> Nothing] /\ sent = [c \in Channels |-> 0]
  BY DEF Init
<1>2. TypeInv
  <2>1. Nothing \in Names /\ UpDepth \in Nat /\ Depth \in Nat
    BY TalkAssumption DEF Nothing, Names
  <2>2. up \in Seq(Tokens) /\ Len(up) <= UpDepth /\ down \in Seq(Bytes) /\ Len(down) <= Depth
    BY <1>1, <2>1
  <2>3. chan \in [Channels -> ChannelStates] /\ opened \in [Channels -> Names]
    BY <1>1, <2>1, StartType
  <2>4. stored \in [Channels -> Seq(Int)] /\ sent \in [Channels -> Nat]
    BY <1>1
  <2> QED
    BY <1>1, <2>2, <2>3, <2>4 DEF TypeInv
<1>3. ReadingInv
  BY <1>1, StartType DEF ReadingInv
<1>4. ASSUME NEW c \in Channels
      PROVE  /\ chan[c] = Start /\ stored[c] = <<>> /\ opened[c] = Nothing /\ sent[c] = 0
             /\ ~Writing(chan[c])
  BY <1>1 DEF Start, Writing
<1>5. ContentInv
  <2>1. ASSUME NEW c \in Channels
        PROVE  Content(c)
    <3>1. Len(stored[c]) = 0 /\ ~Writing(chan[c])
      BY <1>4
    <3> QED
      BY <3>1 DEF Content
  <2> QED
    BY <2>1 DEF ContentInv
<1>6. ASSUME NEW c \in Channels
      PROVE  \E w \in Views : Leads(c, View(c), up, w) /\ HostView(c, w)
  <2> DEFINE w == View(c)
             f == [i \in 0 .. 0 |-> w]
  <2>1. /\ w \in Views /\ w.mode = "other" /\ w.count = 0
    <3>1. w = [at |-> current, mode |-> "other", cmd |-> "none", kind |-> "closed", count |-> 0]
      BY <1>4, StartType DEF View, Start, Nothing
    <3> HIDE DEF w
    <3> QED
      BY <1>1, <3>1 DEF Views
  <2>2. opened[c].kind = "closed" /\ bus # "talk" /\ sent[c] = 0 /\ Len(up) = 0
    BY <1>1, <1>4 DEF Nothing
  <2> HIDE DEF w
  <2>3. f \in [0 .. Len(up) -> Views] /\ f[0] = w /\ f[Len(up)] = w
    BY <2>1, <2>2
  <2> HIDE DEF f
  <2>4. Leads(c, w, up, w)
    BY <2>2, <2>3 DEF Leads
  <2>5. HostView(c, w)
    BY <2>1, <2>2 DEF HostView
  <2> QED
    BY <2>1, <2>4, <2>5 DEF w
<1> QED
  BY <1>2, <1>3, <1>5, <1>6 DEF Inv, ViewInv

LEMMA StepInv == Inv /\ [Next]_vars => Inv'
<1> SUFFICES ASSUME Inv, [Next]_vars
             PROVE  Inv'
  OBVIOUS
<1>1. CASE Task
  BY <1>1, HandleKeeps, TransmitKeeps, PutKeeps DEF Task
<1>2. CASE Bus
  BY <1>2, BusByteKeeps, BusQuietKeeps DEF Bus
<1>3. CASE Host
  <2>1. CASE Attention \/ HostTimeout
    BY <2>1, BusQuietKeeps
  <2>2. CASE HostUntalk
    BY <2>2, HostUntalkKeeps
  <2>3. ASSUME NEW c \in Channels, HostTalk(c) \/ HostWrite(c) \/ HostClose(c)
        PROVE  Inv'
    BY <2>3, HostTalkKeeps, HostWriteKeeps, HostCloseKeeps
  <2>4. ASSUME NEW c \in Channels, NEW o \in Openings, HostOpen(c, o)
        PROVE  Inv'
    BY <2>4, HostOpenKeeps
  <2> QED
    BY <1>3, <2>1, <2>2, <2>3, <2>4 DEF Host
<1>4. CASE UNCHANGED vars
  <2>1. /\ UNCHANGED <<up, chan, stored, current, opened, sent, on, bus>>
        /\ UNCHANGED <<down, flush, pc, talking>>
    BY <1>4 DEF vars, fifos, task, host
  <2>2. TypeInv'
    BY <2>1 DEF Inv, TypeInv
  <2> QED
    BY <2>1, <2>2, QuietKeeps
<1> QED
  BY <1>1, <1>2, <1>3, <1>4 DEF Next

LEMMA SequenceIs ==
  ASSUME NEW s \in Seq(Int)
  PROVE  s = [i \in 1 .. Len(s) |-> s[i]]
<1>1. s \in [1 .. Len(s) -> Int]
  BY LenProperties
<1> DEFINE n == Len(s)
<1> HIDE DEF n
<1>2. s \in [1 .. n -> Int] => s = [i \in 1 .. n |-> s[i]]
  OBVIOUS
<1> QED
  BY <1>1, <1>2 DEF n

LEMMA Always == Spec => []Inv
  BY InitInv, StepInv, PTL DEF Spec

(* The variables keep their types: the FIFOs do not overflow, and no pointer *)
(* of a channel leaves its buffer, for every block size and FIFO depth.      *)
THEOREM TypeCorrect == Spec => []TypeOK
<1>1. Inv => TypeOK
  <2> SUFFICES ASSUME Inv
               PROVE  TypeOK
    OBVIOUS
  <2>1. TypeInv
    BY DEF Inv
  <2>2. \A c \in Channels : chan[c] \in ChannelStates
    BY <2>1 DEF TypeInv
  <2> QED
    BY <2>1, <2>2, ChannelIs DEF TypeInv, TypeOK
<1> QED
  BY <1>1, Always, PTL

(* Once the FIFO has been read, a file that the host has written and closed *)
(* holds all the bytes it sent, in the order in which it sent them, however *)
(* the host and the task were interleaved, and whatever else it has opened, *)
(* read and interrupted on this channel and on others.                      *)
THEOREM ClosedFilesAreComplete == Spec => []ClosedFileComplete
<1>1. Inv => ClosedFileComplete
  <2> SUFFICES ASSUME Inv, NEW c \in Channels, up = <<>>, opened[c].kind # "write"
               PROVE  stored[c] = [i \in 1 .. sent[c] |-> i - 1]
    BY DEF ClosedFileComplete
  <2>1. PICK w \in Views : Leads(c, View(c), up, w) /\ HostView(c, w)
    BY DEF Inv, ViewInv
  <2>2. w = View(c)
    <3>1. Len(up) = 0
      OBVIOUS
    <3> QED
      BY <2>1, <3>1 DEF Leads
  <2>3. ~Writing(chan[c]) /\ View(c).count = sent[c]
    <3>1. /\ View(c).mode # "write" /\ View(c).mode # "naming"
          /\ View(c).count = sent[c]
      BY <2>1, <2>2 DEF HostView
    <3>2. View(c).mode = ModeOf(chan[c])
      BY DEF View
    <3> QED
      BY <3>1, <3>2 DEF ModeOf, Writing
  <2>4. View(c).count = Len(stored[c])
    <3>1. View(c).count = Len(stored[c]) + 0
      BY <2>3 DEF View
    <3>2. stored[c] \in Seq(Int)
      BY DEF Inv, TypeInv
    <3> QED
      BY <3>1, <3>2, LenProperties
  <2>5. stored[c] \in Seq(Int) /\ \A i \in 1 .. Len(stored[c]) : stored[c][i] = i - 1
    BY DEF Inv, TypeInv, ContentInv, Content
  <2>6. stored[c] = [i \in 1 .. Len(stored[c]) |-> stored[c][i]]
    BY <2>5, SequenceIs
  <2> DEFINE n == Len(stored[c])
  <2>7. n = sent[c]
    BY <2>3, <2>4
  <2>8. \A i \in 1 .. n : stored[c][i] = i - 1
    BY <2>5
  <2> HIDE DEF n
  <2> QED
    BY <2>6, <2>7, <2>8 DEF n
<1> QED
  BY <1>1, Always, PTL
=============================================================================
