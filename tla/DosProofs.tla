------------------------------ MODULE DosProofs -------------------------------
(****************************************************************************)
(* Proofs about the DOS target for every size of its buffer, every file     *)
(* system and every length of a transfer.                                   *)
(****************************************************************************)
EXTENDS Dos, SequenceTheorems, FiniteSetTheorems, TLAPS

LEMMA LeastFacts ==
  ASSUME NEW a \in Nat, NEW b \in Nat
  PROVE  Least(a, b) \in Nat /\ Least(a, b) <= a /\ Least(a, b) <= b
  BY DEF Least

LEMMA StretchLength ==
  ASSUME NEW f, NEW i \in Nat
  PROVE  Stretch(f, i) \in Seq({<<f.name, f.pos + j>> : j \in 1 .. i}) /\ Len(Stretch(f, i)) = i
  BY DEF Stretch

(* What is read is no longer than what was asked for and than the buffer. *)
LEMMA PartLength ==
  ASSUME NEW left \in Nat, NEW bytes \in Parts(left)
  PROVE  Len(bytes) \in Nat /\ Len(bytes) <= left /\ Len(bytes) <= Chunk
<1>1. Chunk \in Nat
  BY DosAssumption
<1>2. PICK i \in 0 .. Least(left, Chunk) : bytes = Stretch(objects[file], i)
  BY DEF Parts
<1>3. /\ Least(left, Chunk) \in Nat
      /\ Least(left, Chunk) <= left /\ Least(left, Chunk) <= Chunk
  BY <1>1, LeastFacts
<1>4. i \in Nat /\ i <= left /\ i <= Chunk
  BY <1>1, <1>3
<1>5. Len(bytes) = i
  BY <1>2, <1>4, StretchLength
<1>6. QED
  BY <1>4, <1>5

LEMMA PartIsSeq ==
  ASSUME NEW left \in Nat, NEW bytes \in Parts(left), objects[file].pos \in Nat
  PROVE  bytes \in Seq({<<objects[file].name, p>> : p \in Int})
<1>1. PICK i \in 0 .. Least(left, Chunk) : bytes = Stretch(objects[file], i)
  BY DEF Parts
<1>2. Least(left, Chunk) \in Nat
  BY DosAssumption, LeastFacts
<1>3. QED
  BY <1>1, <1>2 DEF Stretch

(* A part of a file leaves a transfer under way only with bytes to come. *)
LEMMA PartRemains ==
  ASSUME NEW left \in Nat, NEW bytes \in Parts(left), NEW fails, DataPart(left, bytes, fails)
  PROVE  /\ remaining' \in Nat
         /\ last' \in BOOLEAN /\ Len(data') <= Chunk
         /\ dos_state' = IF last' THEN "idle" ELSE "in_file"
         /\ ~last' => remaining' > 0
<1>1. Len(bytes) \in Nat /\ Len(bytes) <= left /\ Len(bytes) <= Chunk
  BY PartLength
<1>2. remaining' = left - Len(bytes) /\ data' = bytes
  BY DEF DataPart
<1>3. last' = (Len(bytes) # Least(left, Chunk) \/ left = Len(bytes))
  BY DEF DataPart
<1>4. dos_state' = IF last' THEN "idle" ELSE "in_file"
  BY DEF DataPart
<1>5. remaining' \in Nat /\ Len(data') <= Chunk
  BY <1>1, <1>2
<1>6. last' \in BOOLEAN
  BY <1>3
<1>7. ~last' => left # Len(bytes)
  BY <1>3
<1>8. ~last' => remaining' > 0
  BY <1>1, <1>2, <1>7
<1>9. QED
  BY <1>4, <1>5, <1>6, <1>8

(* What each command with a reply of one part does to the transfer. *)
TransferInv == remaining \in Nat /\ dos_state \in {"idle", "in_file", "in_directory"} /\ NoStrayTransfer

LEMMA TransferInit == Init => TransferInv
<1>1. Init => remaining = 0 /\ dos_state = "idle" /\ ~open
  BY DEF Init
<1>2. QED
  BY <1>1 DEF TransferInv, NoStrayTransfer

LEMMA TransferKept ==
  ASSUME TransferInv, ~open, open' = FALSE, UNCHANGED <<dos_state, remaining>>
  PROVE  TransferInv'
  BY DEF TransferInv, NoStrayTransfer

LEMMA TransferNext == TransferInv /\ [Next]_vars => TransferInv'
<1> SUFFICES ASSUME TransferInv, [Next]_vars
             PROVE  TransferInv'
  OBVIOUS
<1>1. ASSUME NEW code, Answer(code), UnchangedReading
      PROVE  TransferInv'
  BY <1>1, TransferKept DEF Answer, Command, UnchangedReading
<1>2. CASE \E name \in Names \cup {Missing} : OpenFile(name)
  <2>1. PICK name \in Names \cup {Missing} : OpenFile(name)
    BY <1>2
  <2>2. QED
    BY <2>1, <1>1 DEF OpenFile
<1>3. CASE CloseFile \/ OpenDir \/ Other
  BY <1>1, <1>3 DEF CloseFile, OpenDir, Other
<1>4. CASE ReadDir
  BY <1>4 DEF ReadDir, DirectoryPart, Command, TransferInv, NoStrayTransfer
<1>5. CASE \E k \in Lengths : FileSeek(k) \/ WriteData(k) \/ LoadReu(k)
  BY <1>5, <1>1 DEF FileSeek, WriteData, LoadReu
<1>6. CASE \E k \in Lengths : ReadData(k)
  <2>1. PICK k \in Lengths : ReadData(k)
    BY <1>6
  <2>2. k \in Nat
    BY DosAssumption
  <2>3. CASE file = 0
    BY <2>1, <2>3, TransferKept DEF ReadData, Answer, Command
  <2>4. CASE file # 0
    <3>1. PICK bytes \in Parts(k), fails \in BOOLEAN :
             Command /\ DataPart(k, bytes, fails) /\ open' = ~last'
      BY <2>1, <2>4 DEF ReadData
    <3>2. UNCHANGED file
      BY <2>1 DEF ReadData
    <3>3. QED
      BY <2>2, <2>4, <3>1, <3>2, PartRemains DEF TransferInv, NoStrayTransfer
  <2>5. QED
    BY <2>3, <2>4
<1>7. CASE \E d \in Dirs \cup {Missing} : ChangeDir(d) \/ CopyHomePath(d)
  <2>1. PICK d \in Dirs \cup {Missing} : ChangeDir(d) \/ CopyHomePath(d)
    BY <1>7
  <2>2. CASE ChangeDir(d)
    BY <2>2, <1>1 DEF ChangeDir
  <2>3. CASE CopyHomePath(d)
    BY <2>3, TransferKept DEF CopyHomePath, Command, UnchangedReading
  <2>4. QED
    BY <2>1, <2>2, <2>3
<1>8. CASE More
  <2>1. open /\ open' = ~last' /\ file' = file
    BY <1>8 DEF More
  <2>2. CASE dos_state = "in_file" /\ \E bytes \in Parts(remaining), fails \in BOOLEAN :
                                         DataPart(remaining, bytes, fails)
    BY <2>1, <2>2, PartRemains DEF TransferInv, NoStrayTransfer
  <2>3. CASE DirectoryPart(current_index) /\ UNCHANGED remaining
    BY <2>1, <2>3 DEF DirectoryPart, TransferInv, NoStrayTransfer
  <2>4. QED
    BY <1>8, <2>2, <2>3 DEF More
<1>9. CASE Abort
  BY <1>9 DEF Abort, TransferInv, NoStrayTransfer
<1>10. CASE UNCHANGED vars
  BY <1>10 DEF vars, dos, history, TransferInv, NoStrayTransfer
<1>11. QED
  BY <1>2, <1>3, <1>4, <1>5, <1>6, <1>7, <1>8, <1>9, <1>10 DEF Next

(* A transfer of a file is under way only while its reply is open, with the *)
(* file there and bytes to come: get_more_data never reads through a null   *)
(* pointer, and whenever it is called the target knows of what.             *)
THEOREM TransfersInOrder == Spec => []NoStrayTransfer
<1>1. TransferInv => NoStrayTransfer
  BY DEF TransferInv
<1>2. QED
  BY <1>1, TransferInit, TransferNext, PTL DEF Spec
(****************************************************************************)
(* Replies are whole                                                        *)
(****************************************************************************)
(* The bytes from the position of the open file to its end. *)
Ahead ==
  LET f == objects[file]
  IN  IF size[f.name] > f.pos THEN size[f.name] - f.pos ELSE 0

LEMMA MaxOfTwo ==
  ASSUME NEW a \in Int, NEW b \in Int
  PROVE  Max({a, b}) = IF a > b THEN a ELSE b
<1>1. \E x \in {a, b} : \A y \in {a, b} : x >= y
  OBVIOUS
<1>2. Max({a, b}) \in {a, b} /\ \A y \in {a, b} : Max({a, b}) >= y
  BY <1>1 DEF Max
<1>3. QED
  BY <1>2

(* A sequence is two others joined when it agrees with the first up to its  *)
(* end and with the second from there.                                      *)
LEMMA JoinedEquals ==
  ASSUME NEW S, NEW s \in Seq(S), NEW t \in Seq(S), NEW u \in Seq(S),
         Len(u) = Len(s) + Len(t),
         \A i \in 1 .. Len(s) : s[i] = u[i],
         \A i \in 1 .. Len(t) : t[i] = u[Len(s) + i]
  PROVE  s \o t = u
<1>1. s \o t \in Seq(S) /\ Len(s \o t) = Len(s) + Len(t)
  BY ConcatProperties, Zenon
<1>2. \A i \in 1 .. Len(s) + Len(t) :
        (s \o t)[i] = IF i <= Len(s) THEN s[i] ELSE t[i - Len(s)]
  BY ConcatProperties, Zenon
<1>3. ASSUME NEW i \in 1 .. Len(s) + Len(t)
      PROVE  (s \o t)[i] = u[i]
  <2> /\ Len(s) \in Nat /\ Len(t) \in Nat
    OBVIOUS
  <2>1. CASE i <= Len(s)
    <3>1. i \in 1 .. Len(s)
      BY <2>1
    <3>2. (s \o t)[i] = s[i]
      BY <1>2, <2>1, Zenon
    <3>3. QED
      BY <3>1, <3>2, Zenon
  <2>2. CASE ~(i <= Len(s))
    <3>1. i - Len(s) \in 1 .. Len(t) /\ Len(s) + (i - Len(s)) = i
      BY <2>2
    <3>2. (s \o t)[i] = t[i - Len(s)]
      BY <1>2, <2>2, Zenon
    <3>3. t[i - Len(s)] = u[Len(s) + (i - Len(s))]
      BY <3>1, Zenon
    <3>4. QED
      BY <3>1, <3>2, <3>3, Zenon
  <2>3. QED
    BY <2>1, <2>2, Zenon
<1>4. QED
  BY <1>1, <1>3, SeqEqual, Zenon

(* A stretch of a file followed by the next one. *)
LEMMA StretchesJoin ==
  ASSUME NEW f, NEW g, NEW k \in Nat, NEW m \in Nat,
         f.pos \in Int, g.name = f.name, g.pos = f.pos + k
  PROVE  Stretch(f, k) \o Stretch(g, m) = Stretch(f, k + m)
<1> DEFINE S == {<<f.name, p>> : p \in Int}
           s == Stretch(f, k)
           t == Stretch(g, m)
           u == Stretch(f, k + m)
<1>1. s \in Seq(S) /\ t \in Seq(S) /\ u \in Seq(S)
  <2>1. s \in Seq(S)
    BY DEF Stretch
  <2>2. t \in Seq(S)
    BY DEF Stretch
  <2>3. u \in Seq(S)
    BY DEF Stretch
  <2>4. QED
    BY <2>1, <2>2, <2>3, Zenon
<1>2. Len(s) = k /\ Len(t) = m /\ Len(u) = k + m
  BY DEF Stretch
<1>3. /\ \A i \in 1 .. k : s[i] = u[i]
      /\ \A i \in 1 .. m : t[i] = u[k + i]
  <2>1. \A i \in 1 .. k : s[i] = <<f.name, f.pos + i>>
    BY DEF Stretch
  <2>2. \A i \in 1 .. m : t[i] = <<f.name, f.pos + (k + i)>>
    BY DEF Stretch
  <2>3. \A i \in 1 .. k + m : u[i] = <<f.name, f.pos + i>>
    BY DEF Stretch
  <2> HIDE DEF s, t, u
  <2>4. \A i \in 1 .. k : i \in 1 .. k + m
    OBVIOUS
  <2>5. \A i \in 1 .. m : k + i \in 1 .. k + m
    OBVIOUS
  <2>6. QED
    BY <2>1, <2>2, <2>3, <2>4, <2>5, Zenon
<1> HIDE DEF S, s, t, u
<1>4. s \o t = u
  <2>1. /\ Len(u) = Len(s) + Len(t)
        /\ \A i \in 1 .. Len(s) : s[i] = u[i]
        /\ \A i \in 1 .. Len(t) : t[i] = u[Len(s) + i]
    BY <1>2, <1>3, Zenon
  <2>2. QED
    BY <1>1, <2>1, JoinedEquals, Zenon
<1>5. QED
  BY <1>4 DEF s, t, u

(* File objects have a position, and the open one is of a file there is. *)
Objects == [name : Names \cup {"closed"}, pos : Nat]

ObjectInv ==
  /\ objects \in Seq(Objects)
  /\ size \in [Names -> Nat]
  /\ file \in 0 .. Len(objects)
  /\ file # 0 => objects[file].name \in Names

LEMMA ObjectInit == Init => ObjectInv
<1>1. Init => objects = <<>> /\ file = 0 /\ size = SizeOf
  BY DEF Init
<1>2. Init => objects \in Seq(Objects) /\ file \in 0 .. Len(objects) /\ file = 0
  BY <1>1
<1>3. QED
  BY <1>1, <1>2, DosAssumption DEF ObjectInv

LEMMA ClosedObject ==
  ASSUME ObjectInv, file # 0
  PROVE  [objects EXCEPT ![file].name = "closed"] \in Seq(Objects)
<1> DEFINE o == [objects[file] EXCEPT !.name = "closed"]
<1>1. /\ objects \in Seq(Objects) /\ file \in 1 .. Len(objects)
      /\ objects[file] \in Objects
  BY DEF ObjectInv
<1>2. o \in Objects
  BY <1>1 DEF Objects
<1> HIDE DEF o
<1>3. [objects EXCEPT ![file] = o] \in Seq(Objects)
  BY <1>1, <1>2
<1>4. QED
  BY <1>3 DEF o

LEMMA PositionSet ==
  ASSUME ObjectInv, file # 0, NEW p \in Nat
  PROVE  LET moved == [objects EXCEPT ![file] = [@ EXCEPT !.pos = p]]
         IN  /\ moved \in Seq(Objects) /\ Len(moved) = Len(objects)
             /\ moved[file].name = objects[file].name /\ moved[file].pos = p
<1> DEFINE o == [objects[file] EXCEPT !.pos = p]
<1>1. /\ objects \in Seq(Objects) /\ file \in 1 .. Len(objects)
      /\ objects[file] \in Objects
  BY DEF ObjectInv
<1>2. o \in Objects /\ o.name = objects[file].name /\ o.pos = p
  BY <1>1 DEF Objects
<1> HIDE DEF o
<1>3. /\ [objects EXCEPT ![file] = o] \in Seq(Objects)
      /\ Len([objects EXCEPT ![file] = o]) = Len(objects)
      /\ [objects EXCEPT ![file] = o][file] = o
  BY <1>1, <1>2
<1>4. QED
  BY <1>2, <1>3 DEF o

(* A read moves the position, and gives what lies at it. *)
LEMMA ReadMoves ==
  ASSUME ObjectInv, file # 0, file' = file, size' = size,
         NEW n \in Nat, NEW bytes, NEW fails \in BOOLEAN, Len(bytes) \in Nat, Read(n, bytes, fails)
  PROVE  /\ ObjectInv'
         /\ objects'[file].name = objects[file].name
         /\ objects'[file].pos = objects[file].pos + Len(bytes)
         /\ bytes = Stretch(objects[file], Len(bytes))
         /\ ~fails => Len(bytes) = Least(n, Ahead)
<1>1. objects' = [objects EXCEPT ![file].pos = @ + Len(bytes)]
  BY DEF Read
<1>2. file \in 1 .. Len(objects) /\ objects[file] \in Objects
  BY DEF ObjectInv
<1>3. objects[file].pos + Len(bytes) \in Nat
  BY <1>2 DEF Objects
<1>4. /\ objects' \in Seq(Objects) /\ Len(objects') = Len(objects)
      /\ objects'[file].name = objects[file].name
      /\ objects'[file].pos = objects[file].pos + Len(bytes)
  BY <1>1, <1>3, PositionSet
<1>5. ObjectInv'
  BY <1>2, <1>4 DEF ObjectInv
<1>6. /\ bytes = Stretch(objects[file], Len(bytes))
      /\ ~fails => Len(bytes) = Least(n, Ahead)
  BY DEF Read, Ahead
<1>7. QED
  BY <1>4, <1>5, <1>6

LEMMA ObjectNext == TransferInv /\ ObjectInv /\ [Next]_vars => ObjectInv'
<1> SUFFICES ASSUME TransferInv, ObjectInv, [Next]_vars
             PROVE  ObjectInv'
  OBVIOUS
<1> USE DEF ObjectInv
<1>1. CASE \E name \in Names \cup {Missing} : OpenFile(name)
  <2>1. PICK name \in Names \cup {Missing} : OpenFile(name)
    BY <1>1
  <2>2. size' = size
    BY <2>1 DEF OpenFile
  <2>3. CASE name = Missing
    BY <2>1, <2>2, <2>3 DEF OpenFile
  <2>4. CASE name # Missing
    <3>1. /\ objects' = Append(objects, [name |-> name, pos |-> 0])
          /\ file' = Len(objects')
      BY <2>1, <2>4 DEF OpenFile
    <3>2. [name |-> name, pos |-> 0] \in Objects
      BY <2>1, <2>4 DEF Objects
    <3>3. name \in Names
      BY <2>1, <2>4
    <3>4. QED
      BY <2>2, <3>1, <3>2, <3>3
  <2>5. QED
    BY <2>3, <2>4
<1>2. CASE CloseFile
  <2>1. size' = size /\ file' = 0
    BY <1>2 DEF CloseFile
  <2>2. CASE file = 0
    BY <1>2, <2>1, <2>2 DEF CloseFile
  <2>3. CASE file # 0
    <3>1. objects' = [objects EXCEPT ![file].name = "closed"]
      BY <1>2, <2>3 DEF CloseFile
    <3>2. objects' \in Seq(Objects)
      BY <2>3, <3>1, ClosedObject
    <3>3. QED
      BY <2>1, <3>2
  <2>4. QED
    BY <2>2, <2>3
<1>3. CASE OpenDir \/ Other \/ ReadDir
  BY <1>3 DEF OpenDir, Other, ReadDir, disk
<1>4. CASE \E k \in Lengths : FileSeek(k) \/ WriteData(k) \/ LoadReu(k)
  <2>1. PICK k \in Lengths : FileSeek(k) \/ WriteData(k) \/ LoadReu(k)
    BY <1>4
  <2>2. k \in Nat
    BY DosAssumption
  <2>3. CASE FileSeek(k)
    <3>1. UNCHANGED <<file, size>>
      BY <2>3 DEF FileSeek
    <3>2. CASE UNCHANGED objects
      BY <3>1, <3>2
    <3>3. CASE file # 0 /\ objects' = [objects EXCEPT ![file].pos = k]
      BY <2>2, <3>1, <3>3, PositionSet
    <3>4. QED
      BY <2>3, <3>2, <3>3 DEF FileSeek
  <2>4. CASE WriteData(k)
    <3>1. file' = file
      BY <2>4 DEF WriteData
    <3>2. CASE UNCHANGED disk
      BY <3>1, <3>2 DEF disk
    <3>3. CASE file # 0 /\ ~UNCHANGED disk
      <4> DEFINE f == objects[file]
      <4>1. /\ objects' = [objects EXCEPT ![file].pos = @ + k]
            /\ size' = [size EXCEPT ![f.name] = Max({@, f.pos + k})]
        BY <2>4, <3>3 DEF WriteData
      <4>2. f.name \in Names /\ f.pos \in Nat /\ size[f.name] \in Nat
        <5>1. f \in Objects /\ f.name \in Names
          BY <3>3
        <5>2. f.pos \in Nat
          BY <5>1 DEF Objects
        <5>3. QED
          BY <5>1, <5>2
      <4>3. Max({size[f.name], f.pos + k}) \in Nat
        <5>1. f.pos + k \in Int /\ size[f.name] \in Int /\ f.pos + k >= 0
          BY <2>2, <4>2
        <5>2. QED
          BY <5>1, <4>2, MaxOfTwo
      <4>4. size' \in [Names -> Nat]
        <5> DEFINE m == Max({size[f.name], f.pos + k})
        <5>1. size' = [size EXCEPT ![f.name] = m]
          BY <4>1
        <5> HIDE DEF f, m
        <5>2. QED
          BY <5>1, <4>2, <4>3 DEF m
      <4>5. f.pos + k \in Nat
        BY <2>2, <4>2
      <4>6. /\ objects' \in Seq(Objects) /\ Len(objects') = Len(objects)
            /\ objects'[file].name = f.name
        BY <3>3, <4>1, <4>5, PositionSet
      <4>7. QED
        BY <3>1, <3>3, <4>2, <4>4, <4>6
    <3>4. QED
      BY <2>4, <3>2, <3>3 DEF WriteData
  <2>5. CASE LoadReu(k)
    <3>1. UNCHANGED <<file, size>>
      BY <2>5 DEF LoadReu
    <3>2. CASE file = 0
      BY <2>5, <3>1, <3>2 DEF LoadReu
    <3>3. CASE file # 0
      <4>1. PICK i \in 0 .. k, fails \in BOOLEAN : Read(k, Stretch(objects[file], i), fails)
        BY <2>5, <3>3 DEF LoadReu
      <4>2. Len(Stretch(objects[file], i)) \in Nat
        BY <2>2, <4>1, StretchLength
      <4>3. QED
        BY <2>2, <3>1, <3>3, <4>1, <4>2, ReadMoves
    <3>4. QED
      BY <3>2, <3>3
  <2>6. QED
    BY <2>1, <2>3, <2>4, <2>5
<1>5. CASE \E k \in Lengths : ReadData(k)
  <2>1. PICK k \in Lengths : ReadData(k)
    BY <1>5
  <2>2. k \in Nat
    BY DosAssumption
  <2>3. UNCHANGED <<file, size>>
    BY <2>1 DEF ReadData
  <2>4. CASE file = 0
    BY <2>1, <2>3, <2>4 DEF ReadData
  <2>5. CASE file # 0
    <3>1. PICK bytes \in Parts(k), fails \in BOOLEAN : DataPart(k, bytes, fails)
      BY <2>1, <2>5 DEF ReadData
    <3>2. Least(k, Chunk) \in Nat
      BY <2>2, LeastFacts, DosAssumption
    <3>3. Len(bytes) \in Nat /\ Read(Least(k, Chunk), bytes, fails)
      BY <2>2, <3>1, PartLength DEF DataPart
    <3>4. QED
      BY <2>3, <2>5, <3>2, <3>3, ReadMoves
  <2>6. QED
    BY <2>4, <2>5
<1>6. CASE \E d \in Dirs \cup {Missing} : ChangeDir(d) \/ CopyHomePath(d)
  BY <1>6 DEF ChangeDir, CopyHomePath, disk
<1>7. CASE More
  <2>1. UNCHANGED <<file, size>>
    BY <1>7 DEF More
  <2>2. CASE UNCHANGED objects
    BY <2>1, <2>2
  <2>3. CASE dos_state = "in_file" /\ \E bytes \in Parts(remaining), fails \in BOOLEAN :
                                         DataPart(remaining, bytes, fails)
    <3>1. PICK bytes \in Parts(remaining), fails \in BOOLEAN : DataPart(remaining, bytes, fails)
      BY <2>3
    <3>2. remaining \in Nat /\ file # 0
      BY <2>3 DEF TransferInv, NoStrayTransfer
    <3>3. Least(remaining, Chunk) \in Nat
      BY <3>2, LeastFacts, DosAssumption
    <3>4. Len(bytes) \in Nat /\ Read(Least(remaining, Chunk), bytes, fails)
      BY <3>1, <3>2, PartLength DEF DataPart
    <3>5. QED
      BY <2>1, <3>2, <3>3, <3>4, ReadMoves
  <2>4. QED
    BY <1>7, <2>2, <2>3 DEF More
<1>8. CASE Abort
  BY <1>8 DEF Abort, disk
<1>9. CASE UNCHANGED vars
  BY <1>9 DEF vars, dos, disk
<1>10. QED
  BY <1>1, <1>2, <1>3, <1>4, <1>5, <1>6, <1>7, <1>8, <1>9 DEF Next
(* A list that OPEN_DIR filled and nobody filled again is that of the path. *)
ListInv ==
  /\ current_index \in Nat
  /\ fresh => directoryList = Entries(path) /\ dir_entries = Len(directoryList)
  /\ path \in Dirs

(* What the reply of a directory has to be, and how far it has come. *)
ListingInv ==
  open /\ dos_state = "in_directory" =>
    \A w \in claim :
      /\ w = directoryList /\ w \in Seq(Dirs \X Nat)
      /\ dir_entries = Len(w) /\ current_index <= Len(w)
      /\ given = [i \in 1 .. current_index |-> w[i]]

(* What the reply of a file has to be: what was given is the stretch up to *)
(* the position, and what is still to come follows.                        *)
Begun == [name |-> objects[file].name, pos |-> objects[file].pos - Len(given)]

ReadingInv ==
  open /\ dos_state = "in_file" =>
    \A w \in claim :
      /\ Len(given) \in Nat
      /\ given = Stretch(Begun, Len(given))
      /\ w = Stretch(Begun, Len(given) + Least(remaining, Ahead))

ReplyInv ==
  /\ TransferInv /\ ObjectInv /\ ListInv /\ ListingInv /\ ReadingInv
  /\ open => ~last
  /\ ReplyIsWhole
LEMMA LeastOfPart ==
  ASSUME NEW a \in Nat, NEW b \in Nat, NEW c \in Nat, NEW m, m = Least(Least(a, c), b)
  PROVE  /\ m \in Nat /\ a - m \in Nat /\ b - m \in Nat
         /\ Least(a, b) = m + Least(a - m, b - m)
         /\ m # Least(a, c) \/ a = m => Least(a, b) = m
  BY DEF Least

LEMMA AheadIsNat ==
  ASSUME ObjectInv, file # 0
  PROVE  /\ objects[file].pos \in Nat /\ size[objects[file].name] \in Nat
         /\ Ahead \in Nat
         /\ Ahead = Max({size[objects[file].name] - objects[file].pos, 0})
<1>1. objects[file] \in Objects /\ objects[file].name \in Names
  BY DEF ObjectInv
<1>2. objects[file].pos \in Nat /\ size[objects[file].name] \in Nat
  BY <1>1 DEF ObjectInv, Objects
<1>3. Ahead \in Nat
  BY <1>2 DEF Ahead
<1>4. Max({size[objects[file].name] - objects[file].pos, 0}) =
        IF size[objects[file].name] - objects[file].pos > 0
        THEN size[objects[file].name] - objects[file].pos ELSE 0
  BY <1>2, MaxOfTwo
<1>5. QED
  BY <1>2, <1>3, <1>4 DEF Ahead

(* A part that could be read takes the reply one stretch further. *)
LEMMA NextStretch ==
  ASSUME ObjectInv, file # 0, UNCHANGED <<file, size>>,
         NEW left \in Nat, NEW bytes \in Parts(left), DataPart(left, bytes, FALSE),
         NEW k \in Nat, NEW s,
         s = [name |-> objects[file].name, pos |-> objects[file].pos - k],
         given' = Stretch(s, k) \o data'
  PROVE  /\ Len(given') \in Nat
         /\ given' = Stretch(Begun', Len(given'))
         /\ Stretch(s, k + Least(left, Ahead)) =
              Stretch(Begun', Len(given') + Least(remaining', Ahead'))
         /\ last' => given' = Stretch(s, k + Least(left, Ahead))
<1> DEFINE f == objects[file]
           m == Len(bytes)
           rest == Ahead
<1>1. m \in Nat /\ Chunk \in Nat /\ Least(left, Chunk) \in Nat /\ rest \in Nat /\ f.pos \in Nat
  BY PartLength, DosAssumption, LeastFacts, AheadIsNat
<1>2. /\ Read(Least(left, Chunk), bytes, FALSE)
      /\ remaining' = left - m /\ data' = bytes
      /\ last' = (m # Least(left, Chunk) \/ left = m)
  BY DEF DataPart
<1>3. /\ objects'[file].name = f.name /\ objects'[file].pos = f.pos + m
      /\ bytes = Stretch(f, m) /\ m = Least(Least(left, Chunk), rest)
  BY <1>1, <1>2, ReadMoves
<1>4. /\ Least(left, rest) = m + Least(left - m, rest - m)
      /\ last' => Least(left, rest) = m
      /\ left - m \in Nat /\ rest - m \in Nat
  <2> HIDE DEF f, m, rest
  <2>1. /\ left - m \in Nat /\ rest - m \in Nat
        /\ Least(left, rest) = m + Least(left - m, rest - m)
        /\ m # Least(left, Chunk) \/ left = m => Least(left, rest) = m
    BY <1>1, <1>3 DEF Least
  <2>2. last' => m # Least(left, Chunk) \/ left = m
    BY <1>2
  <2>3. QED
    BY <2>1, <2>2
<1>5. given' = Stretch(s, k + m)
  <2>1. s.pos \in Int /\ f.name = s.name /\ f.pos = s.pos + k
    BY <1>1
  <2> HIDE DEF f, m, rest
  <2>2. ASSUME NEW g, g.name = s.name, g.pos = s.pos + k, NEW i \in Nat
        PROVE  Stretch(s, k) \o Stretch(g, i) = Stretch(s, k + i)
    BY <2>1, <2>2, StretchesJoin
  <2>3. Stretch(s, k) \o Stretch(f, m) = Stretch(s, k + m)
    BY <1>1, <2>1, <2>2
  <2>4. given' = Stretch(s, k) \o Stretch(f, m)
    BY <1>2, <1>3
  <2>5. QED
    BY <2>3, <2>4
<1>6. k + m \in Nat
  BY <1>1
<1>7. Len(given') = k + m
  BY <1>5, <1>6, StretchLength
<1>8. Begun' = s
  <2>1. Begun' = [name |-> f.name, pos |-> (f.pos + m) - (k + m)]
    BY <1>3, <1>7 DEF Begun
  <2>2. (f.pos + m) - (k + m) = f.pos - k
    BY <1>1
  <2>3. QED
    BY <2>1, <2>2
<1>9. Ahead' = rest - m
  <2>1. size'[f.name] = size[f.name] /\ size[f.name] \in Nat
    BY AheadIsNat
  <2>2. rest = IF size[f.name] > f.pos THEN size[f.name] - f.pos ELSE 0
    BY DEF Ahead
  <2>3. Ahead' =
          IF size[f.name] > f.pos + m THEN size[f.name] - (f.pos + m) ELSE 0
    BY <1>3, <2>1 DEF Ahead
  <2> HIDE DEF f, m, rest
  <2>4. QED
    BY ONLY <1>1, <1>4, <2>1, <2>2, <2>3, SMTT(30)
<1> HIDE DEF f, m, rest
<1>10. k + Least(left, rest) = (k + m) + Least(left - m, rest - m)
  <2>1. Least(left - m, rest - m) \in Nat
    BY <1>4, LeastFacts
  <2>2. QED
    BY <1>1, <1>4, <2>1
<1>11. last' => k + Least(left, rest) = k + m
  BY <1>4
<1>12. Stretch(s, k + Least(left, Ahead)) = Stretch(s, k + Least(left, rest))
  BY DEF rest
<1>13. QED
  BY <1>2, <1>5, <1>6, <1>7, <1>8, <1>9, <1>10, <1>11, <1>12
(* A part of a directory takes the listing one entry further. *)
LEMMA NextEntry ==
  ASSUME NEW index \in Nat, DirectoryPart(index), UNCHANGED directoryList,
         directoryList \in Seq(Dirs \X Nat), dir_entries = Len(directoryList),
         index <= Len(directoryList),
         NEW g, g = [i \in 1 .. index |-> directoryList[i]], given' = g \o data'
  PROVE  /\ current_index' \in Nat /\ current_index' <= Len(directoryList)
         /\ given' = [i \in 1 .. current_index' |-> directoryList[i]]
         /\ last' => given' = directoryList
<1>1. g \in Seq(Dirs \X Nat) /\ Len(g) = index
  OBVIOUS
<1>2. CASE index >= Len(directoryList)
  <2>1. data' = <<>> /\ current_index' = index /\ index = Len(directoryList)
    BY <1>2 DEF DirectoryPart
  <2>2. given' = g /\ g = directoryList
    BY <1>1, <2>1, SeqEqual
  <2>3. QED
    BY <2>1, <2>2
<1>3. CASE ~(index >= Len(directoryList))
  <2>1. /\ data' = <<directoryList[index + 1]>> /\ current_index' = index + 1
        /\ last' = (index + 1 = dir_entries)
    BY <1>3 DEF DirectoryPart
  <2>2. directoryList[index + 1] \in Dirs \X Nat
    BY <1>3
  <2>3. given' \in Seq(Dirs \X Nat) /\ Len(given') = index + 1
    BY <1>1, <2>1, <2>2
  <2>4. \A i \in 1 .. index + 1 : given'[i] = directoryList[i]
    BY <1>1, <2>1, <2>2
  <2>5. given' = [i \in 1 .. index + 1 |-> directoryList[i]]
    BY <2>3, <2>4
  <2>6. last' => given' = directoryList
    BY <2>1, <2>3, <2>4, SeqEqual
  <2>7. QED
    BY <1>3, <2>1, <2>5, <2>6
<1>4. QED
  BY <1>2, <1>3
LEMMA EntriesAreSeq ==
  ASSUME NEW d \in Dirs
  PROVE  Entries(d) \in Seq(Dirs \X Nat)
  BY DosAssumption DEF Entries

LEMMA ReplyInit == Init => ReplyInv
<1>1. Init => ~open /\ claim = {}
  BY DEF Init
<1>2. Init => current_index = 0 /\ path \in Dirs
  BY DEF Init
<1>3. Init => fresh = FALSE
  BY DEF Init
<1>4. QED
  BY <1>1, <1>2, <1>3, TransferInit, ObjectInit
     DEF ReplyInv, ListInv, ListingInv, ReadingInv, ReplyIsWhole

LEMMA ListNext == TransferInv /\ ListInv /\ [Next]_vars => ListInv'
<1> SUFFICES ASSUME TransferInv, ListInv, [Next]_vars
             PROVE  ListInv'
  OBVIOUS
<1> USE DEF ListInv
<1>1. CASE UnchangedDirectory /\ current_index' \in Nat
  <2>1. UNCHANGED <<dir_entries, directoryList, path, fresh>>
    BY <1>1 DEF UnchangedDirectory
  <2>2. Entries(path)' = Entries(path)
    BY <2>1 DEF Entries
  <2>3. QED
    BY <1>1, <2>1, <2>2
<1>2. ASSUME NEW d \in Dirs \cup {Missing}, ChangeTo(d), UnchangedReading
      PROVE  ListInv'
  BY <1>2 DEF ChangeTo, UnchangedReading
<1>3. CASE \/ \E name \in Names \cup {Missing} : OpenFile(name)
           \/ CloseFile \/ Other
           \/ \E k \in Lengths : FileSeek(k) \/ WriteData(k) \/ LoadReu(k)
  BY <1>1, <1>3 DEF OpenFile, CloseFile, Other, FileSeek, WriteData, LoadReu, UnchangedReading
<1>4. CASE \E k \in Lengths : ReadData(k)
  BY <1>1, <1>4 DEF ReadData
<1>5. CASE OpenDir
  BY <1>5 DEF OpenDir, UnchangedReading, Entries
<1>6. CASE ReadDir
  BY <1>1, <1>6 DEF ReadDir, DirectoryPart
<1>7. CASE \E d \in Dirs \cup {Missing} : ChangeDir(d) \/ CopyHomePath(d)
  BY <1>2, <1>7 DEF ChangeDir, CopyHomePath
<1>8. CASE More
  BY <1>1, <1>8 DEF More, DirectoryPart
<1>9. CASE Abort \/ UNCHANGED vars
  BY <1>1, <1>9 DEF Abort, vars, dos, history, UnchangedDirectory
<1>10. QED
  BY <1>3, <1>4, <1>5, <1>6, <1>7, <1>8, <1>9 DEF Next

(* The conjuncts about the reply, and the steps that claim nothing of it. *)
Reply ==
  ListingInv /\ ReadingInv /\ (open => ~last) /\ ReplyIsWhole

LEMMA NothingClaimed ==
  ASSUME claim' = {}, open' => ~last'
  PROVE  Reply'
  BY DEF Reply, ListingInv, ReadingInv, ReplyIsWhole

LEMMA SameReply ==
  ASSUME Reply, UNCHANGED vars
  PROVE  Reply'
  BY DEF Reply, ListingInv, ReadingInv, ReplyIsWhole, vars, dos, disk, reply, history,
         Begun, Ahead

(* READ_DATA: the reply begins with a stretch of no length. *)
LEMMA ReadDataReply ==
  ASSUME TransferInv, ObjectInv, NEW n \in Lengths, ReadData(n)
  PROVE  Reply'
<1>1. n \in Nat
  BY DosAssumption
<1>2. CASE file = 0
  BY <1>2, NothingClaimed DEF ReadData, Answer
<1>3. CASE file # 0
  <2> DEFINE f == objects[file]
  <2>1. PICK bytes \in Parts(n), fails \in BOOLEAN :
          /\ DataPart(n, bytes, fails)
          /\ open' = ~last' /\ given' = data'
          /\ claim' = IF fails THEN {}
                      ELSE {Stretch(f, Least(n, Max({size[f.name] - f.pos, 0})))}
    BY <1>3 DEF ReadData
  <2>2. CASE fails
    BY <2>1, <2>2, NothingClaimed
  <2>3. CASE ~fails
    <3>1. DataPart(n, bytes, FALSE) /\ UNCHANGED <<file, size>>
      BY <2>1, <2>3 DEF ReadData
    <3> DEFINE s == [name |-> f.name, pos |-> f.pos - 0]
               w == Stretch(f, Least(n, Ahead))
    <3>2. claim' = {w}
      BY <1>3, <2>1, <2>3, AheadIsNat
    <3>3. f.pos \in Nat
      BY <1>3, AheadIsNat
    <3>4. w = Stretch(s, 0 + Least(n, Ahead))
      <4>1. Ahead \in Nat
        BY <1>3, AheadIsNat
      <4>2. Least(n, Ahead) \in Nat
        BY <1>1, <4>1, LeastFacts
      <4>3. QED
        BY <3>3, <4>2 DEF Stretch
    <3>5. given' = Stretch(s, 0) \o data'
      <4>1. data' \in Seq({<<f.name, p>> : p \in Int})
        BY <1>1, <2>1, <3>3, PartIsSeq DEF DataPart
      <4>2. Stretch(s, 0) = <<>>
        BY DEF Stretch
      <4>3. QED
        BY <2>1, <4>1, <4>2, ConcatEmptySeq
    <3> HIDE DEF s, w
    <3>6. /\ Len(given') \in Nat
          /\ given' = Stretch(Begun', Len(given'))
          /\ w = Stretch(Begun', Len(given') + Least(remaining', Ahead'))
          /\ last' => given' = w
      <4>1. s = [name |-> objects[file].name, pos |-> objects[file].pos - 0]
        BY DEF s
      <4>2. QED
        BY <1>1, <1>3, <2>1, <3>1, <3>4, <3>5, <4>1, NextStretch
    <3>7. dos_state' # "in_directory"
      BY <2>1 DEF DataPart
    <3>8. QED
      BY <2>1, <3>2, <3>6, <3>7 DEF Reply, ListingInv, ReadingInv, ReplyIsWhole
  <2>4. QED
    BY <2>2, <2>3
<1>4. QED
  BY <1>2, <1>3
LEMMA ReadDirReply ==
  ASSUME ListInv, ReadDir
  PROVE  Reply'
<1>1. /\ DirectoryPart(0) /\ open' = ~last' /\ given' = data'
      /\ claim' = IF fresh THEN {Entries(path)} ELSE {}
      /\ UNCHANGED <<dir_entries, directoryList>>
  BY DEF ReadDir, UnchangedDirectory
<1>2. CASE ~fresh
  BY <1>1, <1>2, NothingClaimed
<1>3. CASE fresh
  <2>1. /\ directoryList = Entries(path) /\ dir_entries = Len(directoryList)
        /\ directoryList \in Seq(Dirs \X Nat)
    BY <1>3, EntriesAreSeq DEF ListInv
  <2>2. data' \in Seq(Dirs \X Nat)
    <3>1. CASE 0 >= Len(directoryList)
      BY <1>1, <3>1, EmptySeq DEF DirectoryPart
    <3>2. CASE ~(0 >= Len(directoryList))
      <4>1. data' = <<directoryList[1]>> /\ 1 \in 1 .. Len(directoryList)
        BY <1>1, <2>1, <3>2 DEF DirectoryPart
      <4>2. directoryList[1] \in Dirs \X Nat
        BY <2>1, <4>1, ElementOfSeq
      <4>3. QED
        BY <4>1, <4>2
    <3>3. QED
      BY <3>1, <3>2
  <2>3. given' = <<>> \o data'
    BY <1>1, <2>2, ConcatEmptySeq
  <2>4. /\ current_index' \in Nat /\ current_index' <= Len(directoryList)
        /\ given' = [i \in 1 .. current_index' |-> directoryList[i]]
        /\ last' => given' = directoryList
    <3>1. <<>> = [i \in 1 .. 0 |-> directoryList[i]] /\ 0 <= Len(directoryList)
      BY <2>1
    <3>2. QED
      BY <1>1, <2>1, <2>3, <3>1, NextEntry
  <2>5. claim' = {directoryList} /\ directoryList' = directoryList
    BY <1>1, <1>3, <2>1
  <2>6. dos_state' # "in_file"
    BY <1>1 DEF DirectoryPart
  <2>7. QED
    BY <1>1, <2>1, <2>4, <2>5, <2>6 DEF Reply, ListingInv, ReadingInv, ReplyIsWhole
<1>4. QED
  BY <1>2, <1>3

LEMMA MoreReply ==
  ASSUME TransferInv, ObjectInv, ListInv, Reply, More
  PROVE  Reply'
<1>1. open /\ open' = ~last' /\ given' = given \o data'
  BY DEF More
<1>2. CASE dos_state = "in_file"
  <2>1. PICK bytes \in Parts(remaining), fails \in BOOLEAN :
          /\ DataPart(remaining, bytes, fails)
          /\ claim' = IF fails THEN {} ELSE claim
    BY <1>2 DEF More
  <2>2. CASE fails
    BY <1>1, <2>1, <2>2, NothingClaimed
  <2>3. CASE ~fails
    <3>1. /\ DataPart(remaining, bytes, FALSE) /\ UNCHANGED <<file, size>>
          /\ remaining \in Nat /\ file # 0 /\ claim' = claim
      BY <1>2, <2>1, <2>3 DEF More, TransferInv, NoStrayTransfer
    <3>2. ASSUME NEW w \in claim
          PROVE  /\ Len(given') \in Nat
                 /\ given' = Stretch(Begun', Len(given'))
                 /\ w = Stretch(Begun', Len(given') + Least(remaining', Ahead'))
                 /\ last' => given' = w
      <4>1. /\ Len(given) \in Nat /\ given = Stretch(Begun, Len(given))
            /\ w = Stretch(Begun, Len(given) + Least(remaining, Ahead))
        BY <1>1, <1>2, <3>2 DEF Reply, ReadingInv
      <4>2. given' = Stretch(Begun, Len(given)) \o data'
        BY <1>1, <4>1
      <4>3. Begun = [name |-> objects[file].name, pos |-> objects[file].pos - Len(given)]
        BY DEF Begun
      <4>4. PICK k \in Nat, s \in {Begun} :
               /\ k = Len(given) /\ s = Begun
               /\ s = [name |-> objects[file].name, pos |-> objects[file].pos - k]
        BY <4>1, <4>3
      <4>5. PICK left \in Nat : left = remaining
        BY <3>1
      <4>6. DataPart(left, bytes, FALSE)
        BY <3>1, <4>5 DEF DataPart
      <4>7. bytes \in Parts(left)
        BY <2>1, <4>5
      <4>8. /\ given' = Stretch(s, k) \o data'
            /\ w = Stretch(s, k + Least(left, Ahead))
        BY <4>1, <4>2, <4>4, <4>5
      <4>9. file # 0 /\ UNCHANGED <<file, size>>
        BY <3>1
      <4>10. s = [name |-> objects[file].name, pos |-> objects[file].pos - k]
        BY <4>4
      <4>11. QED
        BY ONLY ObjectInv, left \in Nat, bytes \in Parts(left), k \in Nat,
                <4>6, <4>7, <4>8, <4>9, <4>10, NextStretch
    <3>3. dos_state' # "in_directory"
      BY <2>1 DEF DataPart
    <3>4. QED
      BY <1>1, <3>1, <3>2, <3>3 DEF Reply, ListingInv, ReadingInv, ReplyIsWhole
  <2>4. QED
    BY <2>2, <2>3
<1>3. CASE dos_state = "in_directory"
  <2>1. /\ DirectoryPart(current_index)
        /\ UNCHANGED <<directoryList, dir_entries, claim>>
    BY <1>3 DEF More, UnchangedDirectory
  <2>2. ASSUME NEW w \in claim
        PROVE  /\ w = directoryList /\ w \in Seq(Dirs \X Nat) /\ dir_entries = Len(w)
               /\ current_index' \in Nat /\ current_index' <= Len(w)
               /\ given' = [i \in 1 .. current_index' |-> w[i]]
               /\ last' => given' = w
    <3>1. /\ w = directoryList /\ directoryList \in Seq(Dirs \X Nat)
          /\ dir_entries = Len(directoryList) /\ current_index <= Len(directoryList)
          /\ given = [i \in 1 .. current_index |-> directoryList[i]]
      BY <1>1, <1>3, <2>2 DEF Reply, ListingInv
    <3>2. current_index \in Nat
      BY DEF ListInv
    <3>3. QED
      BY <1>1, <2>1, <3>1, <3>2, NextEntry
  <2>3. dos_state' # "in_file"
    BY <2>1 DEF DirectoryPart
  <2>4. QED
    BY <1>1, <2>1, <2>2, <2>3 DEF Reply, ListingInv, ReadingInv, ReplyIsWhole
<1>4. QED
  BY <1>2, <1>3 DEF More

LEMMA ReplyNext == ReplyInv /\ [Next]_vars => ReplyInv'
<1> SUFFICES ASSUME ReplyInv, [Next]_vars
             PROVE  ReplyInv'
  OBVIOUS
<1>1. TransferInv /\ ObjectInv /\ ListInv /\ Reply
  BY DEF ReplyInv, Reply
<1>2. TransferInv' /\ ObjectInv' /\ ListInv'
  BY <1>1, TransferNext, ObjectNext, ListNext
<1>3. Reply'
  <2>1. ASSUME NEW code, Answer(code)
        PROVE  Reply'
    BY <2>1, NothingClaimed DEF Answer
  <2>2. CASE \/ \E name \in Names \cup {Missing} : OpenFile(name)
             \/ CloseFile \/ OpenDir \/ Other
             \/ \E k \in Lengths : FileSeek(k) \/ WriteData(k) \/ LoadReu(k)
             \/ \E d \in Dirs \cup {Missing} : ChangeDir(d)
    BY <2>1, <2>2 DEF OpenFile, CloseFile, OpenDir, Other, FileSeek, WriteData, LoadReu, ChangeDir
  <2>3. CASE \E d \in Dirs \cup {Missing} : CopyHomePath(d)
    BY <2>3, NothingClaimed DEF CopyHomePath
  <2>4. CASE \E k \in Lengths : ReadData(k)
    BY <1>1, <2>4, ReadDataReply
  <2>5. CASE ReadDir
    BY <1>1, <2>5, ReadDirReply
  <2>6. CASE More
    BY <1>1, <2>6, MoreReply
  <2>7. CASE Abort
    <3>1. open /\ open' = FALSE /\ last' = last
      BY <2>7 DEF Abort, reply
    <3>2. QED
      BY <1>1, <3>1 DEF Reply, ListingInv, ReadingInv, ReplyIsWhole
  <2>8. CASE UNCHANGED vars
    BY <1>1, <2>8, SameReply
  <2>9. QED
    BY <2>2, <2>3, <2>4, <2>5, <2>6, <2>7, <2>8 DEF Next
<1>4. QED
  BY <1>2, <1>3 DEF ReplyInv, Reply

(* The parts of a reply put together are what was asked for, for files,    *)
(* directories, buffers and lengths of any size.                           *)
THEOREM RepliesAreWhole == Spec => []ReplyIsWhole
<1>1. ReplyInv => ReplyIsWhole
  BY DEF ReplyInv
<1>2. QED
  BY <1>1, ReplyInit, ReplyNext, PTL DEF Spec
(****************************************************************************)
(* Types                                                                    *)
(****************************************************************************)
PartInv ==
  /\ directoryList \in Seq(Dirs \X Nat) /\ dir_entries \in Nat
  /\ open /\ dos_state = "in_directory" => current_index <= Len(directoryList)
  /\ Len(data) <= Chunk /\ last \in BOOLEAN

LEMMA PartInit == Init => PartInv
<1> SUFFICES ASSUME Init PROVE PartInv
  OBVIOUS
<1>1. directoryList = <<>> /\ dir_entries = 0 /\ ~open /\ data = <<>> /\ last = TRUE
  BY DEF Init
<1>2. directoryList \in Seq(Dirs \X Nat) /\ Len(data) = 0
  BY <1>1, EmptySeq
<1>3. QED
  BY <1>1, <1>2, DosAssumption DEF PartInv

LEMMA DirectoryPartInv ==
  ASSUME PartInv, NEW index \in Nat, index <= Len(directoryList), DirectoryPart(index),
         UNCHANGED <<directoryList, dir_entries>>
  PROVE  PartInv'
<1>1. CASE index >= Len(directoryList)
  BY <1>1, DosAssumption DEF DirectoryPart, PartInv
<1>2. CASE ~(index >= Len(directoryList))
  <2>1. Len(data') = 1 /\ last' \in BOOLEAN /\ current_index' = index + 1
    BY <1>2 DEF DirectoryPart
  <2>2. QED
    BY <1>2, <2>1, DosAssumption DEF PartInv
<1>3. QED
  BY <1>1, <1>2

LEMMA PartNext == TransferInv /\ ListInv /\ PartInv /\ [Next]_vars => PartInv'
<1> SUFFICES ASSUME TransferInv, ListInv, PartInv, [Next]_vars
             PROVE  PartInv'
  OBVIOUS
<1>1. ASSUME NEW code, Answer(code), directoryList' \in Seq(Dirs \X Nat), dir_entries' \in Nat
      PROVE  PartInv'
  <2>1. data' = <<>> /\ last' = TRUE /\ open' = FALSE
    BY <1>1 DEF Answer
  <2>2. Len(data') <= Chunk
    BY <2>1, DosAssumption
  <2>3. QED
    BY <1>1, <2>1, <2>2 DEF PartInv
<1>2. ASSUME NEW left \in Nat, NEW bytes \in Parts(left), NEW fails,
             DataPart(left, bytes, fails), UNCHANGED <<directoryList, dir_entries>>
      PROVE  PartInv'
  <2>1. dos_state' # "in_directory" /\ last' \in BOOLEAN /\ Len(data') <= Chunk
    BY <1>2, PartRemains DEF DataPart
  <2>2. QED
    BY <1>2, <2>1 DEF PartInv
<1>3. ASSUME NEW d \in Dirs \cup {Missing}, ChangeTo(d)
      PROVE  directoryList' \in Seq(Dirs \X Nat)
  BY <1>3, EntriesAreSeq, EmptySeq DEF ChangeTo
<1>4. CASE \/ \E name \in Names \cup {Missing} : OpenFile(name)
           \/ CloseFile \/ Other
           \/ \E k \in Lengths : FileSeek(k) \/ WriteData(k) \/ LoadReu(k)
  BY <1>1, <1>4 DEF OpenFile, CloseFile, Other, FileSeek, WriteData, LoadReu, UnchangedDirectory, PartInv
<1>5. CASE \E k \in Lengths : ReadData(k)
  <2>1. PICK k \in Lengths : ReadData(k)
    BY <1>5
  <2>2. k \in Nat /\ UNCHANGED <<directoryList, dir_entries>>
    BY <2>1, DosAssumption DEF ReadData, UnchangedDirectory
  <2>3. CASE file = 0
    BY <1>1, <2>1, <2>2, <2>3 DEF ReadData, PartInv
  <2>4. CASE file # 0
    BY <1>2, <2>1, <2>2, <2>4 DEF ReadData
  <2>5. QED
    BY <2>3, <2>4
<1>6. CASE OpenDir
  <2>1. /\ path \in Dirs
        /\ \/ directoryList' = Entries(path) /\ dir_entries' = Len(directoryList')
           \/ directoryList' = <<>> /\ dir_entries' = dir_entries
    BY <1>6 DEF OpenDir, ListInv
  <2>2. directoryList' \in Seq(Dirs \X Nat) /\ dir_entries' \in Nat
    <3>1. <<>> \in Seq(Dirs \X Nat) /\ dir_entries \in Nat
      BY DEF PartInv
    <3>2. Entries(path) \in Seq(Dirs \X Nat) /\ Len(Entries(path)) \in Nat
      BY <2>1, EntriesAreSeq
    <3>3. QED
      BY <2>1, <3>1, <3>2
  <2>3. QED
    BY <1>1, <1>6, <2>2 DEF OpenDir
<1>7. CASE ReadDir
  <2>1. DirectoryPart(0) /\ UNCHANGED <<directoryList, dir_entries>>
    BY <1>7 DEF ReadDir, UnchangedDirectory
  <2>2. 0 <= Len(directoryList)
    BY DEF PartInv
  <2>3. QED
    BY <2>1, <2>2, DirectoryPartInv
<1>8. CASE \E d \in Dirs \cup {Missing} : ChangeDir(d)
  BY <1>1, <1>3, <1>8 DEF ChangeDir, PartInv
<1>9. CASE \E d \in Dirs \cup {Missing} : CopyHomePath(d)
  <2>1. PICK d \in Dirs \cup {Missing} : CopyHomePath(d)
    BY <1>9
  <2>2. /\ Len(data') = 1 /\ last' = TRUE /\ open' = FALSE /\ dir_entries' = dir_entries
        /\ directoryList' \in Seq(Dirs \X Nat)
    BY <1>3, <2>1 DEF CopyHomePath
  <2>3. QED
    BY <2>2, DosAssumption DEF PartInv
<1>10. CASE More
  <2>1. UNCHANGED <<directoryList, dir_entries>> /\ open
    BY <1>10 DEF More, UnchangedDirectory
  <2>2. CASE dos_state = "in_file"
    BY <1>2, <1>10, <2>1, <2>2 DEF More, TransferInv
  <2>3. CASE dos_state = "in_directory"
    <3>1. DirectoryPart(current_index)
      BY <1>10, <2>3 DEF More
    <3>2. current_index \in Nat /\ current_index <= Len(directoryList)
      BY <2>1, <2>3 DEF ListInv, PartInv
    <3>3. QED
      BY <2>1, <3>1, <3>2, DirectoryPartInv
  <2>4. QED
    BY <1>10, <2>2, <2>3 DEF More
<1>11. CASE Abort
  BY <1>11 DEF Abort, PartInv, reply
<1>12. CASE UNCHANGED vars
  BY <1>12 DEF vars, dos, reply, history, PartInv
<1>13. QED
  BY <1>4, <1>5, <1>6, <1>7, <1>8, <1>9, <1>10, <1>11, <1>12 DEF Next

(* The variables stay in their types; with it the index of READ_DIR within *)
(* the list, the file pointer at a File object, and no part longer than    *)
(* the buffer it is put in.                                                *)
THEOREM TypeCorrect == Spec => []TypeOK
<1>1. TransferInv /\ ObjectInv /\ ListInv /\ PartInv => TypeOK
  <2> SUFFICES ASSUME TransferInv, ObjectInv, ListInv, PartInv
               PROVE  TypeOK
    OBVIOUS
  <2>1. objects \in Seq(Objects) /\ DOMAIN objects = 1 .. Len(objects)
    BY DEF ObjectInv
  <2>2. \A i \in DOMAIN objects : objects[i].name \in Names \cup {"closed"}
    <3>1. \A i \in DOMAIN objects : objects[i] \in Objects
      BY <2>1
    <3>2. QED
      BY <3>1 DEF Objects
  <2>3. file = 0 \/ (file \in DOMAIN objects /\ objects[file].name \in Names)
    BY <2>1 DEF ObjectInv
  <2>4. QED
    BY <2>2, <2>3 DEF TransferInv, ListInv, PartInv, TypeOK
<1>2. QED
  BY <1>1, ReplyInit, ReplyNext, PartInit, PartNext, PTL DEF Spec, ReplyInv

(****************************************************************************)
(* File objects that are lost                                               *)
(****************************************************************************)
LostInv == LostByReopening /\ reopened \in Nat

LEMMA OpenObjectsFinite ==
  ASSUME ObjectInv
  PROVE  IsFiniteSet(OpenObjects) /\ Cardinality(OpenObjects) \in Nat
<1>1. objects \in Seq(Objects)
  BY DEF ObjectInv
<1>2. OpenObjects \in SUBSET (1 .. Len(objects)) /\ Len(objects) \in Nat
  BY <1>1 DEF OpenObjects
<1>3. IsFiniteSet(1 .. Len(objects))
  BY <1>2, FS_Interval
<1>4. IsFiniteSet(OpenObjects)
  BY <1>2, <1>3, FS_Subset
<1>5. QED
  BY <1>4, FS_CardinalityType

LEMMA LostInit == Init => LostInv
<1> SUFFICES ASSUME Init
             PROVE  LostInv
  OBVIOUS
<1>1. objects = <<>> /\ reopened = 0 /\ file = 0
  BY DEF Init
<1>2. OpenObjects = {}
  BY <1>1 DEF OpenObjects
<1>3. Cardinality(OpenObjects) = 0
  BY <1>2, FS_EmptySet
<1>4. QED
  BY <1>1, <1>3 DEF LostInv, LostByReopening

(* While no object is made, closed or forgotten, nothing is lost. *)
LEMMA NothingLost ==
  ASSUME LostInv, UNCHANGED <<reopened, file>>, OpenObjects' = OpenObjects
  PROVE  LostInv'
  BY DEF LostInv, LostByReopening

LEMMA SamePlaces ==
  ASSUME ObjectInv, NEW p, \/ UNCHANGED objects
                           \/ objects' = [objects EXCEPT ![file].pos = p]
  PROVE  OpenObjects' = OpenObjects
<1>1. CASE UNCHANGED objects
  BY <1>1 DEF OpenObjects
<1>2. CASE objects' = [objects EXCEPT ![file].pos = p]
  <2>1. objects \in Seq(Objects)
    BY DEF ObjectInv
  <2>2. DOMAIN objects' = DOMAIN objects
    BY <1>2, <2>1
  <2>3. ASSUME NEW i \in DOMAIN objects
        PROVE  objects'[i].name = objects[i].name
    <3>1. objects[i] \in Objects
      BY <2>1
    <3>2. objects'[i] = IF i = file THEN [objects[i] EXCEPT !.pos = p] ELSE objects[i]
      BY <1>2, <2>1
    <3>3. [objects[i] EXCEPT !.pos = p].name = objects[i].name
      BY <3>1 DEF Objects
    <3>4. QED
      BY <3>2, <3>3
  <2>4. QED
    BY <2>2, <2>3 DEF OpenObjects
<1>3. QED
  BY <1>1, <1>2

LEMMA LostNext == ObjectInv /\ LostInv /\ [Next]_vars => LostInv'
<1> SUFFICES ASSUME ObjectInv, LostInv, [Next]_vars
             PROVE  LostInv'
  OBVIOUS
<1>1. ASSUME UNCHANGED <<reopened, file, objects>>
      PROVE  LostInv'
  BY <1>1, NothingLost DEF OpenObjects
<1>2. ASSUME NEW n, NEW bytes, NEW fails, Read(n, bytes, fails), UNCHANGED <<reopened, file>>
      PROVE  LostInv'
  <2>1. objects' = [objects EXCEPT ![file].pos = objects[file].pos + Len(bytes)]
    <3>1. objects' = [objects EXCEPT ![file].pos = @ + Len(bytes)]
      BY <1>2 DEF Read
    <3>2. QED
      BY <3>1
  <2>2. OpenObjects' = OpenObjects
    BY <2>1, SamePlaces
  <2>3. QED
    BY <1>2, <2>2, NothingLost
<1>3. CASE \E name \in Names \cup {Missing} : OpenFile(name)
  <2>1. PICK name \in Names \cup {Missing} : OpenFile(name)
    BY <1>3
  <2>2. CASE name = Missing
    BY <1>1, <2>1, <2>2 DEF OpenFile
  <2>3. CASE name # Missing
    <3>1. /\ objects' = Append(objects, [name |-> name, pos |-> 0])
          /\ file' = Len(objects')
          /\ reopened' = IF file # 0 THEN reopened + 1 ELSE reopened
      BY <2>1, <2>3 DEF OpenFile
    <3>2. name # "closed"
      BY <2>3, DosAssumption
    <3>3. objects \in Seq(Objects) /\ Len(objects) \in Nat
      BY DEF ObjectInv
    <3>4. /\ file' = Len(objects) + 1
          /\ DOMAIN objects' = 1 .. Len(objects) + 1
          /\ \A i \in 1 .. Len(objects) : objects'[i] = objects[i]
          /\ objects'[Len(objects) + 1] = [name |-> name, pos |-> 0]
      BY <3>1, <3>3
    <3>5. /\ OpenObjects' = OpenObjects \cup {Len(objects) + 1}
          /\ Len(objects) + 1 \notin OpenObjects
      BY <3>2, <3>3, <3>4 DEF OpenObjects
    <3>6. Cardinality(OpenObjects') = Cardinality(OpenObjects) + 1
      BY <3>5, OpenObjectsFinite, FS_AddElement
    <3>7. file' # 0
      BY <3>3, <3>4
    <3>8. QED
      BY <3>1, <3>6, <3>7 DEF LostInv, LostByReopening
  <2>4. QED
    BY <2>2, <2>3
<1>4. CASE CloseFile
  <2>1. reopened' = reopened /\ file' = 0
    BY <1>4 DEF CloseFile
  <2>2. CASE file = 0
    BY <1>1, <1>4, <2>1, <2>2 DEF CloseFile
  <2>3. CASE file # 0
    <3>1. objects' = [objects EXCEPT ![file].name = "closed"]
      BY <1>4, <2>3 DEF CloseFile
    <3>2. /\ objects \in Seq(Objects) /\ file \in DOMAIN objects
          /\ objects[file].name \in Names /\ objects[file] \in Objects
      BY <2>3 DEF ObjectInv
    <3>3. /\ DOMAIN objects' = DOMAIN objects
          /\ \A i \in DOMAIN objects : i # file => objects'[i] = objects[i]
          /\ objects'[file] = [objects[file] EXCEPT !.name = "closed"]
      BY <3>1, <3>2
    <3>4. objects'[file].name = "closed"
      BY <3>2, <3>3 DEF Objects
    <3>5. file \in OpenObjects
      BY <3>2, DosAssumption DEF OpenObjects
    <3>6. OpenObjects' = OpenObjects \ {file}
      BY <3>2, <3>3, <3>4 DEF OpenObjects
    <3>7. Cardinality(OpenObjects') = Cardinality(OpenObjects) - 1
      BY <3>5, <3>6, OpenObjectsFinite, FS_RemoveElement
    <3>8. QED
      BY <2>1, <2>3, <3>7 DEF LostInv, LostByReopening
  <2>4. QED
    BY <2>2, <2>3
<1>5. CASE OpenDir \/ ReadDir \/ Other
  BY <1>1, <1>5 DEF OpenDir, ReadDir, Other, disk
<1>6. CASE \E k \in Lengths : FileSeek(k) \/ WriteData(k)
  <2>1. PICK k \in Lengths : FileSeek(k) \/ WriteData(k)
    BY <1>6
  <2>2. UNCHANGED <<reopened, file>>
    BY <2>1 DEF FileSeek, WriteData
  <2>3. \/ UNCHANGED objects
        \/ objects' = [objects EXCEPT ![file].pos = k]
        \/ objects' = [objects EXCEPT ![file].pos = objects[file].pos + k]
    BY <2>1 DEF FileSeek, WriteData, disk
  <2>4. OpenObjects' = OpenObjects
    BY <2>3, SamePlaces
  <2>5. QED
    BY <2>2, <2>4, NothingLost
<1>7. CASE \E k \in Lengths : LoadReu(k)
  <2>1. PICK k \in Lengths : LoadReu(k)
    BY <1>7
  <2>2. QED
    BY <1>1, <1>2, <2>1 DEF LoadReu
<1>8. CASE \E k \in Lengths : ReadData(k)
  <2>1. PICK k \in Lengths : ReadData(k)
    BY <1>8
  <2>2. QED
    BY <1>1, <1>2, <2>1 DEF ReadData, DataPart
<1>9. CASE \E d \in Dirs \cup {Missing} : ChangeDir(d) \/ CopyHomePath(d)
  BY <1>1, <1>9 DEF ChangeDir, CopyHomePath, disk
<1>10. CASE More
  BY <1>1, <1>2, <1>10 DEF More, DataPart
<1>11. CASE Abort
  BY <1>1, <1>11 DEF Abort, disk, dos
<1>12. CASE UNCHANGED vars
  BY <1>1, <1>12 DEF vars, disk, dos, history
<1>13. QED
  BY <1>3, <1>4, <1>5, <1>6, <1>7, <1>8, <1>9, <1>10, <1>11, <1>12 DEF Next

(* File objects get lost by an OPEN_FILE while a file is open, and in no    *)
(* other way, however many commands there are.                              *)
THEOREM LostOnlyByReopening == Spec => []LostByReopening
<1>1. LostInv => LostByReopening
  BY DEF LostInv
<1>2. QED
  BY <1>1, TransferInit, TransferNext, ObjectInit, ObjectNext, LostInit, LostNext, PTL DEF Spec
=============================================================================
