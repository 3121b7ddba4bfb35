------------------------- MODULE PacketBuffersProofs --------------------------
(****************************************************************************)
(* Proofs about the receive path for every number of buffers and every size *)
(* of the ring and of the queue that BufferAssumption admits.               *)
(****************************************************************************)
EXTENDS PacketBuffers, FiniteSetTheorems, SequenceTheorems, TLAPS

(****************************************************************************)
(* The inductive invariant                                                  *)
(****************************************************************************)
Holds == address_valid \/ filter = "pushing"

(* How far it is from one slot to another, going round. *)
Off(from, s) == IF from <= s THEN s - from ELSE s - from + Size

(* Going round from alloc_tail one meets the packets, the slot of the       *)
(* buffer that the filter holds, if it holds one, the free buffers and the  *)
(* unused slots.                                                            *)
RingInv ==
  /\ free_tail = IF Holds THEN After(alloc_head) ELSE alloc_head
  /\ Off(alloc_tail, alloc_head) <= Off(alloc_tail, free_tail)
  /\ Off(alloc_tail, free_tail) <= Off(alloc_tail, free_head)

StateInv ==
  /\ filter = "copy" => address_valid
  /\ filter \in {"get_block", "pushing"} => ~address_valid
  /\ pkt = None <=> pc \in {"start", "loop"}
  /\ pc # "start" => n = Buffers

OneKind == \A b \in Ids : \E k \in Kinds : In(k, b) /\ \A l \in Kinds : In(l, b) => l = k

DistinctInv ==
  /\ Distinct(FreeSlots) /\ Distinct(UsedSlots)
  /\ \A i, j \in DOMAIN queue : queue[i] = queue[j] => i = j

Inv == TypeOK /\ RingInv /\ StateInv /\ OneKind /\ DistinctInv

(****************************************************************************)
(* The ring                                                                 *)
(****************************************************************************)
LEMMA SizeFacts == Size \in Nat /\ Size >= 2 /\ Buffers \in Nat /\ Buffers >= 1 /\ Buffers < Size
  BY BufferAssumption

LEMMA OffFacts ==
  ASSUME NEW a \in Slots, NEW s \in Slots, NEW t \in Slots
  PROVE  /\ Off(a, s) \in 0 .. Size - 1
         /\ Off(a, s) = Off(a, t) => s = t
         /\ After(s) \in Slots
         /\ Off(a, s) < Size - 1 => Off(a, After(s)) = Off(a, s) + 1
         /\ Off(a, s) = Size - 1 => Off(a, After(s)) = 0
         /\ Off(a, s) = 0 <=> s = a
  BY SizeFacts DEF Off, After, Slots

(* Two regions that follow each other have no slot in common. *)
LEMMA Regions ==
  ASSUME NEW a \in Slots, NEW h \in Slots, NEW t \in Slots, NEW f \in Slots,
         Off(a, h) <= Off(a, t), Off(a, t) <= Off(a, f), NEW s \in Slots
  PROVE  /\ s \in Between(a, h) <=> Off(a, s) < Off(a, h)
         /\ s \in Between(t, f) <=> Off(a, t) <= Off(a, s) /\ Off(a, s) < Off(a, f)
  BY SizeFacts DEF Off, Between, Slots

LEMMA RegionGrows ==
  ASSUME NEW from \in Slots, NEW to \in Slots, After(to) # from
  PROVE  Between(from, After(to)) = Between(from, to) \cup {to} /\ to \notin Between(from, to)
  BY SizeFacts DEF After, Between, Slots

LEMMA RegionShrinks ==
  ASSUME NEW from \in Slots, NEW to \in Slots, from # to
  PROVE  Between(After(from), to) = Between(from, to) \ {from} /\ from \in Between(from, to)
  BY SizeFacts DEF After, Between, Slots

(****************************************************************************)
(* The kinds of places                                                      *)
(****************************************************************************)
LEMMA KindDef ==
  ASSUME NEW b
  PROVE  /\ In("driver", b) <=> pc = "start" /\ b >= n
         /\ In("put", b) <=> sw_insert /\ sw_id = b
         /\ In("free", b) <=> \E s \in FreeSlots : table[s] = b
         /\ In("filter", b) <=> Holds /\ block_id = b
         /\ In("used", b) <=> \E s \in UsedSlots : table[s] = b
         /\ In("popped", b) <=> alloc_valid /\ sw_pop_id = b
         /\ In("queue", b) <=> \E i \in DOMAIN queue : queue[i] = b
         /\ In("task", b) <=> pkt = b
         /\ In("stack", b) <=> b \in stack
  BY DEF In, Holds

LEMMA KindDefNext ==
  ASSUME NEW b
  PROVE  /\ In("driver", b)' <=> pc' = "start" /\ b >= n'
         /\ In("put", b)' <=> sw_insert' /\ sw_id' = b
         /\ In("free", b)' <=> \E s \in FreeSlots' : table'[s] = b
         /\ In("filter", b)' <=> Holds' /\ block_id' = b
         /\ In("used", b)' <=> \E s \in UsedSlots' : table'[s] = b
         /\ In("popped", b)' <=> alloc_valid' /\ sw_pop_id' = b
         /\ In("queue", b)' <=> \E i \in DOMAIN queue' : queue'[i] = b
         /\ In("task", b)' <=> pkt' = b
         /\ In("stack", b)' <=> b \in stack'
  BY DEF In, Holds

(* The same buffers are of kind k after a step. *)
Same(k) == \A b \in Ids : In(k, b)' <=> In(k, b)

LEMMA SameKinds ==
  /\ UNCHANGED <<pc, n>> \/ (pc # "start" /\ pc' # "start") => Same("driver")
  /\ UNCHANGED <<sw_insert, sw_id>> => Same("put")
  /\ UNCHANGED <<table, free_tail, free_head>> => Same("free")
  /\ UNCHANGED <<Holds, block_id>> => Same("filter")
  /\ UNCHANGED <<table, alloc_tail, alloc_head>> => Same("used")
  /\ UNCHANGED <<alloc_valid, sw_pop_id>> => Same("popped")
  /\ UNCHANGED queue => Same("queue")
  /\ UNCHANGED pkt => Same("task")
  /\ UNCHANGED stack => Same("stack")
<1>1. UNCHANGED <<pc, n>> \/ (pc # "start" /\ pc' # "start") => Same("driver")
  BY KindDef, KindDefNext DEF Same
<1>2. UNCHANGED <<sw_insert, sw_id>> => Same("put")
  BY KindDef, KindDefNext DEF Same
<1>3. UNCHANGED <<table, free_tail, free_head>> => Same("free")
  BY KindDef, KindDefNext DEF Same, FreeSlots
<1>4. UNCHANGED <<Holds, block_id>> => Same("filter")
  BY KindDef, KindDefNext DEF Same
<1>5. UNCHANGED <<table, alloc_tail, alloc_head>> => Same("used")
  BY KindDef, KindDefNext DEF Same, UsedSlots
<1>6. UNCHANGED <<alloc_valid, sw_pop_id>> => Same("popped")
  BY KindDef, KindDefNext DEF Same
<1>7. UNCHANGED queue => Same("queue")
  BY KindDef, KindDefNext DEF Same
<1>8. UNCHANGED pkt => Same("task")
  BY KindDef, KindDefNext DEF Same
<1>9. UNCHANGED stack => Same("stack")
  BY KindDef, KindDefNext DEF Same
<1>10. QED
  BY <1>1, <1>2, <1>3, <1>4, <1>5, <1>6, <1>7, <1>8, <1>9

(* A step that moves one buffer from one kind to another. *)
Moves(c, from, to) ==
  /\ In(from, c) /\ In(to, c)' /\ ~In(from, c)'
  /\ \A b \in Ids \ {c} : (In(from, b)' <=> In(from, b)) /\ (In(to, b)' <=> In(to, b))

Moved(c, from, to) == Moves(c, from, to) /\ \A k \in Kinds \ {from, to} : Same(k)
(* A step that moves no buffer. *)
Stays == \A k \in Kinds : Same(k)

LEMMA NoneMoves ==
  ASSUME OneKind, Stays
  PROVE  OneKind'
  BY DEF OneKind, Stays, Same

LEMMA OneMoves ==
  ASSUME OneKind, NEW c \in Ids, NEW from \in Kinds, NEW to \in Kinds, from # to,
         Moved(c, from, to)
  PROVE  OneKind'
<1> USE DEF Moved
<1>1. ASSUME NEW b \in Ids, b # c
      PROVE  \A k \in Kinds : In(k, b)' <=> In(k, b)
  BY <1>1 DEF Moves, Same
<1>2. \A l \in Kinds : In(l, c)' => l = to
  BY DEF Moves, Same, OneKind
<1>3. ASSUME NEW b \in Ids
      PROVE  \E k \in Kinds : In(k, b)' /\ \A l \in Kinds : In(l, b)' => l = k
  <2>1. CASE b = c
    BY <1>2, <2>1 DEF Moves
  <2>2. CASE b # c
    BY <1>1, <2>2 DEF OneKind
  <2>3. QED
    BY <2>1, <2>2
<1>4. QED
  BY <1>3 DEF OneKind
(****************************************************************************)
(* There is room: fewer buffers than slots                                  *)
(****************************************************************************)
LEMMA IdsFinite ==
  /\ IsFiniteSet(Ids) /\ Cardinality(Ids) = Buffers
  /\ \A c \in Ids : IsFiniteSet(Ids \ {c}) /\ Cardinality(Ids \ {c}) = Buffers - 1
<1>1. IsFiniteSet(Ids) /\ Cardinality(Ids) = Buffers
  BY SizeFacts, FS_Interval DEF Ids
<1>2. QED
  BY <1>1, FS_RemoveElement

(* While the CPU's buffer waits to be put in, the ring is not full. *)
LEMMA RingHasRoom ==
  ASSUME Inv, sw_insert
  PROVE  Off(alloc_tail, free_head) < Size - 1
<1> DEFINE a == alloc_tail
           h == alloc_head
           t == free_tail
           f == free_head
<1>1. a \in Slots /\ h \in Slots /\ t \in Slots /\ f \in Slots /\ table \in [Slots -> Ids]
  BY DEF Inv, TypeOK
<1>2. Off(a, h) <= Off(a, t) /\ Off(a, t) <= Off(a, f)
  BY DEF Inv, RingInv
<1> SUFFICES ASSUME ~(Off(a, f) < Size - 1)
             PROVE  FALSE
  OBVIOUS
<1>3. Off(a, f) = Size - 1
  BY <1>1, OffFacts, SizeFacts
<1> DEFINE D == Slots \ {f}
           T == Ids \ {sw_id}
           g == [s \in D |-> IF s \in UsedSlots \cup FreeSlots THEN table[s] ELSE block_id]
<1>4. sw_id \in Ids /\ In("put", sw_id)
  BY KindDef DEF Inv, TypeOK
<1>5. ASSUME NEW s \in D
      PROVE  s \in UsedSlots \/ s \in FreeSlots \/ (Holds /\ s = h)
  <2>1. Off(a, s) < Off(a, f)
    BY <1>1, <1>3, <1>5, OffFacts, SizeFacts
  <2>2. CASE Off(a, s) < Off(a, h)
    BY <1>1, <1>2, <2>2, Regions DEF UsedSlots
  <2>3. CASE Off(a, t) <= Off(a, s)
    BY <1>1, <1>2, <2>1, <2>3, Regions DEF FreeSlots
  <2>4. CASE Off(a, h) <= Off(a, s) /\ Off(a, s) < Off(a, t)
    <3>1. t # h
      BY <2>4, <1>1, OffFacts, SizeFacts
    <3>2. Holds /\ t = After(h)
      BY <3>1 DEF Inv, RingInv
    <3>3. Off(a, t) = Off(a, h) + 1
      BY <1>1, <2>4, <3>2, OffFacts, SizeFacts
    <3>4. Off(a, s) = Off(a, h)
      BY <1>1, <2>4, <3>3, OffFacts
    <3>5. s = h
      BY <1>1, <3>4, OffFacts
    <3>6. QED
      BY <3>2, <3>5
  <2>5. QED
    BY <1>1, <2>2, <2>3, <2>4, OffFacts, SizeFacts
<1>6. ASSUME NEW s \in D
      PROVE  \E k \in {"used", "free", "filter"} :
               /\ In(k, g[s])
               /\ k = "used" => s \in UsedSlots
               /\ k = "free" => s \in FreeSlots
               /\ k = "filter" => s = h
  BY <1>5, <1>6, KindDef
<1>7. ASSUME NEW s \in D
      PROVE  g[s] \in T
  <2>1. g[s] \in Ids
    BY <1>1 DEF Inv, TypeOK
  <2>2. g[s] # sw_id
    BY <1>4, <1>6, <2>1 DEF Inv, OneKind, Kinds
  <2>3. QED
    BY <2>1, <2>2
<1>8. ASSUME NEW s \in D, NEW r \in D, g[s] = g[r]
      PROVE  s = r
  <2>1. PICK k \in {"used", "free", "filter"} :
               /\ In(k, g[s])
               /\ k = "used" => s \in UsedSlots
               /\ k = "free" => s \in FreeSlots
               /\ k = "filter" => s = h
    BY <1>6
  <2>2. PICK l \in {"used", "free", "filter"} :
               /\ In(l, g[r])
               /\ l = "used" => r \in UsedSlots
               /\ l = "free" => r \in FreeSlots
               /\ l = "filter" => r = h
    BY <1>6
  <2>3. g[s] \in Ids
    BY <1>7
  <2>4. k = l
    <3> HIDE DEF g
    <3>1. In(k, g[s]) /\ In(l, g[s])
      BY <1>8, <2>1, <2>2
    <3>2. QED
      BY <2>3, <3>1 DEF Inv, OneKind, Kinds
  <2>5. Distinct(UsedSlots) /\ Distinct(FreeSlots)
    BY DEF Inv, DistinctInv
  <2>6. CASE k = "used"
    BY <1>8, <2>1, <2>2, <2>4, <2>5, <2>6 DEF Distinct
  <2>7. CASE k = "free"
    BY <1>8, <2>1, <2>2, <2>4, <2>5, <2>7 DEF Distinct
  <2>8. CASE k = "filter"
    BY <2>1, <2>2, <2>4, <2>8
  <2>9. QED
    BY <2>6, <2>7, <2>8
<1>9. IsFiniteSet(D) /\ Cardinality(D) = Size - 1
  <2>1. IsFiniteSet(Slots) /\ Cardinality(Slots) = Size
    BY SizeFacts, FS_Interval DEF Slots
  <2>2. QED
    BY <1>1, <2>1, FS_RemoveElement
<1>10. IsFiniteSet(T) /\ Cardinality(T) = Buffers - 1
  BY <1>4, IdsFinite
<1>11. g \in [D -> T]
  BY <1>7
<1>12. Cardinality(T) < Cardinality(D)
  BY <1>9, <1>10, SizeFacts
<1> HIDE DEF D, T, g
<1>13. QED
  BY <1>8, <1>9, <1>10, <1>11, <1>12, FS_PigeonHole

(* While a packet waits for the interrupt routine, its queue is not full. *)
LEMMA QueueHasRoom ==
  ASSUME Inv, alloc_valid
  PROVE  Len(queue) < QueueLen
<1> DEFINE D == 1 .. Len(queue)
           T == Ids \ {sw_pop_id}
<1>1. queue \in Seq(Ids) /\ Len(queue) \in Nat /\ DOMAIN queue = D
  BY DEF Inv, TypeOK
<1>2. sw_pop_id \in Ids /\ In("popped", sw_pop_id)
  BY KindDef DEF Inv, TypeOK
<1>3. ASSUME NEW i \in D
      PROVE  queue[i] \in T
  <2>1. queue[i] \in Ids /\ In("queue", queue[i])
    BY <1>1, KindDef
  <2>2. QED
    BY <1>2, <2>1 DEF Inv, OneKind, Kinds
<1>4. queue \in [D -> T]
  BY <1>1, <1>3
<1>5. IsFiniteSet(T) /\ Cardinality(T) = Buffers - 1
  BY <1>2, IdsFinite
<1>6. IsFiniteSet(D) /\ Cardinality(D) = Len(queue)
  BY <1>1, FS_Interval
<1>7. \A i, j \in D : queue[i] = queue[j] => i = j
  BY <1>1 DEF Inv, DistinctInv
<1> HIDE DEF D, T
<1>8. ~(Cardinality(T) < Cardinality(D))
  <2> SUFFICES ASSUME Cardinality(T) < Cardinality(D)
               PROVE  FALSE
    OBVIOUS
  <2>1. \E i, j \in D : i # j /\ queue[i] = queue[j]
    BY <1>4, <1>5, <1>6, FS_PigeonHole
  <2>2. QED
    BY <1>7, <2>1
<1>9. Len(queue) <= Buffers - 1
  BY <1>1, <1>5, <1>6, <1>8, SizeFacts
<1>10. QED
  BY <1>1, <1>9, BufferAssumption
(****************************************************************************)
(* The steps                                                                *)
(****************************************************************************)
LEMMA InitInv == Init => Inv
<1> SUFFICES ASSUME Init
             PROVE  Inv
  OBVIOUS
<1>1. /\ 0 \in Ids /\ 0 \in Slots /\ Buffers \in Nat /\ Pbufs \in Nat /\ Freers \in Nat
  BY BufferAssumption DEF Ids, Slots
<1>2. TypeOK
  <2>1. table \in [Slots -> Ids] /\ queue \in Seq(Ids)
    BY <1>1 DEF Init
  <2>2. /\ pc \in {"start", "loop", "input", "offer", "reject"} /\ pkt \in Ids \cup {None}
        /\ filter \in {"idle", "get_block", "copy", "pushing"}
    BY DEF Init
  <2>3. n \in 0 .. Buffers /\ pbufs \in 0 .. Pbufs /\ freeing \in 0 .. Freers /\ stack \subseteq Ids
    BY <1>1 DEF Init
  <2>4. /\ sw_insert \in BOOLEAN /\ alloc_valid \in BOOLEAN /\ rx_enable \in BOOLEAN
        /\ address_valid \in BOOLEAN /\ link_up \in BOOLEAN
    BY DEF Init
  <2>5. /\ free_head \in Slots /\ free_tail \in Slots /\ alloc_head \in Slots /\ alloc_tail \in Slots
        /\ sw_id \in Ids /\ sw_pop_id \in Ids /\ block_id \in Ids
    BY <1>1 DEF Init
  <2>6. QED
    BY <2>1, <2>2, <2>3, <2>4, <2>5 DEF TypeOK
<1>3. ~Holds /\ ~sw_insert /\ ~alloc_valid
  BY DEF Init, Holds
<1>4. RingInv
  BY <1>1, <1>3, SizeFacts DEF Init, RingInv, Off
<1>5. StateInv
  BY DEF Init, StateInv
<1>6. FreeSlots = {} /\ UsedSlots = {}
  BY DEF Init, FreeSlots, UsedSlots, Between, Slots
<1>7. OneKind
  <2>1. ASSUME NEW b \in Ids
        PROVE  In("driver", b) /\ \A l \in Kinds : In(l, b) => l = "driver"
    <3>1. pc = "start" /\ n = 0 /\ queue = <<>> /\ stack = {} /\ pkt = None
      BY DEF Init
    <3>2. b >= 0 /\ b # None
      BY SizeFacts DEF Ids, None
    <3>3. QED
      BY <1>3, <1>6, <3>1, <3>2, KindDef DEF Kinds
  <2>2. QED
    BY <2>1 DEF OneKind, Kinds
<1>8. DistinctInv
  BY <1>6 DEF Init, DistinctInv, Distinct
<1>9. QED
  BY <1>2, <1>4, <1>5, <1>7, <1>8 DEF Inv

LEMMA InsertKeeps == Inv /\ Insert => Inv' /\ Moved(sw_id, "put", "free")
<1> SUFFICES ASSUME Inv, Insert
             PROVE  Inv' /\ Moved(sw_id, "put", "free")
  OBVIOUS
<1> DEFINE f == free_head
<1>1. /\ sw_insert /\ table' = [table EXCEPT ![f] = sw_id] /\ free_head' = After(f)
      /\ sw_insert' = FALSE
      /\ UNCHANGED <<free_tail, alloc_head, alloc_tail, sw_id, alloc_valid, sw_pop_id>>
      /\ UNCHANGED <<filter, rx_enable, address_valid, block_id, queue>>
      /\ UNCHANGED <<pc, n, pkt, link_up, stack, pbufs, freeing>>
  BY DEF Insert, receiver, task, lwip
<1>2. /\ TypeOK /\ f \in Slots /\ free_tail \in Slots /\ alloc_head \in Slots
      /\ alloc_tail \in Slots /\ sw_id \in Ids /\ table \in [Slots -> Ids]
  BY DEF Inv, TypeOK
<1>3. /\ Off(alloc_tail, alloc_head) <= Off(alloc_tail, free_tail)
      /\ Off(alloc_tail, free_tail) <= Off(alloc_tail, f)
      /\ free_tail = IF Holds THEN After(alloc_head) ELSE alloc_head
  BY DEF Inv, RingInv
<1>4. Off(alloc_tail, f) < Size - 1
  BY <1>1, RingHasRoom
<1>5. Off(alloc_tail, After(f)) = Off(alloc_tail, f) + 1 /\ After(f) \in Slots
  BY <1>2, <1>4, OffFacts
<1>6. After(f) # free_tail
  BY <1>2, <1>3, <1>5, OffFacts, SizeFacts
<1>7. FreeSlots' = FreeSlots \cup {f} /\ f \notin FreeSlots
  BY <1>1, <1>2, <1>6, RegionGrows DEF FreeSlots
<1>8. UsedSlots' = UsedSlots /\ f \notin UsedSlots
  <2>1. f \notin UsedSlots
    BY <1>2, <1>3, Regions, OffFacts, SizeFacts DEF UsedSlots
  <2>2. QED
    BY <1>1, <2>1 DEF UsedSlots
<1>9. FreeSlots \subseteq Slots /\ UsedSlots \subseteq Slots
  BY DEF FreeSlots, UsedSlots, Between
<1>10. Holds' = Holds
  BY <1>1 DEF Holds
<1>11. TypeOK'
  BY <1>1, <1>2, <1>5 DEF TypeOK
<1>12. RingInv'
  BY <1>1, <1>2, <1>3, <1>5, <1>10, OffFacts DEF RingInv
<1>13. StateInv'
  BY <1>1 DEF Inv, StateInv
<1>14. PICK c \in Ids : c = sw_id
  BY <1>2
<1>15. /\ \A b \in Ids : In("free", b)' <=> In("free", b) \/ b = c
       /\ Same("used")
  <2>1. table'[f] = c /\ \A s \in Slots \ {f} : table'[s] = table[s]
    BY <1>1, <1>2, <1>14
  <2>2. QED
    BY <1>7, <1>8, <1>9, <2>1, KindDef, KindDefNext DEF Same
<1>16. /\ In("put", c) /\ \A b \in Ids : In("put", b) => b = c
       /\ \A b \in Ids : ~In("put", b)'
  BY <1>1, <1>14, KindDef, KindDefNext
<1>17. ~In("free", c)
  BY <1>16 DEF Inv, OneKind, Kinds
<1>18. Moved(c, "put", "free") /\ OneKind'
  <2>1. Moves(c, "put", "free")
    BY <1>15, <1>16 DEF Moves
  <2>2. \A k \in Kinds \ {"put", "free"} : Same(k)
    BY <1>1, <1>10, <1>15, SameKinds DEF Kinds
  <2>3. Moved(c, "put", "free")
    BY <2>1, <2>2 DEF Moved
  <2>4. QED
    BY <2>3, OneMoves DEF Inv, Kinds
<1>19. DistinctInv'
  <2>1. \A s \in FreeSlots : table[s] # sw_id
    BY <1>14, <1>17, KindDef
  <2>2. Distinct(FreeSlots)'
    BY <1>1, <1>2, <1>7, <1>9, <2>1 DEF Inv, DistinctInv, Distinct
  <2>3. Distinct(UsedSlots)'
    BY <1>1, <1>2, <1>8, <1>9 DEF Inv, DistinctInv, Distinct
  <2>4. QED
    BY <1>1, <2>2, <2>3 DEF Inv, DistinctInv
<1>20. QED
  BY <1>11, <1>12, <1>13, <1>14, <1>18, <1>19 DEF Inv

LEMMA PushUsedKeeps == Inv /\ PushUsed => Inv' /\ Moved(block_id, "filter", "used")
<1> SUFFICES ASSUME Inv, PushUsed
             PROVE  Inv' /\ Moved(block_id, "filter", "used")
  OBVIOUS
<1> DEFINE h == alloc_head
<1>1. /\ filter = "pushing" /\ table' = [table EXCEPT ![h] = block_id]
      /\ alloc_head' = After(h) /\ filter' = "idle"
      /\ UNCHANGED <<free_head, free_tail, alloc_tail, sw_insert, sw_id, alloc_valid, sw_pop_id>>
      /\ UNCHANGED <<rx_enable, address_valid, block_id, queue>>
      /\ UNCHANGED <<pc, n, pkt, link_up, stack, pbufs, freeing>>
  BY DEF PushUsed, cpu_regs, task, lwip
<1>2. /\ TypeOK /\ h \in Slots /\ free_tail \in Slots /\ free_head \in Slots
      /\ alloc_tail \in Slots /\ block_id \in Ids /\ table \in [Slots -> Ids]
  BY DEF Inv, TypeOK
<1>3. ~address_valid /\ Holds
  BY <1>1 DEF Inv, StateInv, Holds
<1>4. /\ Off(alloc_tail, h) <= Off(alloc_tail, free_tail)
      /\ Off(alloc_tail, free_tail) <= Off(alloc_tail, free_head)
      /\ free_tail = After(h)
  BY <1>3 DEF Inv, RingInv
<1>5. Off(alloc_tail, After(h)) = Off(alloc_tail, h) + 1 /\ After(h) \in Slots
  BY <1>2, <1>4, OffFacts, SizeFacts
<1>6. After(h) # alloc_tail
  BY <1>2, <1>5, OffFacts, SizeFacts
<1>7. UsedSlots' = UsedSlots \cup {h} /\ h \notin UsedSlots
  BY <1>1, <1>2, <1>6, RegionGrows DEF UsedSlots
<1>8. FreeSlots' = FreeSlots /\ h \notin FreeSlots
  <2>1. h \notin FreeSlots
    BY <1>2, <1>4, <1>5, Regions, OffFacts, SizeFacts DEF FreeSlots
  <2>2. QED
    BY <1>1, <2>1 DEF FreeSlots
<1>9. FreeSlots \subseteq Slots /\ UsedSlots \subseteq Slots
  BY DEF FreeSlots, UsedSlots, Between
<1>10. ~Holds'
  BY <1>1, <1>3 DEF Holds
<1>11. TypeOK'
  BY <1>1, <1>2, <1>5 DEF TypeOK
<1>12. RingInv'
  BY <1>1, <1>2, <1>4, <1>5, <1>10, OffFacts DEF RingInv
<1>13. StateInv'
  BY <1>1 DEF Inv, StateInv
<1>14. PICK c \in Ids : c = block_id
  BY <1>2
<1>15. /\ \A b \in Ids : In("used", b)' <=> In("used", b) \/ b = c
       /\ Same("free")
  <2>1. table'[h] = c /\ \A s \in Slots \ {h} : table'[s] = table[s]
    BY <1>1, <1>2, <1>14
  <2>2. QED
    BY <1>7, <1>8, <1>9, <2>1, KindDef, KindDefNext DEF Same
<1>16. /\ In("filter", c) /\ \A b \in Ids : In("filter", b) => b = c
       /\ \A b \in Ids : ~In("filter", b)'
  BY <1>3, <1>10, <1>14, KindDef, KindDefNext
<1>17. ~In("used", c)
  BY <1>16 DEF Inv, OneKind, Kinds
<1>18. Moved(c, "filter", "used") /\ OneKind'
  <2>1. Moves(c, "filter", "used")
    BY <1>15, <1>16 DEF Moves
  <2>2. \A k \in Kinds \ {"filter", "used"} : Same(k)
    BY <1>1, <1>15, SameKinds DEF Kinds
  <2>3. Moved(c, "filter", "used")
    BY <2>1, <2>2 DEF Moved
  <2>4. QED
    BY <2>3, OneMoves DEF Inv, Kinds
<1>19. DistinctInv'
  <2>1. \A s \in UsedSlots : table[s] # block_id
    BY <1>14, <1>17, KindDef
  <2>2. Distinct(FreeSlots)'
    BY <1>1, <1>2, <1>8, <1>9 DEF Inv, DistinctInv, Distinct
  <2>3. Distinct(UsedSlots)'
    BY <1>1, <1>2, <1>7, <1>9, <2>1 DEF Inv, DistinctInv, Distinct
  <2>4. QED
    BY <1>1, <2>2, <2>3 DEF Inv, DistinctInv
<1>20. QED
  BY <1>11, <1>12, <1>13, <1>14, <1>18, <1>19 DEF Inv

LEMMA AllocateKeeps ==
  Inv /\ Allocate => Inv' /\ IF free_tail = free_head THEN Stays
                             ELSE Moved(table[free_tail], "free", "filter")
<1> SUFFICES ASSUME Inv, Allocate
             PROVE  Inv' /\ IF free_tail = free_head THEN Stays
                            ELSE Moved(table[free_tail], "free", "filter")
  OBVIOUS
<1> DEFINE t == free_tail
<1>1. /\ filter = "get_block"
      /\ UNCHANGED <<table, free_head, alloc_head, alloc_tail, sw_insert, sw_id>>
      /\ UNCHANGED <<alloc_valid, sw_pop_id, rx_enable, queue>>
      /\ UNCHANGED <<pc, n, pkt, link_up, stack, pbufs, freeing>>
  BY DEF Allocate, cpu_regs, task, lwip
<1>2. /\ TypeOK /\ t \in Slots /\ alloc_head \in Slots /\ free_head \in Slots
      /\ alloc_tail \in Slots /\ table \in [Slots -> Ids]
  BY DEF Inv, TypeOK
<1>3. ~address_valid /\ ~Holds
  BY <1>1 DEF Inv, StateInv, Holds
<1>4. /\ Off(alloc_tail, alloc_head) <= Off(alloc_tail, t)
      /\ Off(alloc_tail, t) <= Off(alloc_tail, free_head)
      /\ t = alloc_head
  BY <1>3 DEF Inv, RingInv
<1>5. UsedSlots' = UsedSlots
  BY <1>1 DEF UsedSlots
<1>6. CASE t = free_head
  <2>1. filter' = "idle" /\ UNCHANGED <<free_tail, block_id, address_valid>>
    BY <1>6 DEF Allocate
  <2>2. FreeSlots' = FreeSlots /\ Holds' = Holds
    BY <1>1, <1>3, <2>1 DEF FreeSlots, Holds
  <2>3. TypeOK'
    BY <1>1, <1>2, <2>1 DEF TypeOK
  <2>4. RingInv'
    BY <1>1, <1>3, <1>4, <2>1, <2>2 DEF RingInv
  <2>5. StateInv'
    BY <1>1, <2>1 DEF Inv, StateInv
  <2>6. Stays
    BY <1>1, <2>1, <2>2, SameKinds DEF Kinds, Stays
  <2>7. OneKind'
    BY <2>6, NoneMoves DEF Inv
  <2>8. DistinctInv'
    BY <1>1, <1>5, <2>2 DEF Inv, DistinctInv, Distinct
  <2>9. QED
    BY <1>6, <2>3, <2>4, <2>5, <2>6, <2>7, <2>8 DEF Inv
<1>7. CASE t # free_head
  <2>1. /\ block_id' = table[t] /\ free_tail' = After(t)
        /\ address_valid' = TRUE /\ filter' = "copy"
    BY <1>7 DEF Allocate
  <2>2. Holds'
    BY <2>1 DEF Holds
  <2>3. FreeSlots' = FreeSlots \ {t} /\ t \in FreeSlots
    BY <1>1, <1>2, <1>7, <2>1, RegionShrinks DEF FreeSlots
  <2>4. /\ Off(alloc_tail, t) # Off(alloc_tail, free_head)
        /\ Off(alloc_tail, t) \in 0 .. Size - 1 /\ Off(alloc_tail, free_head) \in 0 .. Size - 1
    BY <1>2, <1>7, OffFacts
  <2>5. Off(alloc_tail, After(t)) = Off(alloc_tail, t) + 1 /\ After(t) \in Slots
    BY <1>2, <1>4, <2>4, OffFacts, SizeFacts
  <2>6. TypeOK'
    BY <1>1, <1>2, <2>1, <2>5 DEF TypeOK
  <2>7. RingInv'
    BY <1>1, <1>2, <1>4, <2>1, <2>2, <2>4, <2>5, SizeFacts DEF RingInv
  <2>8. StateInv'
    BY <1>1, <2>1 DEF Inv, StateInv
  <2>9. PICK c \in Ids : c = table[t]
    BY <1>2
  <2>10. FreeSlots \subseteq Slots
    BY DEF FreeSlots, Between
  <2>11. \A s \in FreeSlots : table[s] = c => s = t
    BY <2>3, <2>9 DEF Inv, DistinctInv, Distinct
  <2>12. /\ In("free", c) /\ \A b \in Ids : In("free", b)' <=> In("free", b) /\ b # c
    BY <1>1, <2>3, <2>9, <2>11, KindDef, KindDefNext
  <2>13. /\ \A b \in Ids : In("filter", b)' <=> b = c
         /\ \A b \in Ids : ~In("filter", b)
    BY <1>3, <2>1, <2>2, <2>9, KindDef, KindDefNext
  <2>14. Moves(c, "free", "filter")
    BY <2>12, <2>13 DEF Moves
  <2>15. \A k \in Kinds \ {"free", "filter"} : Same(k)
    BY <1>1, SameKinds DEF Kinds
  <2>16. Moved(c, "free", "filter") /\ OneKind'
    BY <2>14, <2>15, OneMoves DEF Inv, Kinds, Moved
  <2>17. DistinctInv'
    BY <1>1, <1>5, <2>3 DEF Inv, DistinctInv, Distinct
  <2>18. QED
    BY <1>7, <2>6, <2>7, <2>8, <2>9, <2>16, <2>17 DEF Inv
<1>8. QED
  BY <1>6, <1>7

LEMMA PopUsedKeeps == Inv /\ PopUsed => Inv' /\ Moved(table[alloc_tail], "used", "popped")
<1> SUFFICES ASSUME Inv, PopUsed
             PROVE  Inv' /\ Moved(table[alloc_tail], "used", "popped")
  OBVIOUS
<1> DEFINE a == alloc_tail
<1>1. /\ ~alloc_valid /\ a # alloc_head
      /\ sw_pop_id' = table[a] /\ alloc_valid' = TRUE /\ alloc_tail' = After(a)
      /\ UNCHANGED <<table, free_head, free_tail, alloc_head, sw_insert, sw_id>>
      /\ UNCHANGED <<filter, rx_enable, address_valid, block_id, queue>>
      /\ UNCHANGED <<pc, n, pkt, link_up, stack, pbufs, freeing>>
  BY DEF PopUsed, receiver, task, lwip
<1>2. /\ TypeOK /\ a \in Slots /\ alloc_head \in Slots /\ free_tail \in Slots
      /\ free_head \in Slots /\ table \in [Slots -> Ids]
  BY DEF Inv, TypeOK
<1>3. /\ Off(a, alloc_head) <= Off(a, free_tail) /\ Off(a, free_tail) <= Off(a, free_head)
      /\ free_tail = IF Holds THEN After(alloc_head) ELSE alloc_head
  BY DEF Inv, RingInv
<1>4. UsedSlots' = UsedSlots \ {a} /\ a \in UsedSlots
  BY <1>1, <1>2, RegionShrinks DEF UsedSlots
<1>5. FreeSlots' = FreeSlots /\ Holds' = Holds
  BY <1>1 DEF FreeSlots, Holds
<1>6. After(a) \in Slots
  BY <1>2, OffFacts
<1>7. ASSUME NEW s \in Slots, s # a
      PROVE  Off(After(a), s) = Off(a, s) - 1
  BY <1>2, <1>7, SizeFacts DEF Off, After, Slots
<1>8. free_tail # a /\ free_head # a
  BY <1>1, <1>2, <1>3, OffFacts
<1>9. TypeOK'
  BY <1>1, <1>2, <1>6 DEF TypeOK
<1>10. RingInv'
  <2>1. /\ Off(a, alloc_head) \in Int /\ Off(a, free_tail) \in Int /\ Off(a, free_head) \in Int
    BY <1>2, OffFacts
  <2>2. /\ Off(After(a), alloc_head) <= Off(After(a), free_tail)
        /\ Off(After(a), free_tail) <= Off(After(a), free_head)
    BY <1>1, <1>2, <1>3, <1>7, <1>8, <2>1
  <2>3. QED
    BY <1>1, <1>3, <1>5, <2>2 DEF RingInv
<1>11. StateInv'
  BY <1>1 DEF Inv, StateInv
<1>12. PICK c \in Ids : c = table[a]
  BY <1>2
<1>13. \A s \in UsedSlots : table[s] = c => s = a
  BY <1>4, <1>12 DEF Inv, DistinctInv, Distinct
<1>14. In("used", c) /\ \A b \in Ids : In("used", b)' <=> In("used", b) /\ b # c
  BY <1>1, <1>4, <1>12, <1>13, KindDef, KindDefNext
<1>15. /\ \A b \in Ids : In("popped", b)' <=> b = c
       /\ \A b \in Ids : ~In("popped", b)
  BY <1>1, <1>12, KindDef, KindDefNext
<1>16. Moves(c, "used", "popped")
  BY <1>14, <1>15 DEF Moves
<1>17. \A k \in Kinds \ {"used", "popped"} : Same(k)
  BY <1>1, <1>5, SameKinds DEF Kinds
<1>18. Moved(c, "used", "popped") /\ OneKind'
  BY <1>16, <1>17, OneMoves DEF Inv, Kinds, Moved
<1>19. DistinctInv'
  BY <1>1, <1>4, <1>5 DEF Inv, DistinctInv, Distinct
<1>20. QED
  BY <1>9, <1>10, <1>11, <1>12, <1>18, <1>19 DEF Inv

(* The steps that leave the ring alone. *)
LEMMA RingKept ==
  ASSUME Inv, UNCHANGED <<ring, Holds>>
  PROVE  RingInv' /\ Distinct(FreeSlots)' /\ Distinct(UsedSlots)'
<1>1. UNCHANGED <<table, free_head, free_tail, alloc_head, alloc_tail, Holds>>
  BY DEF ring, pointers
<1>2. RingInv'
  BY <1>1 DEF Inv, RingInv
<1>3. Distinct(FreeSlots)' /\ Distinct(UsedSlots)'
  BY <1>1 DEF Inv, DistinctInv, Distinct, FreeSlots, UsedSlots
<1>4. QED
  BY <1>2, <1>3

LEMMA RingKindsKept ==
  ASSUME UNCHANGED ring
  PROVE  Same("free") /\ Same("used")
  BY SameKinds DEF ring, pointers

LEMMA WireKeeps == Inv /\ Wire => Inv' /\ Stays
<1> SUFFICES ASSUME Inv, Wire
             PROVE  Inv' /\ Stays
  OBVIOUS
<1>1. /\ UNCHANGED <<ring, cpu_regs, queue, task, lwip, rx_enable, block_id>>
      /\ filter' \in {"idle", "get_block", "copy", "pushing"} /\ address_valid' \in BOOLEAN
      /\ Holds' = Holds /\ StateInv'
  <2>1. CASE PacketBegins
    BY <2>1 DEF PacketBegins, Inv, StateInv, TypeOK, Holds, task
  <2>2. CASE \E good \in BOOLEAN : PacketEnds(good)
    BY <2>2 DEF PacketEnds, Inv, StateInv, TypeOK, Holds, task
  <2>3. QED
    BY <2>1, <2>2 DEF Wire
<1>2. TypeOK'
  BY <1>1 DEF Inv, TypeOK, ring, pointers, cpu_regs, task, lwip
<1>3. Stays
  BY <1>1, RingKindsKept, SameKinds DEF Stays, Kinds, cpu_regs, task, lwip
<1>4. QED
  BY <1>1, <1>2, <1>3, NoneMoves, RingKept DEF Inv, DistinctInv

LEMMA RxInterruptKeeps == Inv /\ RxInterrupt => Inv' /\ Moved(sw_pop_id, "popped", "queue")
<1> SUFFICES ASSUME Inv, RxInterrupt
             PROVE  Inv' /\ Moved(sw_pop_id, "popped", "queue")
  OBVIOUS
<1>1. /\ alloc_valid /\ alloc_valid' = FALSE
      /\ UNCHANGED <<ring, sw_insert, sw_id, sw_pop_id, receiver, task, lwip>>
  BY DEF RxInterrupt
<1>2. queue' = Append(queue, sw_pop_id)
  BY <1>1, QueueHasRoom DEF RxInterrupt
<1>3. PICK c \in Ids : c = sw_pop_id
  BY DEF Inv, TypeOK
<1>4. /\ queue \in Seq(Ids) /\ Len(queue) \in Nat /\ DOMAIN queue = 1 .. Len(queue)
      /\ queue' \in Seq(Ids) /\ DOMAIN queue' = 1 .. Len(queue) + 1
      /\ queue'[Len(queue) + 1] = c
      /\ \A i \in DOMAIN queue : queue'[i] = queue[i]
  BY <1>2, <1>3 DEF Inv, TypeOK
<1>5. UNCHANGED Holds
  BY <1>1 DEF receiver, Holds
<1>6. TypeOK'
  BY <1>1, <1>4 DEF Inv, TypeOK, ring, pointers, receiver, task, lwip
<1>7. StateInv'
  BY <1>1 DEF Inv, StateInv, receiver, task
<1>8. /\ In("popped", c) /\ \A b \in Ids : In("popped", b) => b = c
      /\ \A b \in Ids : ~In("popped", b)'
  BY <1>1, <1>3, KindDef, KindDefNext
<1>9. ~In("queue", c)
  BY <1>8 DEF Inv, OneKind, Kinds
<1>10. \A b \in Ids : In("queue", b)' <=> In("queue", b) \/ b = c
  <2>1. DOMAIN queue' = DOMAIN queue \cup {Len(queue) + 1}
    BY <1>4
  <2>2. QED
    BY <1>4, <2>1, KindDef, KindDefNext
<1>11. Moves(c, "popped", "queue")
  BY <1>8, <1>10 DEF Moves
<1>12. \A k \in Kinds \ {"popped", "queue"} : Same(k)
  BY <1>1, <1>5, RingKindsKept, SameKinds DEF Kinds, receiver, task, lwip
<1>13. Moved(c, "popped", "queue") /\ OneKind'
  BY <1>11, <1>12, OneMoves DEF Inv, Kinds, Moved
<1>14. \A i, j \in DOMAIN queue' : queue'[i] = queue'[j] => i = j
  <2>1. \A i \in DOMAIN queue : queue[i] # c
    BY <1>9, KindDef
  <2>2. \A i, j \in DOMAIN queue : queue[i] = queue[j] => i = j
    BY DEF Inv, DistinctInv
  <2>3. DOMAIN queue' = DOMAIN queue \cup {Len(queue) + 1}
    BY <1>4
  <2>4. QED
    BY <1>4, <2>1, <2>2, <2>3
<1>15. QED
  BY <1>1, <1>3, <1>5, <1>6, <1>7, <1>13, <1>14, RingKept DEF Inv, DistinctInv

(* FreePut of a buffer c that leaves the kind it was of. *)
LEMMA PutKeeps ==
  ASSUME Inv, NEW c \in Ids, FreePut(c), UNCHANGED queue,
         NEW from \in {"driver", "task", "stack"},
         In(from, c), ~In(from, c)', \A b \in Ids \ {c} : In(from, b)' <=> In(from, b),
         \A k \in {"driver", "task", "stack"} \ {from} : Same(k)
  PROVE  RingInv' /\ OneKind' /\ DistinctInv' /\ Moved(c, from, "put")
<1>1. /\ ~sw_insert /\ sw_insert' = TRUE /\ sw_id' = c
      /\ UNCHANGED <<ring, alloc_valid, sw_pop_id, receiver, queue>>
  BY DEF FreePut
<1>2. UNCHANGED Holds
  BY <1>1 DEF receiver, Holds
<1>3. /\ \A b \in Ids : In("put", b)' <=> b = c
      /\ \A b \in Ids : ~In("put", b)
  BY <1>1, KindDef, KindDefNext
<1>4. Moves(c, from, "put")
  BY <1>3 DEF Moves
<1>5. \A k \in Kinds \ {from, "put"} : Same(k)
  BY <1>1, <1>2, RingKindsKept, SameKinds DEF Kinds, receiver
<1>6. Moved(c, from, "put") /\ OneKind'
  BY <1>4, <1>5, OneMoves DEF Inv, Kinds, Moved
<1>7. QED
  BY <1>1, <1>2, <1>6, RingKept DEF Inv, DistinctInv

LEMMA PutType ==
  ASSUME Inv, NEW c \in Ids, FreePut(c)
  PROVE  /\ UNCHANGED <<ring, alloc_valid, sw_pop_id, receiver>>
         /\ sw_insert' \in BOOLEAN /\ sw_id' \in Ids
  BY DEF FreePut

LEMMA StartKeeps ==
  Inv /\ Start => Inv' /\ IF n < Buffers THEN Moved(n, "driver", "put") ELSE Stays
<1> SUFFICES ASSUME Inv, Start
             PROVE  Inv' /\ IF n < Buffers THEN Moved(n, "driver", "put") ELSE Stays
  OBVIOUS
<1>1. pc = "start" /\ UNCHANGED <<queue, pkt, link_up, lwip>>
  BY DEF Start
<1>2. n \in 0 .. Buffers /\ pkt = None
  BY <1>1 DEF Inv, TypeOK, StateInv
<1>3. CASE n < Buffers
  <2>1. FreePut(n) /\ n' = n + 1 /\ pc' = pc
    BY <1>3 DEF Start
  <2>2. PICK c \in Ids : c = n
    BY <1>2, <1>3, SizeFacts DEF Ids
  <2>3. FreePut(c)
    BY <2>1, <2>2 DEF FreePut
  <2>4. /\ In("driver", c) /\ ~In("driver", c)'
        /\ \A b \in Ids \ {c} : In("driver", b)' <=> In("driver", b)
    <3>1. \A b \in Ids : b \in Int
      BY SizeFacts DEF Ids
    <3>2. QED
      BY <1>1, <1>2, <2>1, <2>2, <3>1, KindDef, KindDefNext
  <2>5. Same("task") /\ Same("stack")
    BY <1>1, SameKinds DEF lwip
  <2>6. RingInv' /\ OneKind' /\ DistinctInv' /\ Moved(c, "driver", "put")
    BY <1>1, <2>3, <2>4, <2>5, PutKeeps
  <2>7. TypeOK'
    BY <1>1, <1>2, <1>3, <2>1, <2>3, PutType, SizeFacts
       DEF Inv, TypeOK, ring, pointers, receiver, lwip
  <2>8. StateInv'
    BY <1>1, <2>1, <2>3, PutType DEF Inv, StateInv, receiver
  <2>9. QED
    BY <1>3, <2>2, <2>6, <2>7, <2>8 DEF Inv
<1>4. CASE ~(n < Buffers)
  <2>1. /\ rx_enable' = TRUE /\ pc' = "loop"
        /\ UNCHANGED <<ring, cpu_regs, filter, address_valid, block_id, n>>
    BY <1>4 DEF Start
  <2>2. n = Buffers
    BY <1>2, <1>4, SizeFacts
  <2>3. TypeOK'
    BY <1>1, <2>1 DEF Inv, TypeOK, ring, pointers, cpu_regs, lwip
  <2>4. StateInv'
    BY <1>1, <1>2, <2>1, <2>2 DEF Inv, StateInv
  <2>5. UNCHANGED Holds
    BY <2>1 DEF Holds
  <2>6. Same("driver")
    <3>1. \A b \in Ids : ~(b >= n)
      BY <2>2, SizeFacts DEF Ids
    <3>2. QED
      BY <2>1, <3>1, KindDef, KindDefNext DEF Same
  <2>7. Stays
    BY <1>1, <2>1, <2>5, <2>6, RingKindsKept, SameKinds DEF Stays, Kinds, cpu_regs, lwip
  <2>8. QED
    BY <1>1, <1>4, <2>1, <2>3, <2>4, <2>5, <2>7, NoneMoves, RingKept DEF Inv, DistinctInv
<1>5. QED
  BY <1>3, <1>4

LEMMA ReceiveKeeps == Inv /\ ReceivePacket => Inv' /\ Moved(Head(queue), "queue", "task")
<1> SUFFICES ASSUME Inv, ReceivePacket
             PROVE  Inv' /\ Moved(Head(queue), "queue", "task")
  OBVIOUS
<1>1. /\ pc = "loop" /\ queue # <<>> /\ pkt' = Head(queue) /\ queue' = Tail(queue)
      /\ pc' = "input" /\ UNCHANGED <<ring, cpu_regs, receiver, n, link_up, lwip>>
  BY DEF ReceivePacket
<1>2. /\ queue \in Seq(Ids) /\ Len(queue) \in Nat \ {0} /\ DOMAIN queue = 1 .. Len(queue)
      /\ queue' \in Seq(Ids) /\ DOMAIN queue' = 1 .. Len(queue) - 1
      /\ Head(queue) = queue[1] /\ \A i \in DOMAIN queue' : queue'[i] = queue[i + 1]
  BY <1>1 DEF Inv, TypeOK
<1>3. PICK c \in Ids : c = queue[1]
  BY <1>2
<1>4. UNCHANGED Holds
  BY <1>1 DEF receiver, Holds
<1>5. pkt = None /\ None \notin Ids
  BY <1>1, SizeFacts DEF Inv, StateInv, Ids, None
<1>6. TypeOK'
  BY <1>1, <1>2, <1>3 DEF Inv, TypeOK, ring, pointers, cpu_regs, receiver, lwip
<1>7. StateInv'
  BY <1>1, <1>2, <1>3, <1>5 DEF Inv, StateInv, receiver
<1>8. \A i \in DOMAIN queue : queue[i] = c => i = 1
  BY <1>2, <1>3 DEF Inv, DistinctInv
<1>9. In("queue", c) /\ \A b \in Ids : In("queue", b)' <=> In("queue", b) /\ b # c
  <2>1. 1 \in DOMAIN queue
    BY <1>2
  <2>2. ASSUME NEW b \in Ids, NEW i \in DOMAIN queue, queue[i] = b, b # c
        PROVE  \E j \in DOMAIN queue' : queue'[j] = b
    <3>1. i # 1
      BY <1>3, <2>2
    <3>2. i - 1 \in DOMAIN queue' /\ queue'[i - 1] = queue[i]
      BY <1>2, <3>1
    <3>3. QED
      BY <2>2, <3>2
  <2>3. ASSUME NEW b \in Ids, NEW j \in DOMAIN queue', queue'[j] = b
        PROVE  b # c /\ \E i \in DOMAIN queue : queue[i] = b
    <3>1. j + 1 \in DOMAIN queue /\ queue[j + 1] = b /\ j + 1 # 1
      BY <1>2, <2>3
    <3>2. QED
      BY <1>8, <3>1
  <2>4. QED
    BY <1>3, <2>1, <2>2, <2>3, KindDef, KindDefNext
<1>10. /\ \A b \in Ids : In("task", b)' <=> b = c
       /\ \A b \in Ids : ~In("task", b)
  BY <1>1, <1>2, <1>3, <1>5, KindDef, KindDefNext
<1>11. Moves(c, "queue", "task")
  BY <1>9, <1>10 DEF Moves
<1>12. \A k \in Kinds \ {"queue", "task"} : Same(k)
  BY <1>1, <1>4, RingKindsKept, SameKinds DEF Kinds, receiver, cpu_regs, lwip
<1>13. Moved(c, "queue", "task") /\ OneKind'
  BY <1>11, <1>12, OneMoves DEF Inv, Kinds, Moved
<1>14. \A i, j \in DOMAIN queue' : queue'[i] = queue'[j] => i = j
  <2> SUFFICES ASSUME NEW i \in DOMAIN queue', NEW j \in DOMAIN queue', queue'[i] = queue'[j]
               PROVE  i = j
    OBVIOUS
  <2>1. /\ i + 1 \in DOMAIN queue /\ j + 1 \in DOMAIN queue
        /\ queue[i + 1] = queue[j + 1]
    BY <1>2
  <2>2. i + 1 = j + 1
    BY <2>1 DEF Inv, DistinctInv
  <2>3. QED
    BY <1>2, <2>2
<1>15. QED
  BY <1>1, <1>2, <1>3, <1>4, <1>6, <1>7, <1>13, <1>14, RingKept DEF Inv, DistinctInv

(* The steps that move no buffer: the link, a pbuf taken or returned. *)
LEMMA NothingMovesKeeps ==
  ASSUME Inv, UNCHANGED <<ring, cpu_regs, receiver, queue, n, pkt, stack>>,
         pc' \in {"start", "loop", "input", "offer", "reject"},
         pc' = pc \/ (pc # "start" /\ pc' # "start"),
         pc' \in {"start", "loop"} <=> pc \in {"start", "loop"},
         link_up' \in BOOLEAN, pbufs' \in 0 .. Pbufs, freeing' \in 0 .. Freers
  PROVE  Inv' /\ Stays
<1>1. UNCHANGED Holds
  BY DEF receiver, Holds
<1>2. TypeOK'
  BY DEF Inv, TypeOK, ring, pointers, cpu_regs, receiver
<1>3. StateInv'
  BY DEF Inv, StateInv, receiver
<1>4. Stays
  BY <1>1, RingKindsKept, SameKinds DEF Stays, Kinds, cpu_regs, receiver
<1>5. QED
  BY <1>1, <1>2, <1>3, <1>4, NoneMoves, RingKept DEF Inv, DistinctInv

(* The buffer of the task goes to the stack, or back to the ring. *)
LEMMA TaskBuffer ==
  ASSUME Inv, pc \in {"input", "offer", "reject"}, pkt' = None
  PROVE  /\ pkt \in Ids
         /\ \A b \in Ids : ~In("task", b)'
         /\ \A b \in Ids : In("task", b) <=> b = pkt
<1>1. pkt \in Ids /\ None \notin Ids
  BY SizeFacts DEF Inv, TypeOK, StateInv, Ids, None
<1>2. QED
  BY <1>1, KindDef, KindDefNext

LEMMA OfferKeeps ==
  ASSUME Inv, NEW accepted \in BOOLEAN, Offer(accepted), pbufs' \in 0 .. Pbufs
  PROVE  Inv' /\ IF accepted THEN Moved(pkt, "task", "stack") ELSE Stays
<1>1. pc = "offer" /\ UNCHANGED <<ring, cpu_regs, receiver, queue, n, link_up, freeing>>
  BY DEF Offer
<1>2. CASE accepted
  <2>1. stack' = stack \cup {pkt} /\ pkt' = None /\ pc' = "loop" /\ pbufs' = pbufs
    BY <1>2 DEF Offer
  <2>2. /\ pkt \in Ids
        /\ \A b \in Ids : ~In("task", b)'
        /\ \A b \in Ids : In("task", b) <=> b = pkt
    BY <1>1, <2>1, TaskBuffer
  <2>3. PICK c \in Ids : c = pkt
    BY <2>2
  <2>4. In("task", c)
    BY <2>2, <2>3
  <2>5. ~In("stack", c)
    BY <2>4 DEF Inv, OneKind, Kinds
  <2>6. In("stack", c)' /\ \A b \in Ids \ {c} : In("stack", b)' <=> In("stack", b)
    BY <2>1, <2>3, KindDef, KindDefNext
  <2>7. Moves(c, "task", "stack")
    BY <2>2, <2>3, <2>4, <2>6 DEF Moves
  <2>8. UNCHANGED Holds
    BY <1>1 DEF receiver, Holds
  <2>9. \A k \in Kinds \ {"task", "stack"} : Same(k)
    BY <1>1, <2>1, <2>8, RingKindsKept, SameKinds DEF Kinds, receiver, cpu_regs
  <2>10. Moved(c, "task", "stack") /\ OneKind'
    BY <2>7, <2>9, OneMoves DEF Inv, Kinds, Moved
  <2>11. TypeOK'
    BY <1>1, <2>1, <2>2 DEF Inv, TypeOK, ring, pointers, cpu_regs, receiver
  <2>12. StateInv'
    BY <1>1, <2>1 DEF Inv, StateInv, receiver
  <2>13. QED
    BY <1>1, <1>2, <2>3, <2>8, <2>10, <2>11, <2>12, RingKept DEF Inv, DistinctInv
<1>3. CASE ~accepted
  <2>1. pc' = "reject" /\ UNCHANGED <<stack, pkt>>
    BY <1>3 DEF Offer
  <2>2. UNCHANGED link_up /\ link_up \in BOOLEAN /\ freeing' \in 0 .. Freers
    BY <1>1 DEF Inv, TypeOK
  <2>3. QED
    BY <1>1, <1>3, <2>1, <2>2, NothingMovesKeeps
<1>4. QED
  BY <1>2, <1>3

LEMMA RejectKeeps == Inv /\ Reject => Inv' /\ Moved(pkt, "task", "put")
<1> SUFFICES ASSUME Inv, Reject
             PROVE  Inv' /\ Moved(pkt, "task", "put")
  OBVIOUS
<1>1. /\ pc = "reject" /\ FreePut(pkt) /\ pkt' = None /\ pc' = "loop"
      /\ UNCHANGED <<queue, n, link_up, lwip>>
  BY DEF Reject
<1>2. /\ pkt \in Ids
      /\ \A b \in Ids : ~In("task", b)'
      /\ \A b \in Ids : In("task", b) <=> b = pkt
  BY <1>1, TaskBuffer
<1>3. PICK c \in Ids : c = pkt
  BY <1>2
<1>4. FreePut(c)
  BY <1>1, <1>3 DEF FreePut
<1>5. /\ In("task", c) /\ ~In("task", c)'
      /\ \A b \in Ids \ {c} : In("task", b)' <=> In("task", b)
  BY <1>2, <1>3
<1>6. Same("driver") /\ Same("stack")
  BY <1>1, SameKinds DEF lwip
<1>7. RingInv' /\ OneKind' /\ DistinctInv' /\ Moved(c, "task", "put")
  BY <1>1, <1>4, <1>5, <1>6, PutKeeps
<1>8. TypeOK'
  BY <1>1, <1>4, PutType DEF Inv, TypeOK, ring, pointers, receiver, lwip
<1>9. StateInv'
  BY <1>1, <1>4, PutType DEF Inv, StateInv, receiver
<1>10. QED
  BY <1>3, <1>7, <1>8, <1>9 DEF Inv

LEMMA FreeBufferKeeps ==
  ASSUME Inv, NEW c \in Ids, FreeBuffer(c)
  PROVE  Inv' /\ Moved(c, "stack", "put")
<1>1. /\ c \in stack /\ freeing < Freers /\ FreePut(c)
      /\ stack' = stack \ {c} /\ freeing' = freeing + 1
      /\ UNCHANGED <<queue, task, pbufs>>
  BY DEF FreeBuffer
<1>2. /\ In("stack", c) /\ ~In("stack", c)'
      /\ \A b \in Ids \ {c} : In("stack", b)' <=> In("stack", b)
  BY <1>1, KindDef, KindDefNext
<1>3. Same("driver") /\ Same("task")
  BY <1>1, SameKinds DEF task
<1>4. RingInv' /\ OneKind' /\ DistinctInv' /\ Moved(c, "stack", "put")
  BY <1>1, <1>2, <1>3, PutKeeps
<1>5. freeing' \in 0 .. Freers
  BY <1>1, BufferAssumption DEF Inv, TypeOK
<1>6. TypeOK'
  BY <1>1, <1>5, PutType DEF Inv, TypeOK, ring, pointers, receiver, task
<1>7. StateInv'
  BY <1>1, PutType DEF Inv, StateInv, receiver, task
<1>8. QED
  BY <1>4, <1>6, <1>7 DEF Inv

(****************************************************************************)
(* The pbufs                                                                *)
(****************************************************************************)
LEMMA StackFinite ==
  ASSUME Inv
  PROVE  IsFiniteSet(stack) /\ Cardinality(stack) \in Nat
  BY IdsFinite, FS_Subset, FS_CardinalityType DEF Inv, TypeOK

(* The steps that pass a pbuf on keep the count and the types of both.    *)
LEMMA PbufsNext ==
  ASSUME Inv, PbufsConserved, [Next]_vars
  PROVE  /\ PbufsConserved'
         /\ pbufs' \in 0 .. Pbufs /\ freeing' \in 0 .. Freers
<1>1. /\ pbufs \in 0 .. Pbufs /\ freeing \in 0 .. Freers /\ Cardinality(stack) \in Nat
      /\ IsFiniteSet(stack) /\ Pbufs \in Nat /\ Freers \in Nat
  BY StackFinite, BufferAssumption DEF Inv, TypeOK
<1>2. pbufs + freeing + Cardinality(stack) + (IF pc = "offer" THEN 1 ELSE 0) = Pbufs
  BY DEF PbufsConserved
<1>3. ASSUME UNCHANGED <<stack, pbufs, freeing>>, pc = "offer" <=> pc' = "offer"
      PROVE  /\ PbufsConserved'
             /\ pbufs' \in 0 .. Pbufs /\ freeing' \in 0 .. Freers
  BY <1>1, <1>2, <1>3 DEF PbufsConserved
<1>4. CASE Hardware \/ Wire \/ RxInterrupt
  BY <1>3, <1>4 DEF Hardware, Insert, PushUsed, Allocate, PopUsed, Wire, PacketBegins,
                    PacketEnds, RxInterrupt, task, lwip
<1>5. CASE Start \/ ReceivePacket \/ Reject \/ PollLink
  BY <1>3, <1>5 DEF Start, ReceivePacket, Reject, PollLink, lwip
<1>6. CASE Input
  BY <1>1, <1>2, <1>6 DEF Input, PbufsConserved
<1>7. ASSUME NEW accepted \in BOOLEAN, Offer(accepted)
      PROVE  /\ PbufsConserved'
             /\ pbufs' \in 0 .. Pbufs /\ freeing' \in 0 .. Freers
  <2>1. pc = "offer" /\ freeing' = freeing
    BY <1>7 DEF Offer
  <2>2. CASE accepted
    <3>1. stack' = stack \cup {pkt} /\ pkt' = None /\ pc' = "loop" /\ pbufs' = pbufs
      BY <1>7, <2>2 DEF Offer
    <3>2. pkt \in Ids /\ In("task", pkt)
      BY <2>1, <3>1, TaskBuffer
    <3>3. pkt \notin stack
      BY <3>2, KindDef DEF Inv, OneKind, Kinds
    <3>4. Cardinality(stack') = Cardinality(stack) + 1
      BY <1>1, <3>1, <3>3, FS_AddElement
    <3>5. QED
      BY <1>1, <1>2, <2>1, <3>1, <3>4 DEF PbufsConserved
  <2>3. CASE ~accepted
    <3>1. pbufs' = pbufs + 1 /\ pc' = "reject" /\ UNCHANGED stack
      BY <1>7, <2>3 DEF Offer
    <3>2. QED
      BY <1>1, <1>2, <2>1, <3>1 DEF PbufsConserved
  <2>4. QED
    BY <2>2, <2>3
<1>8. ASSUME NEW b \in Ids, FreeBuffer(b)
      PROVE  /\ PbufsConserved'
             /\ pbufs' \in 0 .. Pbufs /\ freeing' \in 0 .. Freers
  <2>1. /\ b \in stack /\ freeing < Freers
        /\ stack' = stack \ {b} /\ freeing' = freeing + 1 /\ UNCHANGED <<pc, pbufs>>
    BY <1>8 DEF FreeBuffer, task
  <2>2. Cardinality(stack') = Cardinality(stack) - 1
    BY <1>1, <2>1, FS_RemoveElement
  <2>3. QED
    BY <1>1, <1>2, <2>1, <2>2 DEF PbufsConserved
<1>9. CASE FreePbuf
  <2>1. /\ freeing > 0 /\ freeing' = freeing - 1 /\ pbufs' = pbufs + 1
        /\ UNCHANGED <<pc, stack>>
    BY <1>9 DEF FreePbuf, task
  <2>2. QED
    BY <1>1, <1>2, <2>1 DEF PbufsConserved
<1>10. CASE UNCHANGED vars
  BY <1>3, <1>10 DEF vars, task, lwip
<1>11. QED
  BY <1>4, <1>5, <1>6, <1>7, <1>8, <1>9, <1>10 DEF Next, Task, Stack

LEMMA PbufsInit == Init => PbufsConserved
<1>1. Init => stack = {} /\ pbufs = Pbufs /\ freeing = 0 /\ pc = "start"
  BY DEF Init
<1>2. Cardinality({}) = 0 /\ Pbufs \in Nat
  BY FS_EmptySet, BufferAssumption
<1>3. QED
  BY <1>1, <1>2 DEF PbufsConserved

(****************************************************************************)
(* Theorems                                                                 *)
(****************************************************************************)
LEMMA InvNext == Inv /\ PbufsConserved /\ [Next]_vars => Inv' /\ PbufsConserved'
<1> SUFFICES ASSUME Inv, PbufsConserved, [Next]_vars
             PROVE  Inv' /\ PbufsConserved'
  OBVIOUS
<1>1. PbufsConserved' /\ pbufs' \in 0 .. Pbufs /\ freeing' \in 0 .. Freers
  BY PbufsNext
<1>2. Inv'
  <2>1. CASE Hardware
    BY <2>1, InsertKeeps, PushUsedKeeps, AllocateKeeps, PopUsedKeeps DEF Hardware
  <2>2. CASE Wire \/ RxInterrupt
    BY <2>2, WireKeeps, RxInterruptKeeps
  <2>3. CASE Start \/ ReceivePacket \/ Reject
    BY <2>3, StartKeeps, ReceiveKeeps, RejectKeeps
  <2>4. CASE \E a \in BOOLEAN : Offer(a)
    BY <1>1, <2>4, OfferKeeps
  <2>5. CASE \E b \in Ids : FreeBuffer(b)
    BY <2>5, FreeBufferKeeps
  <2>6. CASE Input
    <3>1. /\ pc = "input" /\ pc' \in {"reject", "offer"}
          /\ UNCHANGED <<ring, cpu_regs, receiver, queue, n, pkt, link_up, stack>>
      BY <2>6 DEF Input
    <3>2. link_up' \in BOOLEAN
      BY <3>1 DEF Inv, TypeOK
    <3>3. QED
      BY <1>1, <3>1, <3>2, NothingMovesKeeps
  <2>7. CASE PollLink
    <3>1. /\ pc = "loop" /\ link_up' \in BOOLEAN
          /\ UNCHANGED <<ring, cpu_regs, receiver, queue, pc, n, pkt, stack>>
      BY <2>7 DEF PollLink, lwip
    <3>2. QED
      BY <1>1, <3>1, NothingMovesKeeps
  <2>8. CASE FreePbuf \/ UNCHANGED vars
    <3>1. UNCHANGED <<ring, cpu_regs, receiver, queue, pc, n, pkt, link_up, stack>>
      BY <2>8 DEF FreePbuf, vars, task, lwip
    <3>2. link_up' \in BOOLEAN /\ pc \in {"start", "loop", "input", "offer", "reject"}
      BY <3>1 DEF Inv, TypeOK
    <3>3. QED
      BY <1>1, <3>1, <3>2, NothingMovesKeeps
  <2>9. QED
    BY <2>1, <2>2, <2>3, <2>4, <2>5, <2>6, <2>7, <2>8 DEF Next, Task, Stack
<1>3. QED
  BY <1>1, <1>2

LEMMA Always == Spec => [](Inv /\ PbufsConserved)
  BY InitInv, PbufsInit, InvNext, PTL DEF Spec

(****************************************************************************)
(* The buffers go round: PacketBuffers implements BufferCycle               *)
(****************************************************************************)
(* The place of a buffer of each kind. *)
PlaceAt ==
  [k \in Kinds |-> CASE k \in {"put", "free"} -> "free"
                     [] k \in {"used", "popped", "queue"} -> "received"
                     [] k = "task" -> "offered"
                     [] OTHER -> k]

places == [b \in Ids |-> PlaceOf(b)]

LEMMA PlaceAtFacts ==
  /\ PlaceAt["driver"] = "driver" /\ PlaceAt["put"] = "free" /\ PlaceAt["free"] = "free"
  /\ PlaceAt["filter"] = "filter" /\ PlaceAt["used"] = "received"
  /\ PlaceAt["popped"] = "received" /\ PlaceAt["queue"] = "received"
  /\ PlaceAt["task"] = "offered" /\ PlaceAt["stack"] = "stack"
  BY DEF PlaceAt, Kinds

LEMMA PlaceIs ==
  ASSUME OneKind, NEW b \in Ids, NEW k \in Kinds, In(k, b)
  PROVE  PlaceOf(b) = PlaceAt[k]
<1>1. \A l \in Kinds : In(l, b) <=> l = k
  BY DEF OneKind
<1>2. (\E l \in Kinds : In(l, b)) /\ (CHOOSE l \in Kinds : In(l, b)) = k
  BY <1>1
<1> QED
  BY <1>1, <1>2 DEF PlaceOf, PlaceAt, Kinds

LEMMA PlaceIsNext ==
  ASSUME OneKind', NEW b \in Ids, NEW k \in Kinds, In(k, b)'
  PROVE  PlaceOf(b)' = PlaceAt[k]
<1>1. \A l \in Kinds : In(l, b)' <=> l = k
  BY DEF OneKind
<1>2. (\E l \in Kinds : In(l, b)') /\ (CHOOSE l \in Kinds : In(l, b)') = k
  BY <1>1
<1> QED
  BY <1>1, <1>2 DEF PlaceOf, PlaceAt, Kinds

(* What a step does to the places, by what it does to the kinds. *)
LEMMA PlacesStay ==
  ASSUME OneKind, OneKind', Stays
  PROVE  places' = places
<1>1. ASSUME NEW b \in Ids PROVE PlaceOf(b)' = PlaceOf(b)
  <2>1. PICK k \in Kinds : In(k, b)
    BY DEF OneKind
  <2>2. In(k, b)'
    BY <2>1 DEF Stays, Same
  <2> QED
    BY <2>1, <2>2, PlaceIs, PlaceIsNext
<1> QED
  BY <1>1 DEF places

LEMMA PlaceMoves ==
  ASSUME OneKind, OneKind', NEW c \in Ids, NEW from \in Kinds, NEW to \in Kinds,
         Moved(c, from, to)
  PROVE  places[c] = PlaceAt[from] /\ places' = [places EXCEPT ![c] = PlaceAt[to]]
<1>1. In(from, c) /\ In(to, c)'
  BY DEF Moved, Moves
<1>2. PlaceOf(c) = PlaceAt[from] /\ PlaceOf(c)' = PlaceAt[to]
  BY <1>1, PlaceIs, PlaceIsNext
<1>3. ASSUME NEW b \in Ids, b # c PROVE PlaceOf(b)' = PlaceOf(b)
  <2>1. PICK k \in Kinds : In(k, b)
    BY DEF OneKind
  <2>2. In(k, b)'
    BY <1>3, <2>1 DEF Moved, Moves, Same
  <2> QED
    BY <2>1, <2>2, PlaceIs, PlaceIsNext
<1>4. places' = [b \in Ids |-> PlaceOf(b)']
  BY DEF places
<1> QED
  BY <1>2, <1>3, <1>4 DEF places

LEMMA PlaceStays ==
  ASSUME OneKind, OneKind', NEW c \in Ids, NEW from \in Kinds, NEW to \in Kinds,
         Moved(c, from, to), PlaceAt[from] = PlaceAt[to]
  PROVE  places' = places
<1>1. places[c] = PlaceAt[from] /\ places' = [places EXCEPT ![c] = PlaceAt[from]]
  BY PlaceMoves
<1> QED
  BY <1>1 DEF places

(* Going round, slot number i after slot a. *)
SlotAfter(a, i) == (a + i - 1) % Size

LEMMA SlotsAfter ==
  ASSUME NEW a \in Slots, NEW i \in 1 .. Size
  PROVE  /\ SlotAfter(a, i) \in Slots /\ Off(a, SlotAfter(a, i)) = i - 1
         /\ i < Size => SlotAfter(After(a), i) = SlotAfter(a, i + 1)
<1>1. \A x \in 0 .. Size + Size - 1 : x % Size = IF x < Size THEN x ELSE x - Size
  BY SizeFacts
<1>2. SlotAfter(a, i) = IF a + i - 1 < Size THEN a + i - 1 ELSE a + i - 1 - Size
  BY <1>1, SizeFacts DEF SlotAfter, Slots
<1>3. SlotAfter(a, i) \in Slots /\ Off(a, SlotAfter(a, i)) = i - 1
  BY <1>2, SizeFacts DEF Off, Slots
<1>4. ASSUME i < Size PROVE SlotAfter(After(a), i) = SlotAfter(a, i + 1)
  <2>1. After(a) \in Slots /\ After(a) = IF a = Size - 1 THEN 0 ELSE a + 1
    BY SizeFacts DEF After, Slots
  <2>2. SlotAfter(After(a), i) =
          IF After(a) + i - 1 < Size THEN After(a) + i - 1 ELSE After(a) + i - 1 - Size
    BY <1>1, <2>1, SizeFacts DEF SlotAfter, Slots
  <2>3. SlotAfter(a, i + 1) =
          IF a + (i + 1) - 1 < Size THEN a + (i + 1) - 1 ELSE a + (i + 1) - 1 - Size
    BY <1>1, <1>4, SizeFacts DEF SlotAfter, Slots
  <2> QED
    BY <1>4, <2>1, <2>2, <2>3, SizeFacts DEF Slots
<1> QED
  BY <1>3, <1>4

(* The packets that wait: with the task, at the CPU, in the ring. *)
AtCpu == IF alloc_valid THEN <<sw_pop_id>> ELSE <<>>
InRing == [i \in 1 .. Off(alloc_tail, alloc_head) |-> table[SlotAfter(alloc_tail, i)]]

WaitingParts ==
  /\ Waiting = (queue \o AtCpu) \o InRing
  /\ queue \in Seq(Ids) /\ AtCpu \in Seq(Ids)
  /\ InRing \in Seq(Ids) /\ Len(InRing) = Off(alloc_tail, alloc_head)
  /\ \A i \in 1 .. Len(InRing) : InRing[i] = table[SlotAfter(alloc_tail, i)]

LEMMA WaitingIs == TypeOK => WaitingParts
<1> SUFFICES ASSUME TypeOK PROVE WaitingParts
  OBVIOUS
<1>1. /\ alloc_tail \in Slots /\ alloc_head \in Slots /\ table \in [Slots -> Ids]
      /\ Off(alloc_tail, alloc_head) \in 0 .. Size - 1
  BY OffFacts DEF TypeOK
<1>2. \A i \in 1 .. Off(alloc_tail, alloc_head) : table[SlotAfter(alloc_tail, i)] \in Ids
  BY <1>1, SlotsAfter, SizeFacts
<1>3. /\ InRing \in Seq(Ids) /\ Len(InRing) = Off(alloc_tail, alloc_head)
      /\ \A i \in 1 .. Len(InRing) : InRing[i] = table[SlotAfter(alloc_tail, i)]
  BY <1>1, <1>2, SizeFacts DEF InRing
<1>4. queue \in Seq(Ids) /\ AtCpu \in Seq(Ids)
  BY DEF TypeOK, AtCpu
<1>5. Off(alloc_tail, alloc_head) =
        IF alloc_tail <= alloc_head THEN alloc_head - alloc_tail
        ELSE alloc_head + Size - alloc_tail
  BY <1>1, SizeFacts DEF Off, Slots
<1>6. Waiting = (queue \o AtCpu) \o InRing
  BY <1>5 DEF Waiting, AtCpu, InRing, SlotAfter
<1> QED
  BY <1>3, <1>4, <1>6 DEF WaitingParts

LEMMA InvWaiting == Inv => WaitingParts
  BY WaitingIs DEF Inv

LEMMA InvWaitingNext == Inv' => WaitingParts'
  BY InvWaiting, PTL

LEMMA WaitingBoth ==
  ASSUME Inv, Inv'
  PROVE  WaitingParts /\ WaitingParts'
  BY InvWaiting, InvWaitingNext

(* What a step does to the packets that wait: most leave them alone, ... *)
LEMMA WaitingSame ==
  ASSUME Inv, Inv', UNCHANGED <<queue, alloc_valid, sw_pop_id, table, alloc_head, alloc_tail>>
  PROVE  Waiting' = Waiting
<1>1. UNCHANGED <<AtCpu, InRing>>
  BY DEF AtCpu, InRing
<1> QED
  BY <1>1, WaitingBoth DEF WaitingParts

(* ... the ring takes a free buffer behind them, ... *)
LEMMA WaitingInsert ==
  ASSUME Inv, Inv', Insert
  PROVE  Waiting' = Waiting
<1>1. /\ table' = [table EXCEPT ![free_head] = sw_id]
      /\ UNCHANGED <<queue, alloc_valid, sw_pop_id, alloc_head, alloc_tail>>
  BY DEF Insert
<1>2. WaitingParts /\ WaitingParts' /\ UNCHANGED <<AtCpu, Len(InRing)>>
  BY <1>1, WaitingBoth DEF WaitingParts, AtCpu
<1>3. /\ alloc_tail \in Slots /\ alloc_head \in Slots /\ free_head \in Slots
      /\ free_tail \in Slots /\ table \in [Slots -> Ids]
      /\ Off(alloc_tail, alloc_head) <= Off(alloc_tail, free_tail)
      /\ Off(alloc_tail, free_tail) <= Off(alloc_tail, free_head)
  BY DEF Inv, TypeOK, RingInv
<1>10. /\ Off(alloc_tail, alloc_head) \in 0 .. Size - 1
      /\ Off(alloc_tail, free_tail) \in 0 .. Size - 1
      /\ Off(alloc_tail, free_head) \in 0 .. Size - 1
  BY <1>3, OffFacts
<1>4. ASSUME NEW i \in 1 .. Len(InRing)
      PROVE  InRing'[i] = InRing[i]
  <2>1. i \in 1 .. Off(alloc_tail, alloc_head) /\ i \in 1 .. Size
    BY <1>2, <1>3, <1>10, SizeFacts DEF WaitingParts
  <2>2. /\ SlotAfter(alloc_tail, i) \in Slots
        /\ Off(alloc_tail, SlotAfter(alloc_tail, i)) = i - 1
    BY <1>3, <2>1, SlotsAfter
  <2>3. SlotAfter(alloc_tail, i) # free_head
    BY <1>3, <1>10, <2>1, <2>2, SizeFacts
  <2>4. table'[SlotAfter(alloc_tail, i)] = table[SlotAfter(alloc_tail, i)]
    BY <1>1, <1>3, <2>2, <2>3
  <2>5. InRing'[i] = table'[SlotAfter(alloc_tail', i)]
    BY <1>2 DEF WaitingParts, SlotAfter
  <2> QED
    BY <1>1, <1>2, <2>4, <2>5 DEF WaitingParts
<1>5. InRing' = InRing
  BY <1>2, <1>4, SeqEqual DEF WaitingParts
<1> QED
  BY <1>1, <1>2, <1>5 DEF WaitingParts

(* ... a packet comes behind the others, ... *)
LEMMA WaitingPush ==
  ASSUME Inv, Inv', PushUsed
  PROVE  Waiting' = Append(Waiting, block_id)
<1>1. /\ table' = [table EXCEPT ![alloc_head] = block_id] /\ alloc_head' = After(alloc_head)
      /\ UNCHANGED <<queue, alloc_valid, sw_pop_id, alloc_tail>>
      /\ filter = "pushing"
  BY DEF PushUsed, cpu_regs
<1>2. WaitingParts /\ WaitingParts' /\ UNCHANGED AtCpu
  BY <1>1, WaitingBoth DEF AtCpu
<1>3. /\ alloc_tail \in Slots /\ alloc_head \in Slots /\ free_tail = After(alloc_head)
      /\ Off(alloc_tail, alloc_head) \in 0 .. Size - 1 /\ table \in [Slots -> Ids]
      /\ Off(alloc_tail, alloc_head) <= Off(alloc_tail, free_tail) /\ block_id \in Ids
  BY <1>1, OffFacts DEF Inv, TypeOK, RingInv, Holds
<1>4. Off(alloc_tail, After(alloc_head)) = Off(alloc_tail, alloc_head) + 1
  BY <1>3, OffFacts, SizeFacts
<1>5. InRing \in Seq(Ids) /\ Len(InRing) \in Nat /\ Len(InRing) = Off(alloc_tail, alloc_head)
      /\ InRing' \in Seq(Ids) /\ Len(InRing') = Len(InRing) + 1
  BY <1>1, <1>2, <1>4 DEF WaitingParts
<1>6. ASSUME NEW i \in 1 .. Len(InRing) + 1
      PROVE  InRing'[i] = IF i = Len(InRing) + 1 THEN block_id ELSE InRing[i]
  <2>1. i \in 1 .. Size
    BY <1>3, <1>5, SizeFacts
  <2>2. /\ SlotAfter(alloc_tail, i) \in Slots
        /\ Off(alloc_tail, SlotAfter(alloc_tail, i)) = i - 1
    BY <1>3, <2>1, SlotsAfter
  <2>3. InRing'[i] = table'[SlotAfter(alloc_tail, i)]
    BY <1>1, <1>2, <1>5 DEF WaitingParts, SlotAfter
  <2>4. CASE i = Len(InRing) + 1
    <3>1. SlotAfter(alloc_tail, i) = alloc_head
      BY <1>3, <1>5, <2>2, <2>4, OffFacts
    <3> QED
      BY <1>1, <1>3, <2>3, <2>4, <3>1
  <2>5. CASE i # Len(InRing) + 1
    <3>1. i \in 1 .. Len(InRing) /\ SlotAfter(alloc_tail, i) # alloc_head
      BY <1>5, <2>2, <2>5
    <3>2. table'[SlotAfter(alloc_tail, i)] = table[SlotAfter(alloc_tail, i)]
      BY <1>1, <1>3, <2>2, <3>1
    <3> QED
      BY <1>2, <2>3, <2>5, <3>1, <3>2 DEF WaitingParts
  <2> QED
    BY <2>4, <2>5
<1>7. InRing' = Append(InRing, block_id)
  <2>1. /\ Append(InRing, block_id) \in Seq(Ids) /\ Len(Append(InRing, block_id)) = Len(InRing) + 1
        /\ \A i \in 1 .. Len(InRing) : Append(InRing, block_id)[i] = InRing[i]
        /\ Append(InRing, block_id)[Len(InRing) + 1] = block_id
    BY <1>3, <1>5, AppendProperties
  <2>2. \A i \in 1 .. Len(InRing') : InRing'[i] = Append(InRing, block_id)[i]
    BY <1>5, <1>6, <2>1
  <2> QED
    BY <1>5, <2>1, <2>2, SeqEqual
<1>8. queue \o AtCpu \in Seq(Ids) /\ Waiting = (queue \o AtCpu) \o InRing
      /\ Waiting' = (queue \o AtCpu) \o Append(InRing, block_id)
  BY <1>1, <1>2, <1>7, ConcatProperties DEF WaitingParts
<1>9. \A q \in Seq(Ids), s \in Seq(Ids) : q \o Append(s, block_id) = Append(q \o s, block_id)
  <2> SUFFICES ASSUME NEW q \in Seq(Ids), NEW s \in Seq(Ids)
               PROVE  q \o Append(s, block_id) = Append(q \o s, block_id)
    OBVIOUS
  <2>1. /\ Append(s, block_id) = s \o <<block_id>> /\ <<block_id>> \in Seq(Ids)
        /\ q \o s \in Seq(Ids)
    BY <1>3, AppendIsConcat, ConcatProperties
  <2>2. Append(q \o s, block_id) = (q \o s) \o <<block_id>>
    BY <1>3, <2>1, AppendIsConcat
  <2> QED
    BY <2>1, <2>2, ConcatAssociative
<1> QED
  BY <1>5, <1>8, <1>9

LEMMA Assoc ==
  ASSUME NEW q \in Seq(Ids), NEW r \in Seq(Ids), NEW t \in Seq(Ids)
  PROVE  (q \o r) \o t = q \o (r \o t)
  BY ConcatAssociative

LEMMA Concat ==
  ASSUME NEW q \in Seq(Ids), NEW r \in Seq(Ids)
  PROVE  /\ q \o r \in Seq(Ids) /\ Len(q \o r) = Len(q) + Len(r)
         /\ \A i \in 1 .. Len(q \o r) :
              (q \o r)[i] = IF i <= Len(q) THEN q[i] ELSE r[i - Len(q)]
  BY ConcatProperties

(* ... the first of the ring falls through to the CPU's register, ... *)
LEMMA WaitingPop ==
  ASSUME Inv, Inv', PopUsed
  PROVE  Waiting' = Waiting
<1>1. /\ sw_pop_id' = table[alloc_tail] /\ alloc_valid' = TRUE /\ ~alloc_valid
      /\ alloc_tail' = After(alloc_tail) /\ alloc_tail # alloc_head
      /\ UNCHANGED <<queue, table, alloc_head>>
  BY DEF PopUsed
<1>2. /\ WaitingParts /\ WaitingParts'
      /\ AtCpu = <<>> /\ AtCpu' = <<table[alloc_tail]>>
  BY <1>1, WaitingBoth DEF AtCpu
<1>3. alloc_tail \in Slots /\ alloc_head \in Slots /\ table \in [Slots -> Ids]
  BY DEF Inv, TypeOK
<1>4. /\ Off(alloc_tail, alloc_head) \in 1 .. Size - 1
      /\ Off(After(alloc_tail), alloc_head) = Off(alloc_tail, alloc_head) - 1
      /\ table[alloc_tail] \in Ids
  BY <1>1, <1>3, SizeFacts DEF Off, After, Slots
<1>5. /\ InRing \in Seq(Ids) /\ Len(InRing) \in 1 .. Size - 1
      /\ InRing' \in Seq(Ids) /\ Len(InRing') = Len(InRing) - 1
      /\ Len(InRing) = Off(alloc_tail, alloc_head)
  BY <1>1, <1>2, <1>4 DEF WaitingParts
<1>6. InRing[1] = table[alloc_tail]
  <2>1. SlotAfter(alloc_tail, 1) \in Slots /\ Off(alloc_tail, SlotAfter(alloc_tail, 1)) = 0
    BY <1>3, SizeFacts, SlotsAfter
  <2>2. SlotAfter(alloc_tail, 1) = alloc_tail
    BY <1>3, <2>1, OffFacts
  <2> QED
    BY <1>2, <1>5, <2>2 DEF WaitingParts
<1>7. ASSUME NEW i \in 1 .. Len(InRing')
      PROVE  InRing'[i] = InRing[i + 1]
  <2>1. i \in 1 .. Size /\ i < Size /\ i + 1 \in 1 .. Len(InRing)
    BY <1>5, SizeFacts
  <2>2. SlotAfter(After(alloc_tail), i) = SlotAfter(alloc_tail, i + 1)
    BY <1>3, <2>1, SlotsAfter
  <2>3. InRing'[i] = table'[SlotAfter(alloc_tail', i)]
    BY <1>2 DEF WaitingParts, SlotAfter
  <2>4. InRing[i + 1] = table[SlotAfter(alloc_tail, i + 1)]
    BY <1>2, <2>1 DEF WaitingParts
  <2> QED
    BY <1>1, <2>2, <2>3, <2>4
<1>8. InRing = <<table[alloc_tail]>> \o InRing'
  <2>1. /\ <<table[alloc_tail]>> \in Seq(Ids) /\ Len(<<table[alloc_tail]>>) = 1
        /\ <<table[alloc_tail]>>[1] = table[alloc_tail]
    BY <1>4
  <2> DEFINE c == <<table[alloc_tail]>> \o InRing'
  <2>2. c \in Seq(Ids) /\ Len(c) = Len(InRing)
    BY <1>5, <2>1, ConcatProperties
  <2>3. ASSUME NEW i \in 1 .. Len(InRing) PROVE InRing[i] = c[i]
    <3>1. c[i] = IF i <= 1 THEN <<table[alloc_tail]>>[i] ELSE InRing'[i - 1]
      BY <1>5, <2>1, ConcatProperties
    <3>2. CASE i = 1
      BY <1>6, <2>1, <3>1, <3>2
    <3>3. CASE i # 1
      <4>1. i - 1 \in 1 .. Len(InRing') /\ (i - 1) + 1 = i /\ ~(i <= 1)
        BY <1>5, <3>3
      <4> QED
        BY <1>7, <3>1, <4>1
    <3> QED
      BY <3>2, <3>3
  <2> HIDE DEF c
  <2>4. InRing = c
    BY <1>5, <2>2, <2>3, SeqEqual
  <2> QED
    BY <2>4 DEF c
<1>9. /\ Waiting = (queue \o <<>>) \o InRing
      /\ Waiting' = (queue \o <<table[alloc_tail]>>) \o InRing'
      /\ queue \in Seq(Ids) /\ <<table[alloc_tail]>> \in Seq(Ids)
  BY <1>1, <1>2, <1>4 DEF WaitingParts
<1>10. queue \o <<>> = queue
  BY <1>9, ConcatEmptySeq
<1>11. (queue \o <<table[alloc_tail]>>) \o InRing' = queue \o (<<table[alloc_tail]>> \o InRing')
  BY <1>5, <1>9, Assoc
<1> QED
  BY <1>8, <1>9, <1>10, <1>11

(* ... and from there to the task, and the task takes the oldest. *)
LEMMA WaitingInterrupt ==
  ASSUME Inv, Inv', RxInterrupt
  PROVE  Waiting' = Waiting
<1>1. /\ queue' = Append(queue, sw_pop_id) /\ alloc_valid /\ ~alloc_valid'
      /\ UNCHANGED <<table, alloc_head, alloc_tail>>
  BY QueueHasRoom DEF RxInterrupt, ring, pointers
<1>2. /\ WaitingParts /\ WaitingParts' /\ UNCHANGED InRing
      /\ AtCpu = <<sw_pop_id>> /\ AtCpu' = <<>>
  BY <1>1, WaitingBoth DEF AtCpu, InRing
<1>3. /\ queue \in Seq(Ids) /\ queue' \in Seq(Ids) /\ sw_pop_id \in Ids
      /\ Waiting = (queue \o <<sw_pop_id>>) \o InRing
      /\ Waiting' = (queue' \o <<>>) \o InRing
  BY <1>1, <1>2 DEF WaitingParts, Inv, TypeOK
<1>4. queue' \o <<>> = queue' /\ queue' = queue \o <<sw_pop_id>>
  BY <1>1, <1>3, ConcatEmptySeq, AppendIsConcat
<1> QED
  BY <1>3, <1>4

LEMMA WaitingReceive ==
  ASSUME Inv, Inv', ReceivePacket
  PROVE  /\ Waiting # <<>> /\ Head(Waiting) = Head(queue)
         /\ Waiting' = Tail(Waiting)
<1>1. /\ queue # <<>> /\ queue' = Tail(queue)
      /\ UNCHANGED <<table, alloc_head, alloc_tail, alloc_valid, sw_pop_id>>
  BY DEF ReceivePacket, ring, pointers, cpu_regs
<1>2. /\ WaitingParts /\ WaitingParts' /\ UNCHANGED <<InRing, AtCpu>>
  BY <1>1, WaitingBoth DEF AtCpu, InRing
<1> DEFINE rest == AtCpu \o InRing
<1>3. /\ queue \in Seq(Ids) /\ queue' \in Seq(Ids) /\ rest \in Seq(Ids)
      /\ Waiting = queue \o rest /\ Waiting' = queue' \o rest
  <2>1. /\ queue \in Seq(Ids) /\ queue' \in Seq(Ids) /\ AtCpu \in Seq(Ids)
        /\ InRing \in Seq(Ids) /\ rest \in Seq(Ids)
        /\ Waiting = (queue \o AtCpu) \o InRing /\ Waiting' = (queue' \o AtCpu) \o InRing
    BY <1>2, ConcatProperties DEF WaitingParts
  <2>2. (queue \o AtCpu) \o InRing = queue \o (AtCpu \o InRing)
    BY <2>1, Assoc
  <2>3. (queue' \o AtCpu) \o InRing = queue' \o (AtCpu \o InRing)
    BY <2>1, Assoc
  <2> QED
    BY <2>1, <2>2, <2>3
<1> HIDE DEF rest
<1>4. /\ Len(queue) \in Nat /\ Len(queue) >= 1 /\ Len(rest) \in Nat
      /\ Len(queue') = Len(queue) - 1 /\ Head(queue) = queue[1]
      /\ \A i \in 1 .. Len(queue') : queue'[i] = queue[i + 1]
  BY <1>1, <1>3, LenProperties, HeadTailProperties
<1>5. /\ Waiting \in Seq(Ids) /\ Len(Waiting) = Len(queue) + Len(rest)
      /\ \A i \in 1 .. Len(Waiting) :
           Waiting[i] = IF i <= Len(queue) THEN queue[i] ELSE rest[i - Len(queue)]
      /\ Waiting' \in Seq(Ids) /\ Len(Waiting') = Len(queue') + Len(rest)
      /\ \A i \in 1 .. Len(Waiting') :
           Waiting'[i] = IF i <= Len(queue') THEN queue'[i] ELSE rest[i - Len(queue')]
  BY <1>3, Concat
<1>6. Waiting # <<>> /\ Head(Waiting) = Head(queue)
  BY <1>4, <1>5, HeadTailProperties
<1>7. /\ Tail(Waiting) \in Seq(Ids) /\ Len(Tail(Waiting)) = Len(Waiting) - 1
      /\ \A i \in 1 .. Len(Tail(Waiting)) : Tail(Waiting)[i] = Waiting[i + 1]
  BY <1>5, <1>6, HeadTailProperties
<1>8. ASSUME NEW i \in 1 .. Len(Waiting')
      PROVE  Waiting'[i] = Tail(Waiting)[i]
  <2>1. i \in 1 .. Len(Tail(Waiting)) /\ i + 1 \in 1 .. Len(Waiting)
    BY <1>4, <1>5, <1>7
  <2>2. Tail(Waiting)[i] = IF i + 1 <= Len(queue) THEN queue[i + 1] ELSE rest[i + 1 - Len(queue)]
    BY <1>5, <1>7, <2>1
  <2>3. CASE i <= Len(queue')
    <3>1. i \in 1 .. Len(queue') /\ i + 1 <= Len(queue)
      BY <1>4, <2>1, <2>3
    <3> QED
      BY <1>4, <1>5, <2>2, <2>3, <3>1
  <2>4. CASE ~(i <= Len(queue'))
    <3>1. ~(i + 1 <= Len(queue)) /\ i + 1 - Len(queue) = i - Len(queue')
      BY <1>4, <2>1, <2>4
    <3> QED
      BY <1>5, <2>2, <2>4, <3>1
  <2> QED
    BY <2>3, <2>4
<1>9. Waiting' = Tail(Waiting)
  BY <1>4, <1>5, <1>7, <1>8, SeqEqual
<1> QED
  BY <1>6, <1>9

(* A step of the receive path is one step round the cycle or moves nothing. *)
LEMMA CycleInit == Inv /\ Init => Cycle!Init
<1> SUFFICES ASSUME Inv, Init
             PROVE  Cycle!Init
  OBVIOUS
<1>1. \A b \in Ids : In("driver", b)
  BY KindDef, SizeFacts DEF Init, Ids
<1>2. \A b \in Ids : PlaceOf(b) = "driver"
  BY <1>1, PlaceIs, PlaceAtFacts DEF Inv, Kinds
<1>3. WaitingParts /\ AtCpu = <<>> /\ queue = <<>> /\ Len(InRing) = 0
  BY InvWaiting, SizeFacts DEF WaitingParts, Init, AtCpu, Off
<1>4. InRing \in Seq(Ids) /\ InRing = <<>>
  BY <1>3, EmptySeq DEF WaitingParts
<1>5. Waiting = <<>>
  BY <1>3, <1>4 DEF WaitingParts
<1> QED
  BY <1>2, <1>5 DEF Cycle!Init

LEMMA CycleStep ==
  Inv /\ PbufsConserved /\ Inv' /\ [Next]_vars => [Cycle!Next]_(Cycle!vars)
<1> SUFFICES ASSUME Inv, PbufsConserved, Inv', [Next]_vars
             PROVE  [Cycle!Next]_(Cycle!vars)
  OBVIOUS
<1>1. OneKind /\ OneKind' /\ TypeOK /\ pbufs' \in 0 .. Pbufs /\ freeing' \in 0 .. Freers
  BY PbufsNext DEF Inv
<1>2. ASSUME places' = places, Waiting' = Waiting
      PROVE  [Cycle!Next]_(Cycle!vars)
  BY <1>2 DEF Cycle!vars, places
<1>3. CASE Insert
  BY <1>1, <1>2, <1>3, InsertKeeps, PlaceStays, PlaceAtFacts, WaitingInsert DEF TypeOK, Kinds
<1>4. CASE PopUsed
  <2>1. table[alloc_tail] \in Ids
    BY <1>1 DEF TypeOK
  <2> QED
    BY <1>1, <1>2, <1>4, <2>1, PopUsedKeeps, PlaceStays, PlaceAtFacts, WaitingPop DEF Kinds
<1>5. CASE RxInterrupt
  BY <1>1, <1>2, <1>5, RxInterruptKeeps, PlaceStays, PlaceAtFacts, WaitingInterrupt
     DEF TypeOK, Kinds
<1>6. CASE PushUsed
  <2>1. block_id \in Ids
    BY <1>1 DEF TypeOK
  <2>2. places[block_id] = "filter" /\ places' = [places EXCEPT ![block_id] = "received"]
    BY <1>1, <1>6, <2>1, PushUsedKeeps, PlaceMoves, PlaceAtFacts DEF Kinds
  <2>3. Waiting' = Append(Waiting, block_id)
    BY <1>6, WaitingPush
  <2>4. Cycle!Receive(block_id)
    BY <2>2, <2>3 DEF Cycle!Receive, Cycle!Move, places
  <2> QED
    BY <2>1, <2>4 DEF Cycle!Next
<1>7. CASE Allocate
  <2>1. Waiting' = Waiting
    BY <1>7, WaitingSame DEF Allocate, cpu_regs
  <2>2. CASE free_tail = free_head
    BY <1>1, <1>2, <1>7, <2>1, <2>2, AllocateKeeps, PlacesStay
  <2>3. CASE free_tail # free_head
    <3> DEFINE b == table[free_tail]
    <3>1. b \in Ids /\ filter = "get_block" /\ ~Holds
      BY <1>1, <1>7 DEF TypeOK, Allocate, Holds, Inv, StateInv
    <3>2. Moved(b, "free", "filter")
      BY <1>7, <2>3, AllocateKeeps
    <3> HIDE DEF b
    <3>3. places[b] = "free" /\ places' = [places EXCEPT ![b] = "filter"]
      BY <1>1, <3>1, <3>2, PlaceMoves, PlaceAtFacts DEF Kinds
    <3>4. ASSUME NEW c \in Ids PROVE places[c] # "filter"
      <4>1. ~In("filter", c)
        BY <3>1, KindDef
      <4>2. PICK k \in Kinds : In(k, c)
        BY <1>1 DEF OneKind
      <4>3. PlaceOf(c) = PlaceAt[k] /\ k # "filter"
        BY <1>1, <4>1, <4>2, PlaceIs
      <4> QED
        BY <4>3, PlaceAtFacts DEF places, Kinds
    <3>5. Cycle!Take(b)
      BY <2>1, <3>3, <3>4 DEF Cycle!Take, Cycle!Move, places
    <3> QED
      BY <3>1, <3>5 DEF Cycle!Next
  <2> QED
    BY <2>2, <2>3
<1>8. CASE Wire
  <2>1. UNCHANGED <<queue, alloc_valid, sw_pop_id, table, alloc_head, alloc_tail>>
    BY <1>8 DEF Wire, PacketBegins, PacketEnds, ring, pointers, cpu_regs
  <2> QED
    BY <1>1, <1>2, <1>8, <2>1, WaitingSame, WireKeeps, PlacesStay
<1>9. ASSUME NEW b \in Ids, NEW from \in {"driver", "task", "stack"}, Moved(b, from, "put"),
             UNCHANGED <<queue, alloc_valid, sw_pop_id, table, alloc_head, alloc_tail>>
      PROVE  [Cycle!Next]_(Cycle!vars)
  <2>1. Waiting' = Waiting
    BY <1>9, WaitingSame
  <2>2. places[b] = PlaceAt[from] /\ places' = [places EXCEPT ![b] = "free"]
    BY <1>1, <1>9, PlaceMoves, PlaceAtFacts DEF Kinds
  <2>3. PlaceAt[from] \in {"driver", "offered", "stack"}
    BY <1>9, PlaceAtFacts
  <2>4. Cycle!Release(b, PlaceAt[from])
    BY <2>1, <2>2 DEF Cycle!Release, Cycle!Move, places
  <2> QED
    BY <2>3, <2>4 DEF Cycle!Next
<1>10. CASE Start
  <2>1. UNCHANGED <<queue, alloc_valid, sw_pop_id, table, alloc_head, alloc_tail>>
    BY <1>10 DEF Start, FreePut, ring, pointers, cpu_regs
  <2>2. CASE n < Buffers
    <3>1. n \in Ids
      BY <1>1, <2>2, SizeFacts DEF TypeOK, Ids
    <3> QED
      BY <1>9, <1>10, <2>1, <2>2, <3>1, StartKeeps
  <2>3. CASE ~(n < Buffers)
    BY <1>1, <1>2, <1>10, <2>1, <2>3, StartKeeps, WaitingSame, PlacesStay
  <2> QED
    BY <2>2, <2>3
<1>11. CASE ReceivePacket
  <2> DEFINE b == Head(queue)
  <2>1. b \in Ids
    BY <1>1, <1>11 DEF TypeOK, ReceivePacket
  <2>2. Moved(b, "queue", "task")
    BY <1>11, ReceiveKeeps
  <2>3. Waiting # <<>> /\ Head(Waiting) = b /\ Waiting' = Tail(Waiting)
    BY <1>11, WaitingReceive
  <2> HIDE DEF b
  <2>4. places[b] = "received" /\ places' = [places EXCEPT ![b] = "offered"]
    BY <1>1, <2>1, <2>2, PlaceMoves, PlaceAtFacts DEF Kinds
  <2>5. Cycle!Offer
    BY <2>3, <2>4 DEF Cycle!Offer, Cycle!Move, places
  <2> QED
    BY <2>5 DEF Cycle!Next
<1>12. CASE \E a \in BOOLEAN : Offer(a)
  <2>1. PICK a \in BOOLEAN : Offer(a)
    BY <1>12
  <2>2. /\ UNCHANGED <<queue, alloc_valid, sw_pop_id, table, alloc_head, alloc_tail>>
        /\ pc = "offer"
    BY <2>1 DEF Offer, ring, pointers, cpu_regs
  <2>3. Waiting' = Waiting
    BY <2>2, WaitingSame
  <2>4. IF a THEN Moved(pkt, "task", "stack") ELSE Stays
    BY <1>1, <2>1, OfferKeeps
  <2>5. CASE ~a
    BY <1>1, <1>2, <2>3, <2>4, <2>5, PlacesStay
  <2>6. CASE a
    <3>1. pkt \in Ids
      BY <1>1, <2>2 DEF TypeOK, Inv, StateInv
    <3>2. places[pkt] = "offered" /\ places' = [places EXCEPT ![pkt] = "stack"]
      BY <1>1, <2>4, <2>6, <3>1, PlaceMoves, PlaceAtFacts DEF Kinds
    <3>3. Cycle!Accept(pkt)
      BY <2>3, <3>2 DEF Cycle!Accept, Cycle!Move, places
    <3> QED
      BY <3>1, <3>3 DEF Cycle!Next
  <2> QED
    BY <2>5, <2>6
<1>13. CASE Reject
  <2>1. UNCHANGED <<queue, alloc_valid, sw_pop_id, table, alloc_head, alloc_tail>>
    BY <1>13 DEF Reject, FreePut, ring, pointers
  <2>2. pkt \in Ids
    BY <1>1, <1>13 DEF TypeOK, Inv, StateInv, Reject
  <2> QED
    BY <1>9, <1>13, <2>1, <2>2, RejectKeeps
<1>14. CASE \E b \in Ids : FreeBuffer(b)
  <2>1. PICK b \in Ids : FreeBuffer(b)
    BY <1>14
  <2>2. UNCHANGED <<queue, alloc_valid, sw_pop_id, table, alloc_head, alloc_tail>>
    BY <2>1 DEF FreeBuffer, FreePut, ring, pointers
  <2> QED
    BY <1>9, <2>1, <2>2, FreeBufferKeeps
<1>15. CASE Input \/ PollLink \/ FreePbuf \/ UNCHANGED vars
  <2>1. /\ UNCHANGED <<ring, cpu_regs, receiver, queue, n, pkt, stack>>
        /\ pc' \in {"start", "loop", "input", "offer", "reject"}
        /\ pc' = pc \/ (pc # "start" /\ pc' # "start")
        /\ pc' \in {"start", "loop"} <=> pc \in {"start", "loop"}
        /\ link_up' \in BOOLEAN
    <3>1. CASE Input
      BY <1>1, <3>1 DEF Input, TypeOK, Inv, StateInv
    <3>2. CASE PollLink
      BY <1>1, <3>2 DEF PollLink, TypeOK, Inv, StateInv, lwip
    <3>3. CASE FreePbuf \/ UNCHANGED vars
      BY <1>1, <3>3 DEF FreePbuf, vars, task, lwip, TypeOK, Inv, StateInv
    <3> QED
      BY <1>15, <3>1, <3>2, <3>3
  <2>2. Stays
    BY <1>1, <2>1, NothingMovesKeeps
  <2>3. Waiting' = Waiting
    BY <2>1, WaitingSame DEF ring, pointers, cpu_regs
  <2> QED
    BY <1>1, <1>2, <2>2, <2>3, PlacesStay
<1> QED
  BY <1>3, <1>4, <1>5, <1>6, <1>7, <1>8, <1>10, <1>11, <1>12, <1>13, <1>14, <1>15
     DEF Next, Hardware, Task, Stack

(****************************************************************************)
(* What is proved                                                           *)
(****************************************************************************)
(* The registers, pointers and counters stay in their ranges; in particular *)
(* the fifo of pbufs never holds more than its size.                        *)
THEOREM TypeCorrect == Spec => []TypeOK
<1>1. Inv => TypeOK
  BY DEF Inv
<1>2. QED
  BY <1>1, Always, PTL

(* For any number of buffers and any ring with a slot more than buffers and *)
(* a queue as long, every buffer is at one place: the pointers of the       *)
(* shared ring never run into each other, and none is ever lost.            *)
THEOREM BuffersConserved == Spec => []Conservation
<1>1. Inv => Conservation
  BY DEF Inv, OneKind, DistinctInv, Conservation
<1>2. QED
  BY <1>1, Always, PTL

(* No pbuf is lost or returned twice. *)
THEOREM PbufsAreConserved == Spec => []PbufsConserved
  BY Always, PTL

(* The ring, the interrupt routine, the task and the stack implement        *)
(* BufferCycle for any number of buffers: each goes round in one direction, *)
(* one at a time is being filled, and the packets reach the task in the     *)
(* order of the wire.                                                       *)
THEOREM ReceivePathImplementsCycle == Spec => ImplementsCycle
<1>1. Init => Inv
  BY InitInv
<1>2. Inv /\ Init => Cycle!Init
  BY CycleInit
<1>3. Inv /\ PbufsConserved /\ Inv' /\ [Next]_vars => [Cycle!Next]_(Cycle!vars)
  BY CycleStep
<1>4. QED
  BY <1>1, <1>2, <1>3, Always, PTL DEF Spec, ImplementsCycle, Cycle!Spec
=============================================================================
