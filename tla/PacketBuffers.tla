---------------------------- MODULE PacketBuffers ----------------------------
(****************************************************************************)
(* The packet buffers of the Ethernet receiver and their way round: from    *)
(* the queue of free buffers (free_queue.vhd) to the receive filter         *)
(* (eth_filter.vhd), through the same queue to the interrupt routine and    *)
(* the task of the driver (rmii_interface.cc), into the network stack       *)
(* (network_lwip.cc) and back.                                              *)
(*                                                                          *)
(* Free buffers and received packets share one ring with four pointers.     *)
(* The hardware steps between two accesses of the CPU, the interrupt        *)
(* routine runs between two steps of a task.                                *)
(****************************************************************************)
EXTENDS Integers, Sequences, FiniteSets

CONSTANTS
  Buffers,      \* number of buffers (64)
  Size,         \* entries of the ring (256)
  QueueLen,     \* entries of the queue of packets (128)
  Pbufs,        \* pbufs of the network stack (PBUF_FIFO_SIZE - 1)
  Freers        \* threads of the stack that may free packets at the same time

Ids == 0 .. Buffers - 1
None == -1
Slots == 0 .. Size - 1

ASSUME BufferAssumption ==
  /\ Buffers \in Nat \ {0} /\ Size \in Nat /\ QueueLen \in Nat
  /\ Buffers < Size /\ Buffers <= QueueLen
  /\ Pbufs \in Nat /\ Freers \in Nat \ {0}

VARIABLES
  table,                                          \* the shared memory
  free_head, free_tail, alloc_head, alloc_tail,   \* its four pointers
  sw_insert, sw_id,          \* a buffer the CPU has put, not yet in the ring
  alloc_valid, sw_pop_id,    \* the packet offered to the CPU, with interrupt
  filter,                    \* state of the receive filter
  rx_enable,                 \* RMII_RX_ENABLE
  address_valid, block_id,   \* the buffer the filter holds
  queue,                     \* packets from the interrupt routine to the task
  pc, n, pkt,                \* the task: next step, loop counter, packet
  link_up,
  stack,                     \* buffers the network stack holds
  pbufs,                     \* pbufs in pbuf_fifo
  freeing                    \* pbufs in the hands of lwip_free_callback

pointers == <<free_head, free_tail, alloc_head, alloc_tail>>
ring == <<table, pointers>>
cpu_regs == <<sw_insert, sw_id, alloc_valid, sw_pop_id>>
receiver == <<filter, rx_enable, address_valid, block_id>>
task == <<pc, n, pkt, link_up>>
lwip == <<stack, pbufs, freeing>>
vars == <<ring, cpu_regs, receiver, queue, task, lwip>>

TypeOK ==
  /\ table \in [Slots -> Ids]
  /\ free_head \in Slots /\ free_tail \in Slots
  /\ alloc_head \in Slots /\ alloc_tail \in Slots
  /\ sw_insert \in BOOLEAN /\ sw_id \in Ids
  /\ alloc_valid \in BOOLEAN /\ sw_pop_id \in Ids
  /\ filter \in {"idle", "get_block", "copy", "pushing"}
  /\ rx_enable \in BOOLEAN /\ address_valid \in BOOLEAN /\ block_id \in Ids
  /\ queue \in Seq(Ids)
  /\ pc \in {"start", "loop", "input", "offer", "reject"}
  /\ n \in 0 .. Buffers /\ pkt \in Ids \cup {None}
  /\ link_up \in BOOLEAN
  /\ stack \subseteq Ids
  /\ pbufs \in 0 .. Pbufs /\ freeing \in 0 .. Freers

Init ==
  /\ table = [s \in Slots |-> 0]
  /\ free_head = 0 /\ free_tail = 0 /\ alloc_head = 0 /\ alloc_tail = 0
  /\ sw_insert = FALSE /\ sw_id = 0
  /\ alloc_valid = FALSE /\ sw_pop_id = 0
  /\ filter = "idle" /\ rx_enable = FALSE /\ address_valid = FALSE /\ block_id = 0
  /\ queue = <<>>
  /\ pc = "start" /\ n = 0 /\ pkt = None /\ link_up = FALSE
  /\ stack = {} /\ pbufs = Pbufs /\ freeing = 0

(****************************************************************************)
(* The ring                                                                 *)
(****************************************************************************)
(* The pointers wrap around at the end of the memory. *)
After(s) == IF s = Size - 1 THEN 0 ELSE s + 1

(* The slots from one pointer up to another. *)
Between(from, to) ==
  {s \in Slots : IF from <= to THEN from <= s /\ s < to ELSE from <= s \/ s < to}

(* The CPU's buffer goes into the ring; this has priority in state idle. *)
Insert ==
  /\ sw_insert
  /\ table' = [table EXCEPT ![free_head] = sw_id]
  /\ free_head' = After(free_head)
  /\ sw_insert' = FALSE
  /\ UNCHANGED <<free_tail, alloc_head, alloc_tail, sw_id, alloc_valid, sw_pop_id>>
  /\ UNCHANGED <<receiver, queue, task, lwip>>

(* A complete packet goes to the slot its buffer came from. *)
PushUsed ==
  /\ filter = "pushing" /\ ~sw_insert
  /\ table' = [table EXCEPT ![alloc_head] = block_id]
  /\ alloc_head' = After(alloc_head)
  /\ filter' = "idle"
  /\ UNCHANGED <<free_head, free_tail, alloc_tail, cpu_regs>>
  /\ UNCHANGED <<rx_enable, address_valid, block_id, queue, task, lwip>>

(* The filter asks for a buffer; without one it drops the packet. *)
Allocate ==
  /\ filter = "get_block" /\ ~sw_insert
  /\ IF free_tail = free_head
     THEN filter' = "idle" /\ UNCHANGED <<free_tail, block_id, address_valid>>
     ELSE /\ block_id' = table[free_tail] /\ free_tail' = After(free_tail)
          /\ address_valid' = TRUE /\ filter' = "copy"
  /\ UNCHANGED <<table, free_head, alloc_head, alloc_tail, cpu_regs>>
  /\ UNCHANGED <<rx_enable, queue, task, lwip>>

(* The oldest packet falls through to the register of the CPU. *)
PopUsed ==
  /\ ~sw_insert /\ filter \notin {"pushing", "get_block"}
  /\ ~alloc_valid /\ alloc_tail # alloc_head
  /\ sw_pop_id' = table[alloc_tail] /\ alloc_valid' = TRUE
  /\ alloc_tail' = After(alloc_tail)
  /\ UNCHANGED <<table, free_head, free_tail, alloc_head, sw_insert, sw_id>>
  /\ UNCHANGED <<receiver, queue, task, lwip>>

(****************************************************************************)
(* The receive filter                                                       *)
(****************************************************************************)
(* A packet begins.  A buffer left over from a dropped packet is used again. *)
PacketBegins ==
  /\ filter = "idle" /\ rx_enable
  /\ filter' = IF address_valid THEN "copy" ELSE "get_block"
  /\ UNCHANGED <<ring, cpu_regs, rx_enable, address_valid, block_id, queue, task, lwip>>

(* Mutant: the buffer is given up when its packet is dropped. *)
PacketEndsForgetting(good) ==
  /\ filter = "copy"
  /\ filter' = IF good THEN "pushing" ELSE "idle"
  /\ address_valid' = FALSE
  /\ UNCHANGED <<ring, cpu_regs, rx_enable, block_id, queue, task, lwip>>

(* It ends: good and for us, or dropped (overflow, bad CRC, another address). *)
PacketEnds(good) ==
  /\ filter = "copy"
  /\ filter' = IF good THEN "pushing" ELSE "idle"
  /\ address_valid' = IF good THEN FALSE ELSE address_valid
  /\ UNCHANGED <<ring, cpu_regs, rx_enable, block_id, queue, task, lwip>>

(****************************************************************************)
(* The driver                                                               *)
(****************************************************************************)
(* RMII_FREE_PUT.  The register holds one buffer; the CPU takes longer from *)
(* one put to the next than the ring to take the first.                     *)
FreePut(b) ==
  /\ ~sw_insert
  /\ sw_insert' = TRUE /\ sw_id' = b
  /\ UNCHANGED <<ring, alloc_valid, sw_pop_id, receiver>>

(* Mutant: the packet is put in front of those that wait. *)
RxInterruptToFront ==
  /\ alloc_valid /\ pc # "start"
  /\ queue' = IF Len(queue) < QueueLen THEN <<sw_pop_id>> \o queue ELSE queue
  /\ alloc_valid' = FALSE
  /\ UNCHANGED <<ring, sw_insert, sw_id, sw_pop_id, receiver, task, lwip>>

(* Interrupt: the packet goes to the queue, if it has room. *)
RxInterrupt ==
  /\ alloc_valid /\ pc # "start"
  /\ queue' = IF Len(queue) < QueueLen THEN Append(queue, sw_pop_id) ELSE queue
  /\ alloc_valid' = FALSE
  /\ UNCHANGED <<ring, sw_insert, sw_id, sw_pop_id, receiver, task, lwip>>

(* rmiiTask before its loop *)
Start ==
  /\ pc = "start"
  /\ IF n < Buffers
     THEN FreePut(n) /\ n' = n + 1 /\ UNCHANGED pc
     ELSE /\ rx_enable' = TRUE /\ pc' = "loop"
          /\ UNCHANGED <<ring, cpu_regs, filter, address_valid, block_id, n>>
  /\ UNCHANGED <<queue, pkt, link_up, lwip>>

(* The link comes up, or goes down when no packet came for a while. *)
PollLink ==
  /\ pc = "loop" /\ (link_up => queue = <<>>)
  /\ link_up' = ~link_up
  /\ UNCHANGED <<ring, cpu_regs, receiver, queue, pc, n, pkt, lwip>>

ReceivePacket ==
  /\ pc = "loop" /\ link_up /\ queue # <<>>
  /\ pkt' = Head(queue) /\ queue' = Tail(queue)
  /\ pc' = "input"
  /\ UNCHANGED <<ring, cpu_regs, receiver, n, link_up, lwip>>

(* Mutant: the pbuf is used without taking it out. *)
InputUncounted ==
  /\ pc = "input"
  /\ pc' = IF pbufs = 0 THEN "reject" ELSE "offer"
  /\ UNCHANGED <<ring, cpu_regs, receiver, queue, n, pkt, link_up, lwip>>

(* input_packet and NetworkLWIP::input: a pbuf for the packet *)
Input ==
  /\ pc = "input"
  /\ IF pbufs = 0
     THEN pc' = "reject" /\ UNCHANGED pbufs
     ELSE pc' = "offer" /\ pbufs' = pbufs - 1
  /\ UNCHANGED <<ring, cpu_regs, receiver, queue, n, pkt, link_up, stack, freeing>>

(* Mutant: the pbuf is not returned when the stack refuses the packet. *)
OfferKeeping(accepted) ==
  /\ pc = "offer"
  /\ IF accepted
     THEN /\ stack' = stack \cup {pkt} /\ pkt' = None /\ pc' = "loop"
          /\ UNCHANGED pbufs
     ELSE /\ pc' = "reject"
          /\ UNCHANGED <<stack, pkt, pbufs>>
  /\ UNCHANGED <<ring, cpu_regs, receiver, queue, n, link_up, freeing>>

(* my_net_if.input, which may have no room in the mailbox of its thread *)
Offer(accepted) ==
  /\ pc = "offer"
  /\ IF accepted
     THEN /\ stack' = stack \cup {pkt} /\ pkt' = None /\ pc' = "loop"
          /\ UNCHANGED pbufs
     ELSE /\ pbufs' = pbufs + 1 /\ pc' = "reject"
          /\ UNCHANGED <<stack, pkt>>
  /\ UNCHANGED <<ring, cpu_regs, receiver, queue, n, link_up, freeing>>

(* Mutant: the driver leaves a refused buffer to the stack. *)
RejectNothing ==
  /\ pc = "reject"
  /\ pkt' = None /\ pc' = "loop"
  /\ UNCHANGED <<ring, cpu_regs, receiver, queue, n, link_up, lwip>>

Reject ==
  /\ pc = "reject"
  /\ FreePut(pkt)
  /\ pkt' = None /\ pc' = "loop"
  /\ UNCHANGED <<queue, n, link_up, lwip>>

(* lwip_free_callback: first the buffer, then the pbuf *)
FreeBuffer(b) ==
  /\ b \in stack /\ freeing < Freers
  /\ FreePut(b)
  /\ stack' = stack \ {b} /\ freeing' = freeing + 1
  /\ UNCHANGED <<queue, task, pbufs>>

FreePbuf ==
  /\ freeing > 0
  /\ freeing' = freeing - 1 /\ pbufs' = pbufs + 1
  /\ UNCHANGED <<ring, cpu_regs, receiver, queue, task, stack>>

Hardware == Insert \/ PushUsed \/ Allocate \/ PopUsed
Wire == PacketBegins \/ \E good \in BOOLEAN : PacketEnds(good)
Task == Start \/ ReceivePacket \/ Input \/ (\E a \in BOOLEAN : Offer(a)) \/ Reject
Stack == (\E b \in Ids : FreeBuffer(b)) \/ FreePbuf

Next == Hardware \/ Wire \/ RxInterrupt \/ Task \/ PollLink \/ Stack

Spec == Init /\ [][Next]_vars

(* The hardware is clocked, and steps of higher priority do not come in every *)
(* clock (a packet takes hundreds of them); the interrupt is level triggered; *)
(* the task waits for its queue only; the stack frees every packet some time. *)
(* Nothing is assumed of the wire and of the link.                            *)
FairSpec ==
  /\ Spec
  /\ WF_vars(Insert) /\ WF_vars(PushUsed) /\ WF_vars(Allocate) /\ SF_vars(PopUsed)
  /\ WF_vars(RxInterrupt) /\ WF_vars(Task) /\ WF_vars(FreePbuf)
  /\ \A b \in Ids : WF_vars(FreeBuffer(b))

(****************************************************************************)
(* Properties                                                               *)
(****************************************************************************)
FreeSlots == Between(free_tail, free_head)
UsedSlots == Between(alloc_tail, alloc_head)

(* The kinds of places, and whether buffer b is at one of a kind. *)
Kinds == {"driver", "put", "free", "filter", "used", "popped", "queue", "task", "stack"}

In(k, b) ==
  CASE k = "driver" -> pc = "start" /\ b >= n
    [] k = "put"    -> sw_insert /\ sw_id = b
    [] k = "free"   -> \E s \in FreeSlots : table[s] = b
    [] k = "filter" -> (address_valid \/ filter = "pushing") /\ block_id = b
    [] k = "used"   -> \E s \in UsedSlots : table[s] = b
    [] k = "popped" -> alloc_valid /\ sw_pop_id = b
    [] k = "queue"  -> \E i \in DOMAIN queue : queue[i] = b
    [] k = "task"   -> pkt = b
    [] k = "stack"  -> b \in stack

Distinct(S) == \A s, t \in S : table[s] = table[t] => s = t

(* Every buffer is at one place: none is lost, none is in circulation twice, *)
(* so that the hardware never writes into a packet that is still read.  It   *)
(* is what the note in free_queue.vhd about the shared memory needs.         *)
Conservation ==
  /\ \A b \in Ids : \E k \in Kinds : In(k, b) /\ \A l \in Kinds : In(l, b) => l = k
  /\ Distinct(FreeSlots) /\ Distinct(UsedSlots)
  /\ \A i, j \in DOMAIN queue : queue[i] = queue[j] => i = j

(* No pbuf is lost: it is in the fifo, with the task, in the stack or on its *)
(* way back.  Else the receiver would refuse every packet some day.          *)
PbufsConserved ==
  pbufs + freeing + Cardinality(stack) + (IF pc = "offer" THEN 1 ELSE 0) = Pbufs

(* The packets nobody has looked at, oldest first. *)
Waiting ==
  LET length == IF alloc_tail <= alloc_head THEN alloc_head - alloc_tail
                ELSE alloc_head + Size - alloc_tail
  IN  queue \o (IF alloc_valid THEN <<sw_pop_id>> ELSE <<>>)
            \o [i \in 1 .. length |-> table[(alloc_tail + i - 1) % Size]]

PlaceOf(b) ==
  CASE In("put", b) \/ In("free", b) -> "free"
    [] In("used", b) \/ In("popped", b) \/ In("queue", b) -> "received"
    [] In("task", b) -> "offered"
    [] OTHER -> IF \E k \in Kinds : In(k, b)
                THEN CHOOSE k \in Kinds : In(k, b) ELSE "lost"

Cycle == INSTANCE BufferCycle
  WITH place <- [b \in Ids |-> PlaceOf(b)], received <- Waiting

(* The ring, the interrupt routine, the task and the stack together do what  *)
(* BufferCycle promises: buffers go round, packets stay in order.            *)
ImplementsCycle == Cycle!Spec

(* While the link stays up the receiver gets a buffer again and again. *)
NeverStarved ==
  (<>[](link_up /\ pc # "start")) => []<>(address_valid \/ FreeSlots # {})
=============================================================================
