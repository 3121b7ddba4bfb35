-------------------------- MODULE CommandInterface --------------------------
(****************************************************************************)
(* The command interface as a system: a C64 program that works the slot     *)
(* registers, the interrupt service routine, the "UCI Server" task with its *)
(* queue (software/io/command_interface/command_intf.cc), and the command   *)
(* targets the task calls.                                                  *)
(*                                                                          *)
(* One step is one access to a shared register, together with the code on   *)
(* data that only the stepping party touches.  The C64 runs between any two *)
(* steps.  The routine interrupts the task: the task does not step while    *)
(* isr # "off".                                                             *)
(****************************************************************************)
EXTENDS CommandProtocol, Sequences

CONSTANTS
  Controls,     \* the values a C64 program writes to the control register
  Rules,        \* what the C64 program takes care of: "patient", "sized"
  DataLens,     \* lengths of a data message of a target
  StatLens,     \* lengths of a status message of a target
  MaxMore,      \* bound: further parts a target has after the first one
  QueueDepth    \* xQueueCreate(16, ...)

MaxTarget == 16                  \* CMD_IF_MAX_TARGET + 1
TargetOf(b) == b % MaxTarget     \* incoming_command.message[0] & CMD_IF_MAX_TARGET
Targets == {TargetOf(b) : b \in Commands \cup {NoByte}}
NoTarget == 255                  \* CMD_TARGET_NONE

ASSUME InterfaceAssumption ==
  /\ Controls \subseteq SUBSET ControlBits
  /\ Rules \subseteq {"patient", "sized"}
  /\ DataLens \subseteq Nat /\ DataLens # {}
  /\ StatLens \subseteq 0 .. ByteBase - 1 /\ StatLens # {}
  /\ MaxMore \in Nat
  /\ QueueDepth \in Nat /\ QueueDepth > 3

VARIABLES
  queue,       \* items the routine sent to the task: sets of flags
  isr,         \* "off", or "mask" between its read of the status byte and its write of the mask
  isr_status,  \* status_byte of the routine
  pc,          \* next register access of run_task or copy_result
  item,        \* flags of the received item whose block of run_task is not finished
  target,      \* CommandInterface::target
  length,      \* incoming_command.length, while it is put together
  reply,       \* *data and *status, with the command and the part they answer
  memory,      \* what response_buffer holds
  progress,    \* per target: the command it works on, parts given, parts left
  written,     \* history: the command the C64 has written and not pushed
  sent,        \* history: the command that is open, as the C64 sent it
  taken        \* history: parts of its reply that the C64 accepted

task == <<pc, item, target, length, reply, memory, progress>>
irq == <<queue, isr, isr_status>>
history == <<written, sent, taken>>
vars == <<registers, task, irq, history>>

Replies == [of : Commands \cup {NoByte}, part : Nat, last : BOOLEAN,
            dlen : DataLens \cup {0}, slen : 0 .. ByteBase - 1]
NoReply == [of |-> NoByte, part |-> 0, last |-> TRUE, dlen |-> 0, slen |-> 0]
NoContent == [of |-> NoByte, part |-> 0]
NoCommand == [open |-> FALSE, byte |-> NoByte, len |-> 0]
CommandRecords ==
  [open : BOOLEAN, byte : Commands \cup {NoByte}, len : 0 .. CmdEnd + 1]
Fresh == [of |-> NoByte, part |-> 0, left |-> 0]

AbortSteps  == {"abort", "abort_unmask"}
CopySteps   == {"copy_len_h", "copy_len_l", "copy_status", "copy_validate"}
NullSteps   == {"null_len_h", "null_len_l", "null_status", "null_accept", "null_validate"}
AcceptSteps == {"more", "accept_data", "accept_unmask"}
NewSteps    == {"length_l", "length_h", "accept_command", "new_unmask"} \cup NullSteps
Steps == {"receive"} \cup AbortSteps \cup CopySteps \cup AcceptSteps \cup NewSteps

TypeOK ==
  /\ ProtocolTypeOK
  /\ queue \in Seq(SUBSET Flags)
  /\ isr \in {"off", "mask"} /\ isr_status \in SUBSET Flags
  /\ pc \in Steps /\ item \in SUBSET Flags
  /\ target \in Targets \cup {NoTarget}
  /\ length \in Nat
  /\ reply \in Replies
  /\ memory \in [of : Commands \cup {NoByte}, part : Nat]
  /\ progress \in [Targets -> [of : Commands \cup {NoByte}, part : Nat, left : 0 .. MaxMore]]
  /\ written \in CommandRecords /\ sent \in CommandRecords
  /\ taken \in Nat

(* After the constructor: registers reset, the task waiting, all unmasked. *)
Init ==
  /\ state = "idle" /\ handshake_in = {} /\ error_busy = FALSE /\ freeze = FALSE
  /\ irq_mask = {}
  /\ command_pointer = 0 /\ command_byte = NoByte
  /\ response_pointer = 0 /\ response_length = [hi |-> 0, lo |-> 0]
  /\ status_pointer = 0 /\ status_length = 0
  /\ queue = <<>> /\ isr = "off" /\ isr_status = {}
  /\ pc = "receive" /\ item = {} /\ target = NoTarget /\ length = 0
  /\ reply = NoReply /\ memory = NoContent
  /\ progress = [t \in Targets |-> Fresh]
  /\ written = NoCommand /\ sent = NoCommand /\ taken = 0

(****************************************************************************)
(* The C64 program.  A patient program looks at the status register first:  *)
(* it writes commands and pushes only in the idle state, accepts only data, *)
(* and writes nothing while a flag of an earlier write is still set.  The   *)
(* commands of a program that minds their size have 1 to CmdEnd bytes.      *)
(****************************************************************************)
Patient == "patient" \in Rules
Sized   == "sized" \in Rules

May(bits) ==
  /\ Patient => /\ handshake_in = {}
                /\ "push" \in bits => bits \subseteq {"push", "freeze"} /\ state = "idle"
                /\ "accept" \in bits => bits = {"accept"} /\ IsData(state)
                /\ "abort" \in bits => bits = {"abort"}
  /\ Sized /\ "push" \in bits => command_pointer # 0

C64_WriteCommand(b) ==
  /\ ~freeze
  /\ Patient => state = "idle" /\ handshake_in = {}
  /\ Sized => written.len < CmdEnd
  /\ SlotWriteCommand(b)
  /\ written' = [open |-> TRUE,
                  byte |-> IF written.open THEN written.byte ELSE b,
                  len |-> IF written.len <= CmdEnd THEN written.len + 1 ELSE written.len]
  /\ UNCHANGED <<task, irq, sent, taken>>

C64_WriteControl(bits) ==
  /\ ~freeze
  /\ May(bits)
  /\ SlotWriteControl(bits)
  /\ CASE "push" \in bits /\ state = "idle" ->
            /\ sent' = [open |-> TRUE, byte |-> written.byte, len |-> written.len]
            /\ written' = NoCommand /\ taken' = 0
       [] "accept" \in bits /\ state = "more" ->
            /\ taken' = IF taken <= MaxMore THEN taken + 1 ELSE taken
            /\ UNCHANGED <<written, sent>>
       [] "accept" \in bits /\ state = "last" ->
            sent' = NoCommand /\ taken' = 0 /\ UNCHANGED written
       [] OTHER -> UNCHANGED history
  /\ UNCHANGED <<task, irq>>

C64_ReadResponse == ~freeze /\ SlotReadResponse /\ UNCHANGED <<task, irq, history>>
C64_ReadStatus   == ~freeze /\ SlotReadStatus /\ UNCHANGED <<task, irq, history>>

C64 ==
  \/ \E b \in Commands : C64_WriteCommand(b)
  \/ \E bits \in Controls : C64_WriteControl(bits)
  \/ C64_ReadResponse
  \/ C64_ReadStatus

(****************************************************************************)
(* command_interface_irq                                                    *)
(****************************************************************************)
ISR_ReadStatus ==
  /\ isr = "off" /\ io_irq
  /\ isr_status' = handshake_in
  /\ isr' = "mask"
  /\ UNCHANGED <<registers, task, queue, history>>

(* Mutant: flags that are masked already are sent once more. *)
ISR_MaskAndSendAll ==
  /\ isr = "mask"
  /\ IrqMaskSet(isr_status)
  /\ queue' = IF Len(queue) < QueueDepth THEN Append(queue, isr_status) ELSE queue
  /\ isr' = "off" /\ isr_status' = {}
  /\ UNCHANGED <<task, history>>

(* Mutant: the flags are sent and not masked. *)
ISR_SendOnly ==
  /\ isr = "mask"
  /\ queue' = IF Len(queue) < QueueDepth THEN Append(queue, isr_status) ELSE queue
  /\ isr' = "off" /\ isr_status' = {}
  /\ UNCHANGED <<registers, task, history>>

(* The mask is read and set, and what was not masked goes to the queue. *)
(* xQueueSendFromISR drops the item when the queue is full.             *)
ISR_MaskAndSend ==
  /\ isr = "mask"
  /\ IrqMaskSet(isr_status)
  /\ queue' = IF Len(queue) < QueueDepth THEN Append(queue, isr_status \ irq_mask)
                                         ELSE queue
  /\ isr' = "off" /\ isr_status' = {}
  /\ UNCHANGED <<task, history>>

ISR == ISR_ReadStatus \/ ISR_MaskAndSend

(****************************************************************************)
(* The targets.  They run inside the task and share nothing with the C64    *)
(* but the command buffer.                                                  *)
(****************************************************************************)
(* Mutant: the end is noticed by an empty part only (no remaining == 0). *)
PartShortRead(p, d, s) ==
  [of |-> p.of, part |-> p.part, last |-> p.left = 0 /\ d = 0, dlen |-> d, slen |-> s]

Part(p, d, s) == [of |-> p.of, part |-> p.part, last |-> p.left = 0, dlen |-> d, slen |-> s]

parse_command(t, b, n, d, s) ==
  LET p == [of |-> b, part |-> 0, left |-> n]
  IN  progress' = [progress EXCEPT ![t] = p] /\ reply' = Part(p, d, s)

get_more_data(t, d, s) ==
  LET q == progress[t]
      p == [of |-> q.of, part |-> q.part + 1, left |-> q.left - 1]
  IN  IF q.left = 0
      THEN reply' = [NoReply EXCEPT !.slen = s] /\ UNCHANGED progress
      ELSE progress' = [progress EXCEPT ![t] = p] /\ reply' = Part(p, d, s)

abort(t) == progress' = [progress EXCEPT ![t].left = 0]

(****************************************************************************)
(* run_task and copy_result                                                 *)
(****************************************************************************)
(* The first step of the first block of run_task that the flags fs select. *)
BlockFor(fs) ==
  CASE "ABORT" \in fs    -> "abort"
    [] "ACCEPTED" \in fs -> IF target = NoTarget THEN "accept_data" ELSE "more"
    [] "NEW" \in fs      -> "length_l"
    [] OTHER             -> "receive"

Task(from) == isr = "off" /\ pc = from /\ UNCHANGED irq

Receive ==
  /\ isr = "off" /\ pc = "receive" /\ queue # <<>>
  /\ item' = Head(queue) /\ queue' = Tail(queue)
  /\ pc' = BlockFor(Head(queue))
  /\ UNCHANGED <<registers, target, length, reply, memory, progress, isr, isr_status, history>>

(* Mutant: the block ends without IRQMASK_CLEAR. *)
KeepMasked(from, f) ==
  /\ Task(from)
  /\ item' = item \ {f}
  /\ pc' = BlockFor(item \ {f})
  /\ UNCHANGED <<registers, target, length, reply, memory, progress, history>>

(* IRQMASK_CLEAR, the last access of each block. *)
Unmask(from, f) ==
  /\ Task(from)
  /\ IrqMaskClear({f})
  /\ item' = item \ {f}
  /\ pc' = BlockFor(item \ {f})
  /\ UNCHANGED <<target, length, reply, memory, progress, history>>

Abort ==
  /\ Task("abort")
  /\ IF target # NoTarget THEN abort(target) ELSE UNCHANGED progress
  /\ HandshakeReset
  /\ written' = NoCommand /\ sent' = NoCommand /\ taken' = 0
  /\ pc' = "abort_unmask"
  /\ UNCHANGED <<item, target, length, reply, memory>>

AbortUnmask == Unmask("abort_unmask", "ABORT")

(* get_more_data, and the start of copy_result *)
More ==
  /\ Task("more")
  /\ \E d \in DataLens, s \in StatLens : get_more_data(target, d, s)
  /\ pc' = "copy_len_h"
  /\ UNCHANGED <<registers, item, target, length, memory, history>>

AcceptData ==
  /\ Task("accept_data")
  /\ AcceptFlag("ACCEPTED")
  /\ pc' = "accept_unmask"
  /\ UNCHANGED <<item, target, length, reply, memory, progress, history>>

AcceptUnmask == Unmask("accept_unmask", "ACCEPTED")

LengthL ==
  /\ Task("length_l")
  /\ length' = command_pointer % ByteBase
  /\ pc' = "length_h"
  /\ UNCHANGED <<registers, item, target, reply, memory, progress, history>>

(* The high byte completes the length; without a command byte the command *)
(* is a null command, else the target of its first byte parses it.        *)
LengthH ==
  LET n == length + (command_pointer \div ByteBase) * ByteBase
  IN  /\ Task("length_h")
      /\ length' = n
      /\ IF n = 0
         THEN /\ pc' = "null_len_h"
              /\ UNCHANGED <<target, reply, progress>>
         ELSE /\ target' = TargetOf(command_byte)
              /\ \E m \in 0 .. MaxMore, d \in DataLens, s \in StatLens :
                    parse_command(TargetOf(command_byte), command_byte, m, d, s)
              /\ pc' = "accept_command"
      /\ UNCHANGED <<registers, item, memory, history>>

AcceptCommand ==
  /\ Task("accept_command")
  /\ AcceptFlag("NEW")
  /\ pc' = "copy_len_h"
  /\ UNCHANGED <<item, target, length, reply, memory, progress, history>>

NewUnmask == Unmask("new_unmask", "NEW")

(* copy_result: both memcpy's, the lengths, then the data is validated. *)
CopyLenH ==
  /\ Task("copy_len_h")
  /\ memory' = [of |-> reply.of, part |-> reply.part]
  /\ WriteResponseLenH(reply.dlen \div ByteBase)
  /\ pc' = "copy_len_l"
  /\ UNCHANGED <<item, target, length, reply, progress, history>>

CopyLenL ==
  /\ Task("copy_len_l")
  /\ WriteResponseLenL(reply.dlen % ByteBase)
  /\ pc' = "copy_status"
  /\ UNCHANGED <<item, target, length, reply, memory, progress, history>>

CopyStatus ==
  /\ Task("copy_status")
  /\ WriteStatusLength(reply.slen)
  /\ pc' = "copy_validate"
  /\ UNCHANGED <<item, target, length, reply, memory, progress, history>>

(* Mutant: the target is forgotten after every part. *)
CopyValidateForget ==
  /\ Task("copy_validate")
  /\ Validate(reply.last)
  /\ target' = NoTarget
  /\ pc' = IF "ACCEPTED" \in item THEN "accept_data" ELSE "new_unmask"
  /\ UNCHANGED <<item, length, reply, memory, progress, history>>

(* Mutant: the target is kept after the last part. *)
CopyValidateKeep ==
  /\ Task("copy_validate")
  /\ Validate(reply.last)
  /\ pc' = IF "ACCEPTED" \in item THEN "accept_data" ELSE "new_unmask"
  /\ UNCHANGED <<item, target, length, reply, memory, progress, history>>

(* copy_result was called from the block of the first flag left in item. *)
CopyValidate ==
  /\ Task("copy_validate")
  /\ Validate(reply.last)
  /\ target' = IF reply.last THEN NoTarget ELSE target
  /\ pc' = IF "ACCEPTED" \in item THEN "accept_data" ELSE "new_unmask"
  /\ UNCHANGED <<item, length, reply, memory, progress, history>>

(* The null command, with the accesses in the order of the code. *)
NullStep(from, to) ==
  Task(from) /\ pc' = to /\ UNCHANGED <<item, target, length, reply, memory, progress, history>>

NullCommand ==
  \/ NullStep("null_len_h", "null_len_l") /\ WriteResponseLenH(0)
  \/ NullStep("null_len_l", "null_status") /\ WriteResponseLenL(0)
  \/ NullStep("null_status", "null_accept") /\ WriteStatusLength(0)
  \/ NullStep("null_accept", "null_validate") /\ AcceptFlag("NEW")
  \/ NullStep("null_validate", "new_unmask") /\ Validate(TRUE)

UCI_Server ==
  \/ Receive \/ Abort \/ AbortUnmask
  \/ More \/ AcceptData \/ AcceptUnmask
  \/ LengthL \/ LengthH \/ AcceptCommand \/ NewUnmask
  \/ CopyLenH \/ CopyLenL \/ CopyStatus \/ CopyValidate
  \/ NullCommand

Next == C64 \/ ISR \/ UCI_Server

Spec == Init /\ [][Next]_vars

(* An asserted interrupt is taken and the task runs: its priority is above *)
(* idle and nothing above it runs forever.  The C64 promises nothing.      *)
FairSpec == Spec /\ WF_vars(ISR) /\ WF_vars(UCI_Server)

(****************************************************************************)
(* Properties                                                               *)
(****************************************************************************)
(* What is on its way to the task: in the queue, or received and not done. *)
Owned(f) == f \in item \/ \E i \in 1 .. Len(queue) : f \in queue[i]

(* A flag is masked exactly while one queue item, or the block of run_task *)
(* that serves it, owns it; no flag is ever owned twice.  So the routine   *)
(* and the task neither lose an interrupt nor serve one twice.             *)
MaskedIffOwned ==
  /\ \A f \in Flags : f \in irq_mask <=> Owned(f)
  /\ \A i \in 1 .. Len(queue) :
        /\ queue[i] # {} /\ queue[i] \cap item = {}
        /\ \A j \in 1 .. Len(queue) : i # j => queue[i] \cap queue[j] = {}

(* The queue never holds more items than there are flags: depth 16 of the *)
(* constructor is enough and xQueueSendFromISR never fails.               *)
QueueNeverFull == Len(queue) <= 3 /\ (isr = "mask" => Len(queue) < QueueDepth)

(* Whatever the C64 does, every flag it raises is cleared again. *)
FlagsServed == \A f \in Flags : f \in handshake_in ~> f \notin handshake_in

(* State "01" is "the Ultimate is processing it": a busy interface has a    *)
(* flag set or a block of run_task at work that will leave the state.       *)
BusyHasServer ==
  state = "busy" =>
    \/ handshake_in \cap {"NEW", "ACCEPTED"} # {}
    \/ pc \in CopySteps \cup {"null_validate"}

(* The C64 is shown data only for a command it pushed and that is open. *)
DataAnswersCommand == IsData(state) => sent.open

(* The target is given exactly the command that was pushed: the bytes and *)
(* the length that the task reads are those at the time of the push.      *)
WholeCommand ==
  pc = "accept_command" => sent = [open |-> TRUE, byte |-> command_byte, len |-> length]

(* After a push, an accept or an abort the C64 finds both queues empty,   *)
(* until the task copies the next reply: nothing of the last one remains. *)
EmptyUntilCopied ==
  ~IsData(state) /\ pc \notin CopySteps => ~response_valid /\ ~status_valid

(* The C64 is stopped only while its command is being processed, so there *)
(* is always a validation ahead that lets it go.                          *)
FrozenOnlyWhenBusy == freeze => state = "busy"

(* get_more_data is called only when the target has a part to give: the   *)
(* register state "more" and the progress of the target agree.            *)
MoreHasPart == pc = "more" => progress[target].left > 0

(* Seen from the C64 the whole is the protocol of UciProtocol. *)
Protocol == INSTANCE UciProtocol WITH
  Cmds <- [open : {TRUE}, byte : Commands \cup {NoByte}, len : 0 .. CmdEnd + 1],
  None <- NoCommand,
  Answer <- LAMBDA c, k : IF c.len = 0 THEN {} ELSE {[of |-> c.byte, part |-> k]},
  phase <- state,
  open <- sent,
  part <- taken,
  shown <- IF IsData(state) /\ sent.len > 0 THEN {memory} ELSE {},
  aborting <- "ABORT" \in handshake_in

(* With a patient C64 program, every push is answered by the parts of its *)
(* own reply in order, and every abort ends in idle with nothing left.    *)
ImplementsProtocol == Protocol!Spec
=============================================================================
