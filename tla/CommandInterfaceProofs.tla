----------------------- MODULE CommandInterfaceProofs -----------------------
(****************************************************************************)
(* Theorems about the command interface, for every set of commands, every   *)
(* buffer size, every behaviour of the C64 program and every target.        *)
(****************************************************************************)
EXTENDS CommandInterface, TLAPS

USE ProtocolAssumption, InterfaceAssumption

(* The length registers split a length into two bytes. *)
LEMMA ByteSplit ==
  ASSUME NEW n \in Nat
  PROVE  n % ByteBase \in 0 .. ByteBase - 1 /\ n \div ByteBase \in Nat
  OBVIOUS

(****************************************************************************)
(* Type correctness.  get_more_data is called on a target, never on         *)
(* CMD_TARGET_NONE: without that the reply would have no type.              *)
(****************************************************************************)
MoreHasTarget == pc = "more" => target # NoTarget

TypeInv == TypeOK /\ MoreHasTarget

LEMMA InitTypeInv == Init => TypeInv
<1> SUFFICES ASSUME Init PROVE TypeInv
  OBVIOUS
<1>1. ProtocolTypeOK
  <2>1. error_busy \in BOOLEAN /\ freeze \in BOOLEAN
    BY Zenon DEF Init
  <2>2. response_length \in [hi : Nat, lo : 0 .. ByteBase - 1]
    BY DEF Init
  <2>3. state \in States /\ handshake_in \in SUBSET Flags /\ irq_mask \in SUBSET Flags
    BY DEF Init, Flags, States
  <2>4. /\ command_pointer \in 0 .. CmdEnd /\ response_pointer \in 0 .. RespEnd
        /\ status_pointer \in 0 .. StatEnd /\ status_length \in 0 .. ByteBase - 1
        /\ command_byte \in Commands \cup {NoByte}
    BY DEF Init
  <2> QED
    BY <2>1, <2>2, <2>3, <2>4 DEF ProtocolTypeOK
<1>2. queue \in Seq(SUBSET Flags) /\ isr_status \in SUBSET Flags /\ item \in SUBSET Flags
  BY DEF Init
<1>3. pc \in Steps /\ isr \in {"off", "mask"} /\ MoreHasTarget
  BY DEF Init, Steps, MoreHasTarget
<1>4. target \in Targets \cup {NoTarget} /\ length \in Nat /\ taken \in Nat
  BY DEF Init
<1>5. reply \in Replies
  BY DEF Init, Replies, NoReply
<1>6. memory \in [of : Commands \cup {NoByte}, part : Nat]
  BY DEF Init, NoContent
<1>7. progress \in [Targets -> [of : Commands \cup {NoByte}, part : Nat, left : 0 .. MaxMore]]
  BY DEF Init, Fresh
<1>8. written \in CommandRecords /\ sent \in CommandRecords
  BY DEF Init, CommandRecords, NoCommand
<1> QED
  BY <1>1, <1>2, <1>3, <1>4, <1>5, <1>6, <1>7, <1>8 DEF TypeInv, TypeOK

(* One lemma per register access: it keeps the types of the register block. *)
LEMMA SlotWriteCommandType ==
  ASSUME ProtocolTypeOK, NEW b \in Commands, SlotWriteCommand(b)
  PROVE  ProtocolTypeOK'
  BY DEF ProtocolTypeOK, SlotWriteCommand, ctl, resp

LEMMA ResetResponseType ==
  ASSUME ProtocolTypeOK, reset_response
  PROVE  /\ (response_pointer \in 0 .. RespEnd)'
         /\ (response_length \in [hi : Nat, lo : 0 .. ByteBase - 1])'
         /\ (status_pointer \in 0 .. StatEnd)'
         /\ (status_length \in 0 .. ByteBase - 1)'
  BY DEF reset_response

LEMMA SlotWriteControlType ==
  ASSUME ProtocolTypeOK, NEW bits \in Controls, SlotWriteControl(bits)
  PROVE  ProtocolTypeOK'
<1>1. (state \in States)'
  BY DEF ProtocolTypeOK, SlotWriteControl, States, Accepted
<1>2. (handshake_in \in SUBSET Flags)' /\ UNCHANGED <<cmd, irq_mask>>
  <2>1. \E n, a, q : /\ n \in {{}, {"NEW"}} /\ a \in {{}, {"ACCEPTED"}} /\ q \in {{}, {"ABORT"}}
                    /\ handshake_in' = handshake_in \cup n \cup a \cup q
    BY DEF SlotWriteControl
  <2>2. UNCHANGED <<cmd, irq_mask>>
    BY DEF SlotWriteControl
  <2>3. handshake_in \subseteq Flags
    BY DEF ProtocolTypeOK
  <2>4. handshake_in' \subseteq Flags
    BY <2>1, <2>3 DEF Flags
  <2> QED
    BY <2>2, <2>4
<1>3. (error_busy \in BOOLEAN)' /\ (freeze \in BOOLEAN)'
  <2>1. error_busy' = (("push" \in bits /\ state # "idle")
                       \/ (error_busy /\ "clr_err" \notin bits))
    BY DEF SlotWriteControl
  <2>2. freeze' = ({"push", "freeze"} \subseteq bits \/ (freeze /\ "push" \notin bits))
    BY DEF SlotWriteControl
  <2> QED
    BY Zenon, <2>1, <2>2
<1>4. reset_response \/ UNCHANGED resp
  BY DEF SlotWriteControl
<1> QED
  BY <1>1, <1>2, <1>3, <1>4, ResetResponseType DEF ProtocolTypeOK, cmd, resp

LEMMA SlotReadType ==
  ASSUME ProtocolTypeOK, SlotReadResponse \/ SlotReadStatus
  PROVE  ProtocolTypeOK'
  BY DEF ProtocolTypeOK, SlotReadResponse, SlotReadStatus, ctl, cmd

LEMMA AcceptFlagType ==
  ASSUME ProtocolTypeOK, NEW f, AcceptFlag(f)
  PROVE  ProtocolTypeOK'
  BY DEF ProtocolTypeOK, AcceptFlag, resp

LEMMA ValidateType ==
  ASSUME ProtocolTypeOK, NEW last, Validate(last)
  PROVE  ProtocolTypeOK'
<1>1. (freeze \in BOOLEAN)'
  BY Zenon DEF Validate
<1> QED
  BY <1>1 DEF ProtocolTypeOK, Validate, cmd, resp, States

LEMMA HandshakeResetType ==
  ASSUME ProtocolTypeOK, HandshakeReset
  PROVE  ProtocolTypeOK'
<1>1. (freeze \in BOOLEAN)'
  BY Zenon DEF HandshakeReset
<1> QED
  BY <1>1, ResetResponseType DEF ProtocolTypeOK, HandshakeReset, States

LEMMA WriteLengthType ==
  ASSUME ProtocolTypeOK, NEW n \in Nat, NEW l \in 0 .. ByteBase - 1,
         WriteResponseLenH(n) \/ WriteResponseLenL(l) \/ WriteStatusLength(l)
  PROVE  ProtocolTypeOK'
  BY DEF ProtocolTypeOK, WriteResponseLenH, WriteResponseLenL, WriteStatusLength, ctl, cmd

LEMMA IrqMaskType ==
  ASSUME ProtocolTypeOK, NEW fs \in SUBSET Flags, IrqMaskSet(fs) \/ IrqMaskClear(fs)
  PROVE  ProtocolTypeOK'
  BY DEF ProtocolTypeOK, IrqMaskSet, IrqMaskClear, ctl, cmd, resp

LEMMA SameRegistersType ==
  ASSUME ProtocolTypeOK, UNCHANGED registers
  PROVE  ProtocolTypeOK'
  BY DEF ProtocolTypeOK, registers, ctl, cmd, resp

LEMMA BlockForType ==
  ASSUME NEW fs
  PROVE  BlockFor(fs) \in Steps /\ (BlockFor(fs) = "more" => target # NoTarget)
  BY DEF BlockFor, Steps, AbortSteps, AcceptSteps, NewSteps

(* Which parts of the state the types of the task and the targets read. *)
TaskTypeOK ==
  /\ pc \in Steps /\ item \in SUBSET Flags
  /\ target \in Targets \cup {NoTarget}
  /\ length \in Nat
  /\ reply \in Replies
  /\ memory \in [of : Commands \cup {NoByte}, part : Nat]
  /\ progress \in [Targets -> [of : Commands \cup {NoByte}, part : Nat, left : 0 .. MaxMore]]
  /\ MoreHasTarget

IrqTypeOK ==
  /\ queue \in Seq(SUBSET Flags)
  /\ isr \in {"off", "mask"} /\ isr_status \in SUBSET Flags

HistoryTypeOK ==
  written \in CommandRecords /\ sent \in CommandRecords /\ taken \in Nat

LEMMA TypeInvParts ==
  /\ TypeInv <=> ProtocolTypeOK /\ TaskTypeOK /\ IrqTypeOK /\ HistoryTypeOK
  /\ TypeInv' <=> ProtocolTypeOK' /\ TaskTypeOK' /\ IrqTypeOK' /\ HistoryTypeOK'
  BY DEF TypeInv, TypeOK, TaskTypeOK, IrqTypeOK, HistoryTypeOK

LEMMA SameTaskType == TaskTypeOK /\ UNCHANGED task => TaskTypeOK'
  BY DEF TaskTypeOK, task, MoreHasTarget

LEMMA SameIrqType == IrqTypeOK /\ UNCHANGED irq => IrqTypeOK'
  BY DEF IrqTypeOK, irq

LEMMA SameHistoryType == HistoryTypeOK /\ UNCHANGED history => HistoryTypeOK'
  BY DEF HistoryTypeOK, history

LEMMA PartType ==
  ASSUME NEW p \in [of : Commands \cup {NoByte}, part : Nat, left : 0 .. MaxMore],
         NEW d \in DataLens, NEW s \in StatLens
  PROVE  Part(p, d, s) \in Replies
<1>1. (p.left = 0) \in BOOLEAN
  BY Zenon
<1> HIDE DEF NoByte
<1> QED
  BY <1>1 DEF Part, Replies

(* Every step of the task keeps its types. *)
LEMMA TaskStepType ==
  ASSUME ProtocolTypeOK, TaskTypeOK, IrqTypeOK, UCI_Server
  PROVE  TaskTypeOK'
<1> USE DEF Task, TaskTypeOK
<1>1. CASE Receive
  <2>1. Head(queue) \in SUBSET Flags
    BY <1>1 DEF Receive, IrqTypeOK
  <2> QED
    BY <1>1, <2>1, BlockForType DEF Receive, MoreHasTarget
<1>2. ASSUME NEW from, NEW f, Unmask(from, f) PROVE TaskTypeOK'
  BY <1>2, BlockForType DEF Unmask, MoreHasTarget
<1>3. CASE Abort
  <2>1. progress' \in [Targets -> [of : Commands \cup {NoByte}, part : Nat, left : 0 .. MaxMore]]
    <3>1. CASE UNCHANGED progress
      BY <3>1
    <3>2. CASE target \in Targets /\ abort(target)
      BY <3>2 DEF abort
    <3> QED
      BY <1>3, <3>1, <3>2 DEF Abort
  <2> QED
    BY <1>3, <2>1 DEF Abort, MoreHasTarget, Steps, AbortSteps
<1>4. CASE More
  <2>1. PICK d \in DataLens, s \in StatLens : get_more_data(target, d, s)
    BY <1>4 DEF More
  <2>2. target \in Targets
    BY <1>4 DEF More, MoreHasTarget
  <2>3. progress' \in [Targets -> [of : Commands \cup {NoByte}, part : Nat, left : 0 .. MaxMore]]
        /\ reply' \in Replies
    <3>1. CASE progress[target].left = 0
      <4>1. reply' = [NoReply EXCEPT !.slen = s] /\ UNCHANGED progress
        BY <2>1, <3>1 DEF get_more_data
      <4>2. reply' = [of |-> NoByte, part |-> 0, last |-> TRUE, dlen |-> 0, slen |-> s]
        BY <4>1 DEF NoReply
      <4>3. s \in 0 .. ByteBase - 1
        OBVIOUS
      <4>4. reply' \in Replies
        BY <4>2, <4>3 DEF Replies
      <4> QED
        BY <4>1, <4>4
    <3>2. CASE progress[target].left # 0
      <4> DEFINE q == progress[target]
                 p == [of |-> q.of, part |-> q.part + 1, left |-> q.left - 1]
      <4>1. q \in [of : Commands \cup {NoByte}, part : Nat, left : 0 .. MaxMore]
        BY <2>2
      <4>2. p \in [of : Commands \cup {NoByte}, part : Nat, left : 0 .. MaxMore]
        BY <3>2, <4>1
      <4>3. progress' = [progress EXCEPT ![target] = p] /\ reply' = Part(p, d, s)
        BY <2>1, <3>2 DEF get_more_data
      <4> HIDE DEF p
      <4>4. reply' \in Replies
        BY <4>2, <4>3, PartType
      <4> QED
        BY <2>2, <4>2, <4>3, <4>4
    <3> QED
      BY <3>1, <3>2
  <2> QED
    BY <1>4, <2>3 DEF More, MoreHasTarget, Steps, CopySteps
<1>5. CASE AcceptData \/ LengthL \/ AcceptCommand
  <2>1. length' \in Nat
    <3>1. command_pointer % ByteBase \in Nat
      BY ByteSplit DEF ProtocolTypeOK
    <3> QED
      BY <1>5, <3>1 DEF AcceptData, LengthL, AcceptCommand
  <2> QED
    BY <1>5, <2>1 DEF AcceptData, LengthL, AcceptCommand, MoreHasTarget, Steps, AcceptSteps,
                      NewSteps, CopySteps
<1>6. CASE LengthH
  <2> DEFINE n == length + (command_pointer \div ByteBase) * ByteBase
  <2>1. length' = n /\ n \in Nat
    <3>1. command_pointer \div ByteBase \in Nat
      <4>1. command_pointer \in Nat
        BY DEF ProtocolTypeOK
      <4> QED
        BY <4>1, ByteSplit
    <3>2. \A k \in Nat : length + k * ByteBase \in Nat
      OBVIOUS
    <3> QED
      BY <1>6, <3>1, <3>2 DEF LengthH
  <2>2. command_byte \in Commands \cup {NoByte} /\ TargetOf(command_byte) \in Targets
    BY DEF ProtocolTypeOK, Targets
  <2>3. CASE n = 0
    BY <1>6, <2>1, <2>3 DEF LengthH, MoreHasTarget, Steps, NewSteps, NullSteps
  <2>4. CASE n # 0
    <3>1. PICK m \in 0 .. MaxMore, d \in DataLens, s \in StatLens :
             parse_command(TargetOf(command_byte), command_byte, m, d, s)
      BY <1>6, <2>4 DEF LengthH
    <3>2. progress' \in [Targets -> [of : Commands \cup {NoByte}, part : Nat, left : 0 .. MaxMore]]
          /\ reply' \in Replies
      BY <2>2, <3>1 DEF parse_command, Part, Replies
    <3> QED
      BY <1>6, <2>1, <2>2, <2>4, <3>2 DEF LengthH, MoreHasTarget, Steps, NewSteps
  <2> QED
    BY <2>3, <2>4
<1>7. CASE CopyLenH \/ CopyLenL \/ CopyStatus
  <2>1. memory' \in [of : Commands \cup {NoByte}, part : Nat]
    BY <1>7 DEF CopyLenH, CopyLenL, CopyStatus, Replies
  <2> QED
    BY <1>7, <2>1 DEF CopyLenH, CopyLenL, CopyStatus, MoreHasTarget, Steps, CopySteps
<1>8. CASE CopyValidate
  BY <1>8 DEF CopyValidate, MoreHasTarget, Steps, AcceptSteps, NewSteps
<1>9. CASE NullCommand
  BY <1>9 DEF NullCommand, NullStep, MoreHasTarget, Steps, NewSteps, NullSteps
<1> QED
  BY <1>1, <1>2, <1>3, <1>4, <1>5, <1>6, <1>7, <1>8, <1>9
     DEF UCI_Server, AbortUnmask, AcceptUnmask, NewUnmask

(* Every step of the task accesses the registers in one of their ways. *)
LEMMA TaskStepProtocolType ==
  ASSUME ProtocolTypeOK, TaskTypeOK, UCI_Server
  PROVE  ProtocolTypeOK'
<1>1. CASE Receive \/ More \/ LengthL \/ LengthH
  BY <1>1, SameRegistersType DEF Receive, More, LengthL, LengthH
<1>2. CASE AbortUnmask \/ AcceptUnmask \/ NewUnmask
  <2>1. \E f \in Flags : IrqMaskClear({f})
    BY <1>2 DEF AbortUnmask, AcceptUnmask, NewUnmask, Unmask, Flags
  <2> QED
    BY <2>1, IrqMaskType
<1>3. CASE Abort
  BY <1>3, HandshakeResetType DEF Abort
<1>4. CASE AcceptData \/ AcceptCommand
  BY <1>4, AcceptFlagType DEF AcceptData, AcceptCommand
<1>5. CASE CopyLenH \/ CopyLenL \/ CopyStatus
  <2>1. reply.dlen \in Nat /\ reply.slen \in 0 .. ByteBase - 1
    <3>1. reply.dlen \in DataLens \cup {0} /\ reply.slen \in 0 .. ByteBase - 1
      BY DEF TaskTypeOK, Replies
    <3>2. DataLens \cup {0} \subseteq Nat
      OBVIOUS
    <3> QED
      BY <3>1, <3>2
  <2>2. reply.dlen \div ByteBase \in Nat /\ reply.dlen % ByteBase \in 0 .. ByteBase - 1
    BY <2>1, ByteSplit
  <2> QED
    BY <1>5, <2>1, <2>2, WriteLengthType DEF CopyLenH, CopyLenL, CopyStatus
<1>6. CASE CopyValidate
  BY <1>6, ValidateType DEF CopyValidate
<1>7. CASE NullCommand
  <2>1. 0 \in Nat /\ 0 \in 0 .. ByteBase - 1
    OBVIOUS
  <2> QED
    BY <1>7, <2>1, WriteLengthType, AcceptFlagType, ValidateType DEF NullCommand
<1> QED
  BY <1>1, <1>2, <1>3, <1>4, <1>5, <1>6, <1>7 DEF UCI_Server

LEMMA NextTypeInv == TypeInv /\ [Next]_vars => TypeInv'
<1> SUFFICES ASSUME ProtocolTypeOK, TaskTypeOK, IrqTypeOK, HistoryTypeOK, [Next]_vars
             PROVE  ProtocolTypeOK' /\ TaskTypeOK' /\ IrqTypeOK' /\ HistoryTypeOK'
  BY TypeInvParts
<1>1. CASE C64
  <2>1. UNCHANGED <<task, irq>>
    BY <1>1 DEF C64, C64_WriteCommand, C64_WriteControl, C64_ReadResponse, C64_ReadStatus
  <2>2. ProtocolTypeOK'
    BY <1>1, SlotWriteCommandType, SlotWriteControlType, SlotReadType
       DEF C64, C64_WriteCommand, C64_WriteControl, C64_ReadResponse, C64_ReadStatus
  <2>3. HistoryTypeOK'
    <3>1. ASSUME NEW b \in Commands, C64_WriteCommand(b) PROVE HistoryTypeOK'
      <4>1. written' \in CommandRecords
        BY <3>1 DEF C64_WriteCommand, HistoryTypeOK, CommandRecords
      <4> QED
        BY <3>1, <4>1 DEF C64_WriteCommand, HistoryTypeOK
    <3>2. ASSUME NEW bits \in Controls, C64_WriteControl(bits) PROVE HistoryTypeOK'
      <4>1. /\ NoCommand \in CommandRecords
            /\ [open |-> TRUE, byte |-> written.byte, len |-> written.len] \in CommandRecords
        BY DEF HistoryTypeOK, CommandRecords, NoCommand
      <4>2. taken' \in Nat
        BY <3>2 DEF C64_WriteControl, HistoryTypeOK, history
      <4>3. written' \in {written, NoCommand}
        BY <3>2 DEF C64_WriteControl, history
      <4>4. sent' \in {sent, NoCommand, [open |-> TRUE, byte |-> written.byte, len |-> written.len]}
        BY <3>2 DEF C64_WriteControl, history
      <4> QED
        BY <4>1, <4>2, <4>3, <4>4 DEF HistoryTypeOK
    <3>3. CASE C64_ReadResponse \/ C64_ReadStatus
      BY <3>3, SameHistoryType DEF C64_ReadResponse, C64_ReadStatus
    <3> QED
      BY <1>1, <3>1, <3>2, <3>3 DEF C64
  <2> QED
    BY <2>1, <2>2, <2>3, SameTaskType, SameIrqType
<1>2. CASE ISR_ReadStatus
  <2>1. IrqTypeOK'
    BY <1>2 DEF ISR_ReadStatus, IrqTypeOK, ProtocolTypeOK
  <2> QED
    BY <1>2, <2>1, SameRegistersType, SameTaskType, SameHistoryType DEF ISR_ReadStatus
<1>3. CASE ISR_MaskAndSend
  <2>1. IrqTypeOK'
    BY <1>3 DEF ISR_MaskAndSend, IrqTypeOK
  <2>2. ProtocolTypeOK'
    BY <1>3, IrqMaskType DEF ISR_MaskAndSend, IrqTypeOK
  <2> QED
    BY <1>3, <2>1, <2>2, SameTaskType, SameHistoryType DEF ISR_MaskAndSend
<1>4. CASE UCI_Server
  <2>1. IrqTypeOK'
    <3>1. CASE Receive
      BY <3>1 DEF Receive, IrqTypeOK
    <3>2. CASE UNCHANGED irq
      BY <3>2, SameIrqType
    <3> QED
      BY <1>4, <3>1, <3>2 DEF UCI_Server, Task, Abort, AbortUnmask, AcceptUnmask, NewUnmask,
         Unmask, More, AcceptData, LengthL, LengthH, AcceptCommand, CopyLenH, CopyLenL,
         CopyStatus, CopyValidate, NullCommand, NullStep
  <2>2. HistoryTypeOK'
    <3>1. CASE Abort
      <4>1. NoCommand \in CommandRecords
        BY DEF NoCommand, CommandRecords
      <4> QED
        BY <3>1, <4>1 DEF Abort, HistoryTypeOK
    <3>2. CASE UNCHANGED history
      BY <3>2, SameHistoryType
    <3> QED
      BY <1>4, <3>1, <3>2 DEF UCI_Server, Receive, AbortUnmask, AcceptUnmask, NewUnmask,
         Unmask, More, AcceptData, LengthL, LengthH, AcceptCommand, CopyLenH, CopyLenL,
         CopyStatus, CopyValidate, NullCommand, NullStep
  <2> QED
    BY <1>4, <2>1, <2>2, TaskStepType, TaskStepProtocolType
<1>5. CASE UNCHANGED vars
  BY <1>5, SameRegistersType, SameTaskType, SameIrqType, SameHistoryType DEF vars
<1> QED
  BY <1>1, <1>2, <1>3, <1>4, <1>5 DEF Next, ISR

(* Every variable of the registers, the interrupt routine and the task   *)
(* keeps its type, whatever the C64 writes; in particular the task never *)
(* asks CMD_TARGET_NONE for more data, which is what the proof needs.    *)
THEOREM TypeCorrect == Spec => []TypeOK
<1>1. TypeInv => TypeOK
  BY DEF TypeInv
<1> QED
  BY <1>1, InitTypeInv, NextTypeInv, PTL DEF Spec

(****************************************************************************)
(* No interrupt is lost and none is served twice.  MaskedIffOwned is not    *)
(* inductive: the block of run_task that unmasks a flag must be the block   *)
(* of a flag of the received item, and an interrupt that is taken must      *)
(* bring at least one flag that is not masked.                              *)
(****************************************************************************)
BlockOfItem ==
  /\ pc = "receive" => item = {}
  /\ pc \in AbortSteps => "ABORT" \in item
  /\ pc \in AcceptSteps => "ACCEPTED" \in item
  /\ pc \in NewSteps => "NEW" \in item
  /\ pc \in CopySteps => "ACCEPTED" \in item \/ "NEW" \in item

InterruptBringsNews == isr = "mask" => isr_status \ irq_mask # {}

MaskInv == TypeInv /\ BlockOfItem /\ InterruptBringsNews /\ MaskedIffOwned

LEMMA BlockForItem ==
  ASSUME NEW fs \in SUBSET Flags
  PROVE  LET b == BlockFor(fs)
         IN  /\ b = "receive" => fs = {}
             /\ b \in AbortSteps => "ABORT" \in fs
             /\ b \in AcceptSteps => "ACCEPTED" \in fs
             /\ b \in NewSteps => "NEW" \in fs
             /\ b \notin CopySteps
  BY DEF BlockFor, Flags, AbortSteps, AcceptSteps, NewSteps, NullSteps, CopySteps

LEMMA InitMaskInv == Init => MaskInv
<1> SUFFICES ASSUME Init PROVE BlockOfItem /\ InterruptBringsNews /\ MaskedIffOwned
  BY InitTypeInv DEF MaskInv
<1>1. BlockOfItem /\ InterruptBringsNews
  BY DEF Init, BlockOfItem, InterruptBringsNews, AbortSteps, AcceptSteps, NewSteps,
         NullSteps, CopySteps
<1>2. MaskedIffOwned
  BY DEF Init, MaskedIffOwned, Owned
<1> QED
  BY <1>1, <1>2

(* Disjoint items that are not empty: three flags make at most three items. *)
LEMMA ShortQueue ==
  ASSUME TypeInv, MaskedIffOwned
  PROVE  Len(queue) <= 3 /\ Len(queue) < QueueDepth
<1> SUFFICES ASSUME Len(queue) > 3 PROVE FALSE
  BY DEF TypeInv, TypeOK
<1>1. Len(queue) \in Nat /\ queue \in Seq(SUBSET Flags)
  BY DEF TypeInv, TypeOK
<1>2. \A i \in 1 .. 4 : i \in 1 .. Len(queue)
  BY <1>1
<1>3. \A i \in 1 .. 4 : \E f \in Flags : f \in queue[i]
  BY <1>1, <1>2 DEF MaskedIffOwned
<1>4. PICK a \in Flags, b \in Flags, c \in Flags, d \in Flags :
         a \in queue[1] /\ b \in queue[2] /\ c \in queue[3] /\ d \in queue[4]
  BY <1>3
<1>5. \A i, j \in 1 .. 4 : i # j => queue[i] \cap queue[j] = {}
  BY <1>2 DEF MaskedIffOwned
<1>6. a # b /\ a # c /\ a # d /\ b # c /\ b # d /\ c # d
  BY <1>4, <1>5
<1> QED
  BY <1>6 DEF Flags

LEMMA NextBlockOfItem == MaskInv /\ [Next]_vars => BlockOfItem'
<1> SUFFICES ASSUME MaskInv, [Next]_vars PROVE BlockOfItem'
  OBVIOUS
<1> USE DEF AbortSteps, AcceptSteps, NewSteps, NullSteps, CopySteps
<1>1. CASE UNCHANGED <<pc, item>>
  BY <1>1 DEF BlockOfItem, MaskInv
<1>2. CASE Receive
  <2>1. Head(queue) \in SUBSET Flags
    BY <1>2 DEF Receive, MaskInv, TypeInv, TypeOK
  <2> QED
    BY <1>2, <2>1, BlockForItem DEF Receive, BlockOfItem
<1>3. ASSUME NEW from, NEW f, Unmask(from, f) PROVE BlockOfItem'
  <2>1. item \ {f} \in SUBSET Flags
    BY DEF MaskInv, TypeInv, TypeOK
  <2> QED
    BY <1>3, <2>1, BlockForItem DEF Unmask, BlockOfItem
<1>4. CASE UCI_Server /\ ~Receive /\ ~AbortUnmask /\ ~AcceptUnmask /\ ~NewUnmask
  BY <1>4 DEF MaskInv, BlockOfItem, UCI_Server, Task, Abort, More, AcceptData, LengthL, LengthH,
              AcceptCommand, CopyLenH, CopyLenL, CopyStatus, CopyValidate, NullCommand, NullStep
<1>5. C64 \/ ISR \/ UNCHANGED vars => UNCHANGED <<pc, item>>
  BY DEF C64, C64_WriteCommand, C64_WriteControl, C64_ReadResponse, C64_ReadStatus, ISR,
         ISR_ReadStatus, ISR_MaskAndSend, task, vars
<1> QED
  BY <1>1, <1>2, <1>3, <1>4, <1>5 DEF Next, UCI_Server, AbortUnmask, AcceptUnmask, NewUnmask

LEMMA NextInterruptBringsNews == MaskInv /\ [Next]_vars => InterruptBringsNews'
<1> SUFFICES ASSUME MaskInv, [Next]_vars PROVE InterruptBringsNews'
  OBVIOUS
<1>1. CASE ISR
  BY <1>1 DEF ISR, ISR_ReadStatus, ISR_MaskAndSend, io_irq, InterruptBringsNews, registers
<1>2. CASE UCI_Server
  <2>1. isr = "off" /\ isr' = isr
    BY <1>2 DEF UCI_Server, Task, Receive, Abort, AbortUnmask, AcceptUnmask, NewUnmask, Unmask,
       More, AcceptData, LengthL, LengthH, AcceptCommand, CopyLenH, CopyLenL, CopyStatus,
       CopyValidate, NullCommand, NullStep, irq
  <2> QED
    BY <2>1 DEF InterruptBringsNews
<1>3. CASE UNCHANGED <<isr, isr_status, irq_mask>>
  BY <1>3 DEF MaskInv, InterruptBringsNews
<1>4. C64 \/ UNCHANGED vars => UNCHANGED <<isr, isr_status, irq_mask>>
  BY DEF C64, C64_WriteCommand, C64_WriteControl, C64_ReadResponse, C64_ReadStatus, irq, vars,
         registers, SlotWriteCommand, SlotWriteControl, SlotReadResponse, SlotReadStatus
<1> QED
  BY <1>1, <1>2, <1>3, <1>4 DEF Next

LEMMA NextMaskedIffOwned == MaskInv /\ [Next]_vars => MaskedIffOwned'
<1> SUFFICES ASSUME MaskInv, [Next]_vars PROVE MaskedIffOwned'
  OBVIOUS
<1>1. CASE UNCHANGED <<irq_mask, queue, item>>
  BY <1>1 DEF MaskInv, MaskedIffOwned, Owned
<1>2. CASE ISR_MaskAndSend
  <2> DEFINE new == isr_status \ irq_mask
  <2>1. new # {} /\ new \in SUBSET Flags /\ queue \in Seq(SUBSET Flags)
    BY <1>2 DEF MaskInv, InterruptBringsNews, ISR_MaskAndSend, TypeInv, TypeOK
  <2>2. irq_mask' = irq_mask \cup new /\ item' = item
    BY <1>2 DEF ISR_MaskAndSend, IrqMaskSet, task
  <2>3. Len(queue) < QueueDepth
    BY ShortQueue DEF MaskInv
  <2>4. queue' = Append(queue, new)
    BY <1>2, <2>3 DEF ISR_MaskAndSend
  <2>5. /\ Len(queue') = Len(queue) + 1
        /\ \A i \in 1 .. Len(queue) : queue'[i] = queue[i]
        /\ queue'[Len(queue) + 1] = new
    BY <2>1, <2>4
  <2>6. new \cap item = {} /\ \A i \in 1 .. Len(queue) : new \cap queue[i] = {}
    BY <2>1 DEF MaskInv, MaskedIffOwned, Owned
  <2> HIDE DEF new
  <2>7. \A f \in Flags : f \in irq_mask' <=> Owned(f)'
    BY <2>1, <2>2, <2>5 DEF MaskInv, MaskedIffOwned, Owned
  <2>8. \A i \in 1 .. Len(queue') :
          /\ queue'[i] # {} /\ queue'[i] \cap item' = {}
          /\ \A j \in 1 .. Len(queue') : i # j => queue'[i] \cap queue'[j] = {}
    BY <2>1, <2>2, <2>5, <2>6 DEF MaskInv, MaskedIffOwned
  <2> QED
    BY <2>7, <2>8 DEF MaskedIffOwned
<1>3. CASE Receive
  <2>1. queue \in Seq(SUBSET Flags) /\ queue # <<>> /\ item = {}
    BY <1>3 DEF Receive, MaskInv, BlockOfItem, TypeInv, TypeOK
  <2>2. /\ item' = queue[1]
        /\ Len(queue') = Len(queue) - 1
        /\ \A i \in 1 .. Len(queue') : queue'[i] = queue[i + 1]
        /\ irq_mask' = irq_mask
    BY <1>3, <2>1 DEF Receive, registers
  <2>3. Len(queue) \in Nat /\ Len(queue) >= 1
    BY <2>1
  <2>4. \A f \in Flags : f \in irq_mask' <=> Owned(f)'
    <3> SUFFICES ASSUME NEW f \in Flags PROVE f \in irq_mask <=> Owned(f)'
      BY <2>2
    <3>1. f \in irq_mask <=> \E i \in 1 .. Len(queue) : f \in queue[i]
      BY <2>1 DEF MaskInv, MaskedIffOwned, Owned
    <3>2. (\E i \in 1 .. Len(queue) : f \in queue[i])
            <=> f \in queue[1] \/ \E i \in 1 .. Len(queue) - 1 : f \in queue[i + 1]
      <4>1. ASSUME NEW i \in 1 .. Len(queue), f \in queue[i], i # 1
            PROVE  i - 1 \in 1 .. Len(queue) - 1 /\ f \in queue[(i - 1) + 1]
        BY <2>3, <4>1
      <4> QED
        BY <2>3, <4>1
    <3> QED
      BY <2>2, <3>1, <3>2 DEF Owned
  <2>5. \A i \in 1 .. Len(queue') :
          /\ queue'[i] # {} /\ queue'[i] \cap item' = {}
          /\ \A j \in 1 .. Len(queue') : i # j => queue'[i] \cap queue'[j] = {}
    <3> SUFFICES ASSUME NEW i \in 1 .. Len(queue')
                 PROVE  /\ queue'[i] # {} /\ queue'[i] \cap item' = {}
                        /\ \A j \in 1 .. Len(queue') : i # j => queue'[i] \cap queue'[j] = {}
      OBVIOUS
    <3>1. i + 1 \in 1 .. Len(queue) /\ 1 \in 1 .. Len(queue) /\ i + 1 # 1
      BY <2>2, <2>3
    <3>2. queue[i + 1] # {} /\ queue[i + 1] \cap queue[1] = {}
      BY <3>1 DEF MaskInv, MaskedIffOwned
    <3>3. ASSUME NEW j \in 1 .. Len(queue'), i # j PROVE queue'[i] \cap queue'[j] = {}
      <4>1. j + 1 \in 1 .. Len(queue) /\ i + 1 # j + 1
        BY <2>2, <2>3, <3>3
      <4> QED
        BY <2>2, <3>1, <4>1 DEF MaskInv, MaskedIffOwned
    <3> QED
      BY <2>2, <3>2, <3>3
  <2> QED
    BY <2>4, <2>5 DEF MaskedIffOwned
<1>4. ASSUME NEW from, NEW f \in Flags, f \in item, Unmask(from, f) PROVE MaskedIffOwned'
  <2>1. irq_mask' = irq_mask \ {f} /\ item' = item \ {f} /\ queue' = queue
    BY <1>4 DEF Unmask, IrqMaskClear, Task, irq
  <2>2. \A i \in 1 .. Len(queue) : f \notin queue[i]
    BY <1>4 DEF MaskInv, MaskedIffOwned
  <2> QED
    BY <2>1, <2>2 DEF MaskInv, MaskedIffOwned, Owned
<1>5. CASE AbortUnmask \/ AcceptUnmask \/ NewUnmask
  BY <1>4, <1>5 DEF AbortUnmask, AcceptUnmask, NewUnmask, Unmask, Task, MaskInv, BlockOfItem,
                    AbortSteps, AcceptSteps, NewSteps, Flags
<1>6. CASE C64 \/ ISR_ReadStatus \/ UNCHANGED vars
  BY <1>1, <1>6 DEF C64, C64_WriteCommand, C64_WriteControl, C64_ReadResponse, C64_ReadStatus,
     ISR_ReadStatus, irq, task, vars, registers, SlotWriteCommand, SlotWriteControl,
     SlotReadResponse, SlotReadStatus
<1>7. CASE UCI_Server /\ ~Receive /\ ~AbortUnmask /\ ~AcceptUnmask /\ ~NewUnmask
  <2>1. queue' = queue /\ item' = item
    BY <1>7 DEF UCI_Server, Task, irq, Abort, More, AcceptData, LengthL, LengthH, AcceptCommand,
                CopyLenH, CopyLenL, CopyStatus, CopyValidate, NullCommand, NullStep
  <2>2. irq_mask' = irq_mask
    BY <1>7 DEF UCI_Server, registers, Abort, More, AcceptData, LengthL, LengthH, AcceptCommand,
                CopyLenH, CopyLenL, CopyStatus, CopyValidate, NullCommand, HandshakeReset,
                AcceptFlag, Validate, WriteResponseLenH, WriteResponseLenL, WriteStatusLength
  <2> QED
    BY <1>1, <2>1, <2>2
<1> QED
  BY <1>2, <1>3, <1>5, <1>6, <1>7 DEF Next, ISR

LEMMA NextMaskInv == MaskInv /\ [Next]_vars => MaskInv'
  BY NextTypeInv, NextBlockOfItem, NextInterruptBringsNews, NextMaskedIffOwned DEF MaskInv

(* A flag is masked exactly while one item or block owns it, for every C64 *)
(* program: no interrupt is lost and none is served twice.                 *)
THEOREM InterruptsOwned == Spec => []MaskedIffOwned
<1>1. MaskInv => MaskedIffOwned
  BY DEF MaskInv
<1> QED
  BY <1>1, InitMaskInv, NextMaskInv, PTL DEF Spec

(* The queue of depth 16 never overflows, whatever the C64 program does. *)
THEOREM QueueSuffices == Spec => []QueueNeverFull
<1>1. MaskInv => QueueNeverFull
  BY ShortQueue DEF MaskInv, QueueNeverFull
<1> QED
  BY <1>1, InitMaskInv, NextMaskInv, PTL DEF Spec

(****************************************************************************)
(* A patient C64 program.  It writes only while no flag of an earlier write *)
(* is set, so at most one flag is set, at most one is on its way to the     *)
(* task, and each block of run_task finds the interface in the state that   *)
(* its flag stands for.                                                     *)
(****************************************************************************)
OneFlag == \A f, g \in handshake_in : f = g

(* The flag of a received item stays set until its block clears it. *)
OneItem ==
  /\ \A f, g \in item : f = g
  /\ "ABORT" \in item => "ABORT" \in handshake_in \/ pc = "abort_unmask"
  /\ "ACCEPTED" \in item => "ACCEPTED" \in handshake_in \/ pc = "accept_unmask"
  /\ "NEW" \in item =>
        "NEW" \in handshake_in \/ pc \in CopySteps \cup {"null_validate", "new_unmask"}

FlagsOnTheWay ==
  /\ isr = "mask" => isr_status = handshake_in
  /\ \A i \in 1 .. Len(queue) : queue[i] \subseteq handshake_in

FlagOfState ==
  /\ "NEW" \in handshake_in => state = "busy"
  /\ "ACCEPTED" \in handshake_in /\ IsData(state) => pc = "accept_data"
  /\ pc = "accept_data" => state # "busy"
  /\ "NEW" \in item /\ pc \in CopySteps \cup {"null_validate"} =>
        state = "busy" /\ handshake_in \subseteq {"ABORT"}

TargetOfState ==
  /\ pc \in CopySteps \cup {"accept_command"} => target # NoTarget
  /\ state = "more" => target # NoTarget
  /\ state = "busy" /\ "ACCEPTED" \in handshake_in => target # NoTarget

NothingLeft ==
  ~IsData(state) /\ pc \notin CopySteps =>
     response_length = [hi |-> 0, lo |-> 0] /\ status_length = 0

PatientInv ==
  /\ OneFlag /\ OneItem /\ FlagsOnTheWay
  /\ FlagOfState /\ TargetOfState /\ NothingLeft
  /\ BusyHasServer /\ FrozenOnlyWhenBusy

LEMMA InitPatientInv == Init => PatientInv
<1> SUFFICES ASSUME Init PROVE PatientInv
  OBVIOUS
<1>1. OneFlag /\ OneItem /\ FlagsOnTheWay
  BY DEF Init, OneFlag, OneItem, FlagsOnTheWay
<1>2. FlagOfState /\ TargetOfState /\ NothingLeft /\ BusyHasServer
  BY DEF Init, FlagOfState, TargetOfState, NothingLeft, BusyHasServer, CopySteps, IsData
<1>3. FrozenOnlyWhenBusy
  BY DEF Init, FrozenOnlyWhenBusy
<1> QED
  BY <1>1, <1>2, <1>3 DEF PatientInv

(* What a patient program does with one write to the control register. *)
Pushes ==
  /\ state = "idle" /\ state' = "busy" /\ handshake_in' = {"NEW"} /\ reset_response
  /\ sent' = [open |-> TRUE, byte |-> written.byte, len |-> written.len]
  /\ written' = NoCommand /\ taken' = 0
  /\ Sized => command_pointer # 0

Accepts ==
  /\ IsData(state) /\ state' = Accepted(state) /\ handshake_in' = {"ACCEPTED"}
  /\ ~freeze' /\ reset_response /\ UNCHANGED written
  /\ IF state = "more"
     THEN taken' = (IF taken <= MaxMore THEN taken + 1 ELSE taken) /\ UNCHANGED sent
     ELSE sent' = NoCommand /\ taken' = 0

RequestsAbort ==
  /\ handshake_in' = {"ABORT"} /\ reset_response
  /\ ~freeze' /\ UNCHANGED <<state, history>>

WritesNothing == ~freeze' /\ UNCHANGED <<state, handshake_in, resp, history>>

LEMMA PatientWrite ==
  ASSUME Patient, NEW bits \in Controls, C64_WriteControl(bits)
  PROVE  /\ handshake_in = {} /\ UNCHANGED <<task, irq, cmd, irq_mask>>
         /\ Pushes \/ Accepts \/ RequestsAbort \/ WritesNothing
<1>1. handshake_in = {} /\ May(bits) /\ ~freeze
  BY DEF C64_WriteControl, May
<1>2. UNCHANGED <<task, irq, cmd, irq_mask>>
  BY DEF C64_WriteControl, SlotWriteControl
<1>3. "push" \notin bits => ~freeze'
  <2>1. freeze' = ({"push", "freeze"} \subseteq bits \/ (freeze /\ "push" \notin bits))
    BY DEF C64_WriteControl, SlotWriteControl
  <2>2. "push" \notin bits => ~({"push", "freeze"} \subseteq bits)
    OBVIOUS
  <2> QED
    BY Zenon, <1>1, <2>1, <2>2
<1> USE DEF C64_WriteControl, SlotWriteControl, May
<1>4. CASE "push" \in bits
  <2>1. "accept" \notin bits /\ "abort" \notin bits /\ state = "idle"
    BY <1>1, <1>4
  <2> QED
    BY <1>1, <1>2, <1>4, <2>1 DEF Pushes
<1>5. CASE "accept" \in bits
  <2>1. "push" \notin bits /\ "abort" \notin bits /\ IsData(state)
    BY <1>1, <1>5
  <2> QED
    BY <1>1, <1>2, <1>3, <1>5, <2>1 DEF Accepts, history, IsData
<1>6. CASE "push" \notin bits /\ "accept" \notin bits /\ "abort" \in bits
  BY <1>1, <1>2, <1>3, <1>6 DEF RequestsAbort
<1>7. CASE "push" \notin bits /\ "accept" \notin bits /\ "abort" \notin bits
  BY <1>1, <1>2, <1>3, <1>7 DEF WritesNothing
<1> QED
  BY <1>4, <1>5, <1>6, <1>7

(* The routine hands over the one flag that is set, ... *)
LEMMA ReceiveTakesFlag ==
  ASSUME MaskInv, PatientInv, Receive
  PROVE  \E f \in Flags : /\ handshake_in = {f} /\ item' = {f} /\ pc' = BlockFor({f})
<1>1. queue \in Seq(SUBSET Flags) /\ queue # <<>> /\ Head(queue) = queue[1]
      /\ 1 \in 1 .. Len(queue)
  BY DEF Receive, MaskInv, TypeInv, TypeOK
<1>2. queue[1] # {} /\ queue[1] \subseteq handshake_in /\ handshake_in \subseteq Flags
  BY <1>1 DEF MaskInv, MaskedIffOwned, PatientInv, FlagsOnTheWay, TypeInv, TypeOK, ProtocolTypeOK
<1>3. PICK f \in Flags : f \in queue[1]
  BY <1>2
<1>4. handshake_in = {f} /\ queue[1] = {f}
  BY <1>2, <1>3 DEF PatientInv, OneFlag
<1> QED
  BY <1>1, <1>4 DEF Receive

(* ... and a block that unmasks its flag leaves no other block to do. *)
LEMMA UnmaskEndsItem ==
  ASSUME MaskInv, PatientInv, NEW from, NEW f \in item, Unmask(from, f)
  PROVE  item' = {} /\ pc' = "receive"
<1>1. item \ {f} = {}
  BY DEF PatientInv, OneItem
<1>2. BlockFor({}) = "receive"
  BY DEF BlockFor
<1> QED
  BY <1>1, <1>2 DEF Unmask

(* While the block of a flag that is still set runs, the queue is empty. *)
LEMMA QueueEmptyInBlock ==
  ASSUME MaskInv, PatientInv, NEW f \in item, f \in handshake_in
  PROVE  \A i \in 1 .. Len(queue) : FALSE
<1> SUFFICES ASSUME NEW i \in 1 .. Len(queue) PROVE FALSE
  OBVIOUS
<1>1. queue[i] # {} /\ queue[i] \subseteq handshake_in /\ queue[i] \cap item = {}
  BY DEF MaskInv, MaskedIffOwned, PatientInv, FlagsOnTheWay
<1>2. handshake_in = {f}
  BY DEF PatientInv, OneFlag
<1> QED
  BY <1>1, <1>2

LEMMA PatientWriteStep ==
  ASSUME Patient, MaskInv, PatientInv, C64
  PROVE  PatientInv'
<1> USE DEF PatientInv, OneFlag, OneItem, FlagsOnTheWay, FlagOfState, TargetOfState, NothingLeft,
            BusyHasServer, FrozenOnlyWhenBusy
<1>1. CASE UNCHANGED <<state, handshake_in, freeze, response_length, status_length, task, irq>>
  BY <1>1 DEF task, irq
<1>2. CASE C64_ReadResponse \/ C64_ReadStatus
  BY <1>1, <1>2 DEF C64_ReadResponse, C64_ReadStatus, SlotReadResponse, SlotReadStatus, ctl
<1>3. ASSUME NEW b \in Commands, C64_WriteCommand(b) PROVE PatientInv'
  BY <1>1, <1>3 DEF C64_WriteCommand, SlotWriteCommand, ctl, resp
<1>4. ASSUME NEW bits \in Controls, C64_WriteControl(bits) PROVE PatientInv'
  <2>1. handshake_in = {} /\ UNCHANGED <<pc, item, target, queue, isr, isr_status>>
    BY <1>4, PatientWrite DEF task, irq
  <2>2. isr = "off" /\ \A i \in 1 .. Len(queue) : queue[i] = {}
    <3>1. isr # "mask"
      BY <2>1 DEF MaskInv, InterruptBringsNews
    <3> QED
      BY <2>1, <3>1 DEF MaskInv, TypeInv, TypeOK
  <2>3. "NEW" \in item => pc \in CopySteps \cup {"null_validate", "new_unmask"}
    BY <2>1
  <2>4. pc # "accept_data"
    BY <2>1 DEF MaskInv, BlockOfItem, AcceptSteps, CopySteps
  <2>5. CASE Pushes
    BY <2>1, <2>2, <2>3, <2>4, <2>5 DEF Pushes, IsData, reset_response, CopySteps
  <2>6. CASE Accepts
    BY <2>1, <2>2, <2>3, <2>4, <2>6 DEF Accepts, IsData, Accepted, reset_response, CopySteps
  <2>7. CASE RequestsAbort
    BY <2>1, <2>2, <2>3, <2>4, <2>7 DEF RequestsAbort, IsData, reset_response, CopySteps
  <2>8. CASE WritesNothing
    BY <2>1, <2>2, <2>3, <2>4, <2>8 DEF WritesNothing, resp
  <2> QED
    BY <1>4, <2>5, <2>6, <2>7, <2>8, PatientWrite
<1> QED
  BY <1>2, <1>3, <1>4 DEF C64

LEMMA PatientTaskStep ==
  ASSUME MaskInv, PatientInv, UCI_Server
  PROVE  PatientInv'
<1> USE DEF PatientInv, OneFlag, OneItem, FlagsOnTheWay, FlagOfState, TargetOfState, NothingLeft,
            BusyHasServer, FrozenOnlyWhenBusy, CopySteps
<1> USE DEF Task
<1>1. CASE Receive
  <2>1. PICK f \in Flags : handshake_in = {f} /\ item' = {f} /\ pc' = BlockFor({f})
    BY <1>1, ReceiveTakesFlag
  <2>2. UNCHANGED <<registers, target, isr, isr_status>> /\ isr = "off" /\ pc = "receive"
    BY <1>1 DEF Receive
  <2>3. \A i \in 1 .. Len(queue') : queue'[i] \subseteq handshake_in'
    <3>1. queue \in Seq(SUBSET Flags) /\ queue # <<>> /\ queue' = Tail(queue)
      BY <1>1 DEF Receive, MaskInv, TypeInv, TypeOK
    <3>2. \A i \in 1 .. Len(queue') : i + 1 \in 1 .. Len(queue) /\ queue'[i] = queue[i + 1]
      BY <3>1
    <3> QED
      BY <2>2, <3>2 DEF registers, ctl
  <2>4. FlagOfState' /\ TargetOfState' /\ BusyHasServer' /\ NothingLeft'
    BY <2>1, <2>2 DEF BlockFor, Flags, registers, ctl, resp, IsData
  <2> QED
    BY <2>1, <2>2, <2>3, <2>4 DEF registers, ctl
<1>2. ASSUME NEW from, NEW f \in item, Unmask(from, f),
             from \in {"abort_unmask", "accept_unmask", "new_unmask"}
      PROVE  PatientInv'
  <2>1. item' = {} /\ pc' = "receive"
    BY <1>2, UnmaskEndsItem
  <2>2. UNCHANGED <<ctl, resp, target, queue, isr, isr_status>> /\ isr = "off" /\ pc = from
    BY <1>2 DEF Unmask, IrqMaskClear, irq
  <2> QED
    BY <1>2, <2>1, <2>2 DEF ctl, resp, IsData
<1>3. CASE AbortUnmask \/ AcceptUnmask \/ NewUnmask
  BY <1>2, <1>3 DEF AbortUnmask, AcceptUnmask, NewUnmask, Unmask, MaskInv, BlockOfItem,
     AbortSteps, AcceptSteps, NewSteps
<1>4. CASE Abort
  <2>1. "ABORT" \in item
    BY <1>4 DEF Abort, MaskInv, BlockOfItem, AbortSteps
  <2>2. \A i \in 1 .. Len(queue) : FALSE
    BY <1>4, <2>1, QueueEmptyInBlock DEF Abort
  <2> QED
    BY <1>4, <2>1, <2>2 DEF Abort, HandshakeReset, reset_response, irq, IsData
<1>5. CASE More
  BY <1>5 DEF More, registers, ctl, resp, irq, MaskInv, TypeInv, MoreHasTarget, IsData,
     BlockOfItem, AcceptSteps
<1>6. CASE AcceptData
  <2>1. "ACCEPTED" \in item /\ "ACCEPTED" \in handshake_in
    BY <1>6 DEF AcceptData, MaskInv, BlockOfItem, AcceptSteps
  <2>2. \A i \in 1 .. Len(queue) : FALSE
    BY <2>1, QueueEmptyInBlock
  <2> QED
    BY <1>6, <2>1, <2>2 DEF AcceptData, AcceptFlag, resp, irq, IsData
<1>7. CASE LengthL
  BY <1>7 DEF LengthL, registers, ctl, resp, irq, MaskInv, BlockOfItem, NewSteps, IsData
<1>8. CASE LengthH
  <2>1. TargetOf(command_byte) # NoTarget
    BY DEF MaskInv, TypeInv, TypeOK, ProtocolTypeOK, TargetOf, MaxTarget, NoTarget, NoByte
  <2>2. "NEW" \in item
    BY <1>8 DEF LengthH, MaskInv, BlockOfItem, NewSteps
  <2> QED
    BY <1>8, <2>1, <2>2 DEF LengthH, registers, ctl, resp, irq, IsData
<1>9. CASE AcceptCommand
  <2>1. "NEW" \in item /\ "NEW" \in handshake_in
    BY <1>9 DEF AcceptCommand, MaskInv, BlockOfItem, NewSteps
  <2>2. \A i \in 1 .. Len(queue) : FALSE
    BY <2>1, QueueEmptyInBlock
  <2> QED
    BY <1>9, <2>1, <2>2 DEF AcceptCommand, AcceptFlag, resp, irq, IsData
<1>10. CASE CopyLenH \/ CopyLenL \/ CopyStatus
  BY <1>10 DEF CopyLenH, CopyLenL, CopyStatus, WriteResponseLenH, WriteResponseLenL,
     WriteStatusLength, ctl, irq, IsData
<1>11. CASE CopyValidate
  <2>1. "ACCEPTED" \in item \/ "NEW" \in item
    BY <1>11 DEF CopyValidate, MaskInv, BlockOfItem
  <2>2. /\ pc \in CopySteps /\ pc' = (IF "ACCEPTED" \in item THEN "accept_data" ELSE "new_unmask")
        /\ IsData(state') /\ (state' = "more" => target' = target)
        /\ UNCHANGED <<handshake_in, item, isr, isr_status, queue>>
    BY <1>11 DEF CopyValidate, Validate, irq, IsData
  <2>3. OneFlag' /\ OneItem' /\ FlagsOnTheWay'
    BY <2>1, <2>2
  <2>4. FlagOfState'
    BY <2>1, <2>2 DEF IsData
  <2>5. TargetOfState' /\ NothingLeft' /\ BusyHasServer'
    BY <2>2 DEF IsData
  <2>6. FrozenOnlyWhenBusy'
    BY <1>11 DEF CopyValidate, Validate
  <2> QED
    BY <2>3, <2>4, <2>5, <2>6
<1>12. CASE NullCommand
  <2>1. "NEW" \in item
    BY <1>12 DEF NullCommand, NullStep, MaskInv, BlockOfItem, NewSteps, NullSteps
  <2>2. pc = "null_accept" => \A i \in 1 .. Len(queue) : FALSE
    BY <2>1, QueueEmptyInBlock
  <2>3. UNCHANGED <<item, target, queue, isr, isr_status>>
    BY <1>12 DEF NullCommand, NullStep, irq
  <2>4. CASE pc = "null_validate"
    BY <1>12, <2>1, <2>3, <2>4 DEF NullCommand, NullStep, Validate, IsData
  <2>5. CASE pc = "null_accept"
    BY <1>12, <2>1, <2>2, <2>3, <2>5 DEF NullCommand, NullStep, AcceptFlag, resp, IsData
  <2>6. CASE pc \in {"null_len_h", "null_len_l", "null_status"}
    <3>1. UNCHANGED ctl /\ pc' \in {"null_len_l", "null_status", "null_accept"}
      BY <1>12, <2>6 DEF NullCommand, NullStep, WriteResponseLenH, WriteResponseLenL,
         WriteStatusLength
    <3>2. state = "busy" /\ state' = state
      BY <2>1, <2>6, <3>1 DEF ctl
    <3>3. response_length = [hi |-> 0, lo |-> 0] /\ status_length = 0
      BY <2>6, <3>2 DEF IsData
    <3>4. response_length' = [hi |-> 0, lo |-> 0] /\ status_length' = 0
      BY <1>12, <2>6, <3>3 DEF NullCommand, NullStep, WriteResponseLenH, WriteResponseLenL,
         WriteStatusLength
    <3> QED
      BY <2>1, <2>3, <2>6, <3>1, <3>2, <3>4 DEF ctl
  <2> QED
    BY <1>12, <2>4, <2>5, <2>6 DEF NullCommand, NullStep
<1> QED
  BY <1>1, <1>3, <1>4, <1>5, <1>6, <1>7, <1>8, <1>9, <1>10, <1>11, <1>12 DEF UCI_Server

LEMMA PatientIsrStep ==
  ASSUME MaskInv, PatientInv, ISR
  PROVE  PatientInv'
<1> USE DEF PatientInv, OneFlag, OneItem, FlagsOnTheWay, FlagOfState, TargetOfState, NothingLeft,
            BusyHasServer, FrozenOnlyWhenBusy
<1>1. CASE ISR_ReadStatus
  BY <1>1 DEF ISR_ReadStatus, registers, ctl, resp, task
<1>2. CASE ISR_MaskAndSend
  <2>1. UNCHANGED <<ctl, resp, task>> /\ isr = "mask" /\ isr' = "off"
    BY <1>2 DEF ISR_MaskAndSend, IrqMaskSet
  <2>2. \A i \in 1 .. Len(queue') : queue'[i] \subseteq handshake_in
    BY <1>2 DEF ISR_MaskAndSend, MaskInv, TypeInv, TypeOK
  <2> QED
    BY <2>1, <2>2 DEF ctl, resp, task
<1> QED
  BY <1>1, <1>2 DEF ISR

LEMMA NextPatientInv ==
  ASSUME Patient
  PROVE  MaskInv /\ PatientInv /\ [Next]_vars => PatientInv'
<1>1. ASSUME PatientInv, UNCHANGED vars PROVE PatientInv'
  BY <1>1 DEF PatientInv, OneFlag, OneItem, FlagsOnTheWay, FlagOfState, TargetOfState, NothingLeft,
     BusyHasServer, FrozenOnlyWhenBusy, vars, registers, ctl, resp, task, irq
<1> QED
  BY <1>1, PatientWriteStep, PatientTaskStep, PatientIsrStep DEF Next

(* A busy interface has a flag set or a block at work that will leave the *)
(* state: a patient C64 program is never left waiting in state 01 with    *)
(* nothing on its way, whatever it sends and however long its commands.   *)
THEOREM BusyIsServed == Patient => (Spec => []BusyHasServer)
<1> SUFFICES ASSUME Patient PROVE Spec => []BusyHasServer
  OBVIOUS
<1>1. MaskInv /\ PatientInv => BusyHasServer
  BY DEF PatientInv
<1> QED
  BY <1>1, InitMaskInv, NextMaskInv, InitPatientInv, NextPatientInv, PTL DEF Spec

(* A C64 that is stopped has a command in process: the validation that *)
(* lets it go is still to come.                                        *)
THEOREM StoppedWhileBusy == Patient => (Spec => []FrozenOnlyWhenBusy)
<1> SUFFICES ASSUME Patient PROVE Spec => []FrozenOnlyWhenBusy
  OBVIOUS
<1>1. MaskInv /\ PatientInv => FrozenOnlyWhenBusy
  BY DEF PatientInv
<1> QED
  BY <1>1, InitMaskInv, NextMaskInv, InitPatientInv, NextPatientInv, PTL DEF Spec

(* After a push, an accept or an abort both queues are empty until the next *)
(* reply is copied: nothing of the last reply is taken for the next one.    *)
THEOREM NothingOfLastReply == Patient => (Spec => []EmptyUntilCopied)
<1> SUFFICES ASSUME Patient PROVE Spec => []EmptyUntilCopied
  OBVIOUS
<1>1. MaskInv /\ PatientInv => EmptyUntilCopied
  <2> SUFFICES ASSUME MaskInv, PatientInv, ~IsData(state), pc \notin CopySteps
               PROVE  ~response_valid /\ ~status_valid
    BY DEF EmptyUntilCopied
  <2>1. response_length = [hi |-> 0, lo |-> 0] /\ status_length = 0
    BY DEF PatientInv, NothingLeft
  <2>2. response_pointer \in Nat /\ status_pointer \in Nat
    BY DEF MaskInv, TypeInv, TypeOK, ProtocolTypeOK
  <2>3. ResponseLength = 0
    BY <2>1 DEF ResponseLength
  <2> QED
    BY <2>1, <2>2, <2>3 DEF response_valid, status_valid
<1> QED
  BY <1>1, InitMaskInv, NextMaskInv, InitPatientInv, NextPatientInv, PTL DEF Spec

(****************************************************************************)
(* A patient program that also minds the size of its commands.  The command *)
(* buffer holds what it wrote, the open command is the one that was pushed, *)
(* and the target of the open command knows which part is due.              *)
(****************************************************************************)
CommandKept ==
  /\ "NEW" \in handshake_in =>
        /\ sent = [open |-> TRUE, byte |-> command_byte, len |-> command_pointer]
        /\ command_pointer # 0 /\ taken = 0
        /\ written = NoCommand
  /\ "NEW" \notin handshake_in =>
        /\ written.len = command_pointer
        /\ command_pointer = 0 => written = NoCommand
        /\ command_pointer # 0 => written.open /\ written.byte = command_byte

LengthRead ==
  /\ pc \notin NullSteps
  /\ pc = "length_h" => length = command_pointer % ByteBase
  /\ pc = "accept_command" => length = command_pointer

OpenUnlessIdle ==
  /\ state # "idle" => sent.open /\ sent.len > 0
  /\ state = "idle" => sent = NoCommand /\ taken = 0
  /\ pc \in CopySteps \cup {"more", "accept_command"} => state = "busy"

(* The target gave part k and has more, or has none left and is forgotten. *)
Gave(k) ==
  /\ progress[target].of = sent.byte /\ progress[target].part = k
  /\ k + progress[target].left <= MaxMore

PartDue ==
  /\ state = "more" => Gave(taken) /\ progress[target].left > 0
  /\ state = "last" => target = NoTarget
  /\ "ACCEPTED" \in handshake_in /\ pc \notin CopySteps =>
        /\ state = "busy" => taken > 0 /\ Gave(taken - 1) /\ progress[target].left > 0
        /\ state = "idle" => target = NoTarget

PartCopied ==
  /\ pc \in CopySteps \cup {"accept_command"} =>
       /\ Gave(taken)
       /\ reply.of = sent.byte /\ reply.part = taken
       /\ reply.last => progress[target].left = 0
       /\ ~reply.last => progress[target].left > 0
  /\ IsData(state) \/ pc \in CopySteps \ {"copy_len_h"} =>
       memory = [of |-> sent.byte, part |-> taken]

SizedInv == CommandKept /\ LengthRead /\ OpenUnlessIdle /\ PartDue /\ PartCopied

LEMMA InitSizedInv == Init => SizedInv
<1> SUFFICES ASSUME Init PROVE SizedInv
  OBVIOUS
<1>1. CommandKept
  BY DEF Init, CommandKept, NoCommand
<1>2. LengthRead /\ OpenUnlessIdle
  BY DEF Init, LengthRead, OpenUnlessIdle, NullSteps, CopySteps
<1>3. PartDue /\ PartCopied
  BY DEF Init, PartDue, PartCopied, CopySteps, IsData
<1> QED
  BY <1>1, <1>2, <1>3 DEF SizedInv

(* The length that the task puts together is the command pointer. *)
LEMMA LengthJoined ==
  ASSUME NEW n \in Nat
  PROVE  (n % ByteBase) + (n \div ByteBase) * ByteBase = n
  OBVIOUS

(* What each step that is not part of a copy or a command leaves alone. *)
LEMMA SizedUnchanged ==
  ASSUME SizedInv, UNCHANGED <<state, handshake_in, command_pointer, command_byte, target, length,
                               reply, memory, progress, history>>,
         pc' = pc \/ (pc \notin CopySteps /\ pc' \in {"receive", "length_l", "abort_unmask",
                                                      "abort", "accept_data"})
  PROVE  SizedInv'
  BY DEF SizedInv, CommandKept, LengthRead, OpenUnlessIdle, PartDue, PartCopied, Gave, CopySteps,
         NullSteps, history

(* A block of a flag that is set finds the other flags cleared. *)
LEMMA FlagOfBlock ==
  ASSUME MaskInv, PatientInv
  PROVE  /\ pc \in {"length_l", "length_h", "accept_command"} => handshake_in = {"NEW"} /\ state = "busy"
         /\ pc \in {"more", "accept_data"} => handshake_in = {"ACCEPTED"}
  BY DEF MaskInv, BlockOfItem, PatientInv, OneItem, OneFlag, NewSteps, AcceptSteps, CopySteps,
         FlagOfState

LEMMA SizedWriteStep ==
  ASSUME Patient, Sized, MaskInv, PatientInv, SizedInv, C64
  PROVE  SizedInv'
<1>1. CASE C64_ReadResponse \/ C64_ReadStatus
  BY <1>1, SizedUnchanged DEF C64_ReadResponse, C64_ReadStatus, SlotReadResponse, SlotReadStatus,
     ctl, cmd, task
<1>2. ASSUME NEW b \in Commands, C64_WriteCommand(b) PROVE SizedInv'
  <2>1. state = "idle" /\ handshake_in = {} /\ written.len < CmdEnd
    BY <1>2 DEF C64_WriteCommand
  <2>2. UNCHANGED <<state, handshake_in, pc, target, length, reply, memory, progress, sent, taken>>
    BY <1>2 DEF C64_WriteCommand, SlotWriteCommand, ctl, task
  <2>3. CommandKept'
    BY <1>2, <2>1, <2>2 DEF C64_WriteCommand, SlotWriteCommand, SizedInv, CommandKept, MaskInv,
       TypeInv, TypeOK, ProtocolTypeOK, NoCommand
  <2>4. LengthRead'
    BY <2>1, <2>2, FlagOfBlock DEF SizedInv, LengthRead
  <2>5. OpenUnlessIdle' /\ PartDue' /\ PartCopied'
    BY <2>2 DEF SizedInv, OpenUnlessIdle, PartDue, PartCopied, Gave, CopySteps
  <2> QED
    BY <2>3, <2>4, <2>5 DEF SizedInv
<1>3. ASSUME NEW bits \in Controls, C64_WriteControl(bits) PROVE SizedInv'
  <2>1. /\ handshake_in = {}
        /\ UNCHANGED <<command_pointer, command_byte, pc, target, length, reply, memory, progress>>
        /\ Pushes \/ Accepts \/ RequestsAbort \/ WritesNothing
    BY <1>3, PatientWrite DEF task, cmd
  <2>2. LengthRead'
    BY <2>1 DEF SizedInv, LengthRead
  <2>3. CASE Pushes
    <3>1. pc \notin CopySteps \cup {"more", "accept_command"}
      BY <2>3 DEF Pushes, SizedInv, OpenUnlessIdle
    <3>2. sent' = [open |-> TRUE, byte |-> command_byte, len |-> command_pointer]
          /\ command_pointer # 0
      BY <2>1, <2>3 DEF Pushes, SizedInv, CommandKept
    <3>4. CommandKept'
      BY <2>1, <2>3, <3>2 DEF Pushes, CommandKept
    <3>5. command_pointer > 0
      BY <3>2 DEF MaskInv, TypeInv, TypeOK, ProtocolTypeOK
    <3>6. OpenUnlessIdle'
      BY <2>1, <2>3, <3>1, <3>2, <3>5 DEF Pushes, OpenUnlessIdle
    <3>3. PartDue' /\ PartCopied'
      BY <2>1, <2>3, <3>1 DEF Pushes, PartDue, PartCopied, IsData, CopySteps
    <3> QED
      BY <2>2, <3>3, <3>4, <3>6 DEF SizedInv
  <2>4. CASE Accepts
    <3>1. pc \notin CopySteps \cup {"more", "accept_command"}
      BY <2>4 DEF Accepts, SizedInv, OpenUnlessIdle, IsData
    <3>2. CommandKept'
      BY <2>1, <2>4 DEF Accepts, SizedInv, CommandKept
    <3>3. CASE state = "more"
      <4>1. Gave(taken) /\ progress[target].left > 0 /\ target \in Targets /\ taken \in Nat
        BY <3>3 DEF SizedInv, PartDue, PatientInv, TargetOfState, MaskInv, TypeInv, TypeOK
      <4>2. progress[target].left \in Nat
        BY <4>1 DEF MaskInv, TypeInv, TypeOK
      <4>3. taken' = taken + 1 /\ sent' = sent /\ state' = "busy"
        <5>1. taken <= MaxMore
          BY <4>1, <4>2 DEF Gave
        <5> QED
          BY <2>4, <3>3, <5>1 DEF Accepts, Accepted
      <4>4. OpenUnlessIdle'
        BY <2>1, <3>1, <3>3, <4>3 DEF SizedInv, OpenUnlessIdle
      <4>5. PartDue' /\ PartCopied'
        BY <2>1, <3>1, <4>1, <4>3 DEF PartDue, PartCopied, Gave, IsData, CopySteps
      <4> QED
        BY <2>2, <3>2, <4>4, <4>5 DEF SizedInv
    <3>4. CASE state = "last"
      <4>1. state' = "idle" /\ sent' = NoCommand /\ taken' = 0 /\ target = NoTarget
        BY <2>4, <3>4 DEF Accepts, Accepted, SizedInv, PartDue
      <4>2. OpenUnlessIdle' /\ PartDue' /\ PartCopied'
        BY <2>1, <3>1, <4>1 DEF OpenUnlessIdle, PartDue, PartCopied, IsData, CopySteps
      <4> QED
        BY <2>2, <3>2, <4>2 DEF SizedInv
    <3> QED
      BY <2>4, <3>3, <3>4 DEF Accepts, IsData
  <2>5. CASE RequestsAbort \/ WritesNothing
    <3>1. "NEW" \notin handshake_in' /\ "ACCEPTED" \notin handshake_in' /\ UNCHANGED <<state, history>>
      BY <2>1, <2>5 DEF RequestsAbort, WritesNothing
    <3> QED
      BY <2>1, <2>2, <3>1 DEF SizedInv, CommandKept, OpenUnlessIdle, PartDue, PartCopied, Gave,
         CopySteps, history
  <2> QED
    BY <2>1, <2>3, <2>4, <2>5
<1> QED
  BY <1>1, <1>2, <1>3 DEF C64

LEMMA PartFields ==
  ASSUME NEW p, NEW d, NEW s
  PROVE  LET r == Part(p, d, s) IN r.of = p.of /\ r.part = p.part /\ (r.last <=> p.left = 0)
<1> DEFINE b == p.left = 0
           r == [of |-> p.of, part |-> p.part, last |-> b, dlen |-> d, slen |-> s]
<1>1. r.of = p.of /\ r.part = p.part
  OBVIOUS
<1>2. r.last <=> b
  BY Zenon
<1> QED
  BY <1>1, <1>2 DEF Part

LEMMA SizedTaskStep ==
  ASSUME Patient, Sized, MaskInv, PatientInv, SizedInv, UCI_Server
  PROVE  SizedInv'
<1> USE DEF Task
<1>1. CASE Receive
  <2>1. PICK f \in Flags : handshake_in = {f} /\ pc' = BlockFor({f})
    BY <1>1, ReceiveTakesFlag
  <2>2. pc = "receive" /\ UNCHANGED <<registers, target, length, reply, memory, progress, history>>
    BY <1>1 DEF Receive
  <2>3. pc' = "more" => state = "busy"
    <3>1. pc' = "more" => f = "ACCEPTED" /\ target # NoTarget
      BY <2>1 DEF BlockFor
    <3>2. f = "ACCEPTED" => ~IsData(state) /\ (state = "idle" => target = NoTarget)
      BY <2>1, <2>2 DEF PatientInv, FlagOfState, SizedInv, PartDue, CopySteps
    <3>3. ~IsData(state) => state \in {"idle", "busy"}
      BY DEF MaskInv, TypeInv, TypeOK, ProtocolTypeOK, States, IsData
    <3> QED
      BY <3>1, <3>2, <3>3
  <2>4. pc' \notin CopySteps \cup NullSteps \cup {"length_h", "accept_command"}
    BY <2>1 DEF BlockFor, CopySteps, NullSteps
  <2>5. CommandKept' /\ LengthRead' /\ OpenUnlessIdle'
    BY <2>2, <2>3, <2>4 DEF SizedInv, CommandKept, LengthRead, OpenUnlessIdle, registers, ctl, cmd,
       history
  <2>6. PartDue' /\ PartCopied'
    BY <2>2, <2>4 DEF SizedInv, PartDue, PartCopied, Gave, registers, ctl, history, CopySteps
  <2> QED
    BY <2>5, <2>6 DEF SizedInv
<1>2. ASSUME NEW from \in {"abort_unmask", "accept_unmask", "new_unmask"}, NEW f \in item,
             Unmask(from, f)
      PROVE  SizedInv'
  <2>1. pc' = "receive" /\ pc = from
    BY <1>2, UnmaskEndsItem DEF Unmask
  <2> QED
    BY <1>2, <2>1, SizedUnchanged DEF Unmask, IrqMaskClear, ctl, cmd, CopySteps
<1>3. CASE AbortUnmask \/ AcceptUnmask \/ NewUnmask
  BY <1>2, <1>3 DEF AbortUnmask, AcceptUnmask, NewUnmask, Unmask, MaskInv, BlockOfItem,
     AbortSteps, AcceptSteps, NewSteps
<1>4. CASE Abort
  <2>1. /\ state' = "idle" /\ handshake_in' = {} /\ command_pointer' = 0
        /\ written' = NoCommand /\ sent' = NoCommand /\ taken' = 0 /\ pc' = "abort_unmask"
    BY <1>4 DEF Abort, HandshakeReset
  <2>2. CommandKept' /\ LengthRead' /\ OpenUnlessIdle'
    BY <2>1 DEF CommandKept, LengthRead, OpenUnlessIdle, NoCommand, NullSteps, CopySteps
  <2>3. PartDue' /\ PartCopied'
    BY <2>1 DEF PartDue, PartCopied, CopySteps, IsData
  <2> QED
    BY <2>2, <2>3 DEF SizedInv
<1>5. CASE More
  <2>1. PICK d \in DataLens, s \in StatLens : get_more_data(target, d, s)
    BY <1>5 DEF More
  <2>2. pc = "more" /\ pc' = "copy_len_h" /\ UNCHANGED <<registers, item, target, length, memory, history>>
    BY <1>5 DEF More
  <2>3. state = "busy" /\ handshake_in = {"ACCEPTED"} /\ target \in Targets
    BY <2>2, FlagOfBlock DEF SizedInv, OpenUnlessIdle, MaskInv, TypeInv, TypeOK, MoreHasTarget
  <2> DEFINE q == progress[target]
             p == [of |-> q.of, part |-> q.part + 1, left |-> q.left - 1]
  <2>4. taken \in Nat /\ q \in [of : Commands \cup {NoByte}, part : Nat, left : 0 .. MaxMore]
    BY <2>3 DEF MaskInv, TypeInv, TypeOK
  <2>5. taken > 0 /\ Gave(taken - 1) /\ q.left > 0
    BY <2>2, <2>3 DEF SizedInv, PartDue, CopySteps
  <2>6. progress' = [progress EXCEPT ![target] = p] /\ reply' = Part(p, d, s)
    BY <2>1, <2>5 DEF get_more_data
  <2>7. progress'[target] = p
    BY <2>3, <2>6 DEF MaskInv, TypeInv, TypeOK
  <2>8. p.of = sent.byte /\ p.part = taken /\ taken + p.left <= MaxMore /\ p.left \in Nat
    BY <2>4, <2>5 DEF Gave
  <2> HIDE DEF p, q
  <2>9. PartCopied'
    <3>1. reply'.of = p.of /\ reply'.part = p.part /\ (reply'.last <=> p.left = 0)
      BY <2>6, PartFields
    <3> QED
      BY <2>2, <2>3, <2>6, <2>7, <2>8, <3>1 DEF PartCopied, Gave, registers, ctl, history, IsData
  <2>10. PartDue'
    BY <2>2, <2>3 DEF PartDue, registers, ctl, CopySteps
  <2>11. CommandKept' /\ LengthRead' /\ OpenUnlessIdle'
    BY <2>2, <2>3 DEF SizedInv, CommandKept, LengthRead, OpenUnlessIdle, registers, ctl, cmd,
       history, NullSteps
  <2> QED
    BY <2>9, <2>10, <2>11 DEF SizedInv
<1>6. CASE AcceptData
  <2>1. /\ handshake_in' = {} /\ "NEW" \notin handshake_in /\ pc' = "accept_unmask"
        /\ UNCHANGED <<state, cmd, target, length, reply, memory, progress, history>>
    BY <1>6, FlagOfBlock DEF AcceptData, AcceptFlag, cmd
  <2>2. CommandKept' /\ LengthRead' /\ OpenUnlessIdle'
    BY <2>1 DEF SizedInv, CommandKept, LengthRead, OpenUnlessIdle, cmd, history, NullSteps, CopySteps
  <2>3. PartDue' /\ PartCopied'
    BY <2>1 DEF SizedInv, PartDue, PartCopied, Gave, history, CopySteps
  <2> QED
    BY <2>2, <2>3 DEF SizedInv
<1>7. CASE LengthL
  <2>1. /\ pc = "length_l" /\ pc' = "length_h" /\ length' = command_pointer % ByteBase
        /\ UNCHANGED <<registers, target, reply, memory, progress, history>>
    BY <1>7 DEF LengthL
  <2>2. CommandKept' /\ LengthRead' /\ OpenUnlessIdle'
    BY <2>1 DEF SizedInv, CommandKept, LengthRead, OpenUnlessIdle, registers, ctl, cmd, history,
       NullSteps, CopySteps
  <2>3. PartDue' /\ PartCopied'
    BY <2>1 DEF SizedInv, PartDue, PartCopied, Gave, registers, ctl, history, CopySteps
  <2> QED
    BY <2>2, <2>3 DEF SizedInv
<1>8. CASE LengthH
  <2>1. pc = "length_h" /\ UNCHANGED <<registers, item, memory, history>>
    BY <1>8 DEF LengthH
  <2>2. handshake_in = {"NEW"} /\ state = "busy"
    BY <2>1, FlagOfBlock
  <2>3. command_pointer # 0 /\ taken = 0 /\ sent.byte = command_byte
    BY <2>2 DEF SizedInv, CommandKept
  <2>4. length + (command_pointer \div ByteBase) * ByteBase = command_pointer
    <3>1. length = command_pointer % ByteBase /\ command_pointer \in Nat
      BY <2>1 DEF SizedInv, LengthRead, MaskInv, TypeInv, TypeOK, ProtocolTypeOK
    <3> QED
      BY <3>1, LengthJoined
  <2>5. PICK m \in 0 .. MaxMore, d \in DataLens, s \in StatLens :
           /\ parse_command(TargetOf(command_byte), command_byte, m, d, s)
           /\ length' = command_pointer /\ pc' = "accept_command"
           /\ target' = TargetOf(command_byte)
    BY <1>8, <2>3, <2>4 DEF LengthH
  <2>6. target' \in Targets
    BY <2>5 DEF MaskInv, TypeInv, TypeOK, ProtocolTypeOK, Targets
  <2> DEFINE p == [of |-> command_byte, part |-> 0, left |-> m]
  <2>7. progress'[target'] = p /\ reply' = Part(p, d, s)
    BY <2>5, <2>6 DEF parse_command, MaskInv, TypeInv, TypeOK
  <2>8. p.of = sent.byte /\ p.part = taken /\ taken + p.left <= MaxMore /\ p.left \in Nat
    BY <2>3
  <2> HIDE DEF p
  <2>9. PartCopied'
    <3>1. reply'.of = p.of /\ reply'.part = p.part /\ (reply'.last <=> p.left = 0)
      BY <2>7, PartFields
    <3> QED
      BY <2>1, <2>2, <2>5, <2>7, <2>8, <3>1 DEF PartCopied, Gave, registers, ctl, history, IsData,
       CopySteps
  <2>10. PartDue'
    BY <2>1, <2>2 DEF PartDue, registers, ctl
  <2>11. CommandKept' /\ LengthRead' /\ OpenUnlessIdle'
    BY <2>1, <2>2, <2>5 DEF SizedInv, CommandKept, LengthRead, OpenUnlessIdle, registers, ctl, cmd,
       history, NullSteps
  <2> QED
    BY <2>9, <2>10, <2>11 DEF SizedInv
<1>9. CASE AcceptCommand
  <2>1. /\ handshake_in = {"NEW"} /\ handshake_in' = {} /\ command_pointer' = 0
        /\ state = "busy" /\ pc = "accept_command" /\ pc' = "copy_len_h"
        /\ UNCHANGED <<state, target, reply, memory, progress, history>>
    BY <1>9, FlagOfBlock DEF AcceptCommand, AcceptFlag
  <2>2. CommandKept' /\ LengthRead' /\ OpenUnlessIdle'
    BY <2>1 DEF SizedInv, CommandKept, LengthRead, OpenUnlessIdle, history, NullSteps, NoCommand
  <2>3. PartDue' /\ PartCopied'
    BY <2>1 DEF SizedInv, PartDue, PartCopied, Gave, history, CopySteps, IsData
  <2> QED
    BY <2>2, <2>3 DEF SizedInv
<1>10. CASE CopyLenH \/ CopyLenL \/ CopyStatus
  <2>1. /\ pc \in CopySteps /\ pc' \in CopySteps \ {"copy_len_h"}
        /\ UNCHANGED <<ctl, cmd, target, reply, progress, history>>
    BY <1>10 DEF CopyLenH, CopyLenL, CopyStatus, WriteResponseLenH, WriteResponseLenL,
       WriteStatusLength, CopySteps
  <2>2. CommandKept' /\ LengthRead' /\ OpenUnlessIdle'
    BY <2>1 DEF SizedInv, CommandKept, LengthRead, OpenUnlessIdle, ctl, cmd, history, NullSteps,
       CopySteps
  <2>3. PartDue'
    BY <2>1 DEF SizedInv, PartDue, OpenUnlessIdle, ctl
  <2>4. memory' = [of |-> sent.byte, part |-> taken]
    BY <1>10 DEF CopyLenH, CopyLenL, CopyStatus, SizedInv, PartCopied, CopySteps
  <2>5. PartCopied'
    BY <2>1, <2>4 DEF SizedInv, PartCopied, Gave, history
  <2> QED
    BY <2>2, <2>3, <2>5 DEF SizedInv
<1>11. CASE CopyValidate
  <2>1. /\ pc = "copy_validate" /\ pc' \in {"accept_data", "new_unmask"}
        /\ state' = (IF reply.last THEN "last" ELSE "more")
        /\ target' = (IF reply.last THEN NoTarget ELSE target)
        /\ UNCHANGED <<handshake_in, cmd, progress, memory, history>>
    BY <1>11 DEF CopyValidate, Validate
  <2>2. /\ state = "busy" /\ Gave(taken) /\ (~reply.last => progress[target].left > 0)
        /\ memory = [of |-> sent.byte, part |-> taken]
    BY <2>1 DEF SizedInv, OpenUnlessIdle, PartCopied, CopySteps
  <2>3. CommandKept' /\ LengthRead' /\ OpenUnlessIdle'
    BY <2>1, <2>2 DEF SizedInv, CommandKept, LengthRead, OpenUnlessIdle, cmd, history, NullSteps,
       CopySteps
  <2>4. PartDue' /\ PartCopied'
    BY <2>1, <2>2 DEF PartDue, PartCopied, Gave, history, CopySteps
  <2> QED
    BY <2>3, <2>4 DEF SizedInv
<1>12. CASE NullCommand
  BY <1>12 DEF NullCommand, NullStep, SizedInv, LengthRead, NullSteps
<1> QED
  BY <1>1, <1>3, <1>4, <1>5, <1>6, <1>7, <1>8, <1>9, <1>10, <1>11, <1>12 DEF UCI_Server

LEMMA NextSizedInv ==
  ASSUME Patient, Sized
  PROVE  MaskInv /\ PatientInv /\ SizedInv /\ [Next]_vars => SizedInv'
<1>1. ASSUME SizedInv, ISR \/ UNCHANGED vars PROVE SizedInv'
  BY <1>1, SizedUnchanged DEF ISR, ISR_ReadStatus, ISR_MaskAndSend, IrqMaskSet, vars, registers,
     ctl, cmd, task
<1> QED
  BY <1>1, SizedWriteStep, SizedTaskStep DEF Next

SystemInv == MaskInv /\ PatientInv /\ SizedInv

LEMMA InitSystemInv == Init => SystemInv
  BY InitMaskInv, InitPatientInv, InitSizedInv DEF SystemInv

LEMMA NextSystemInv ==
  ASSUME Patient, Sized
  PROVE  SystemInv /\ [Next]_vars => SystemInv'
  BY NextMaskInv, NextPatientInv, NextSizedInv DEF SystemInv

(* Data is shown only for a command that was pushed and is still open. *)
THEOREM DataOfOpenCommand == Patient /\ Sized => (Spec => []DataAnswersCommand)
<1> SUFFICES ASSUME Patient, Sized PROVE Spec => []DataAnswersCommand
  OBVIOUS
<1>1. SystemInv => DataAnswersCommand
  BY DEF SystemInv, SizedInv, OpenUnlessIdle, DataAnswersCommand, IsData
<1> QED
  BY <1>1, InitSystemInv, NextSystemInv, PTL DEF Spec

(* The target parses the command that was pushed, with all of its bytes. *)
THEOREM TargetGetsWholeCommand == Patient /\ Sized => (Spec => []WholeCommand)
<1> SUFFICES ASSUME Patient, Sized PROVE Spec => []WholeCommand
  OBVIOUS
<1>1. SystemInv => WholeCommand
  <2> SUFFICES ASSUME SystemInv, pc = "accept_command"
               PROVE  sent = [open |-> TRUE, byte |-> command_byte, len |-> length]
    BY DEF WholeCommand
  <2>1. "NEW" \in handshake_in
    BY FlagOfBlock DEF SystemInv
  <2> QED
    BY <2>1 DEF SystemInv, SizedInv, CommandKept, LengthRead
<1> QED
  BY <1>1, InitSystemInv, NextSystemInv, PTL DEF Spec

(* A target is asked for more only when it has a part to give. *)
THEOREM MoreOnlyWhenDue == Patient /\ Sized => (Spec => []MoreHasPart)
<1> SUFFICES ASSUME Patient, Sized PROVE Spec => []MoreHasPart
  OBVIOUS
<1>1. SystemInv => MoreHasPart
  <2> SUFFICES ASSUME SystemInv, pc = "more" PROVE progress[target].left > 0
    BY DEF MoreHasPart
  <2>1. "ACCEPTED" \in handshake_in
    BY FlagOfBlock DEF SystemInv
  <2> QED
    BY <2>1 DEF SystemInv, SizedInv, OpenUnlessIdle, PartDue, CopySteps
<1> QED
  BY <1>1, InitSystemInv, NextSystemInv, PTL DEF Spec

(****************************************************************************)
(* The interface implements the protocol: the initial states map to its     *)
(* initial state, and every step to one of its steps or to a stutter.       *)
(****************************************************************************)
ProtocolSteps == Protocol!Init /\ [][Protocol!Next]_(Protocol!vars)

LEMMA InitProtocol == Init => Protocol!Init
  BY DEF Init, Protocol!Init, Protocol!Nothing, IsData

LEMMA PushMaps ==
  ASSUME SystemInv, handshake_in = {}, Pushes, UNCHANGED memory
  PROVE  Protocol!Push(sent')
  BY DEF Pushes, Protocol!Push, IsData

LEMMA AcceptMaps ==
  ASSUME SystemInv, handshake_in = {}, Accepts, UNCHANGED memory
  PROVE  Protocol!Accept
<1>1. CASE state = "more"
  <2>1. Gave(taken) /\ taken \in Nat /\ target \in Targets
    BY <1>1 DEF SystemInv, SizedInv, PartDue, PatientInv, TargetOfState, MaskInv, TypeInv, TypeOK
  <2>2. progress[target].left \in Nat
    BY <2>1 DEF SystemInv, MaskInv, TypeInv, TypeOK
  <2>3. taken <= MaxMore
    BY <2>1, <2>2 DEF Gave
  <2> QED
    BY <1>1, <2>3 DEF Accepts, Accepted, Protocol!Accept, Protocol!Nothing, IsData
<1>2. CASE state = "last"
  BY <1>2 DEF Accepts, Accepted, Protocol!Accept, Protocol!Nothing, IsData
<1> QED
  BY <1>1, <1>2 DEF Accepts, IsData

LEMMA ReplyMaps ==
  ASSUME SystemInv, CopyValidate
  PROVE  Protocol!Reply(~reply.last)
<1>1. /\ state = "busy" /\ memory = [of |-> sent.byte, part |-> taken]
      /\ sent.len > 0
  BY DEF SystemInv, SizedInv, OpenUnlessIdle, PartCopied, CopySteps, CopyValidate, Task
<1>2. /\ state' = (IF reply.last THEN "last" ELSE "more")
      /\ UNCHANGED <<handshake_in, memory, sent, taken>>
  BY DEF CopyValidate, Validate, history
<1> QED
  BY <1>1, <1>2 DEF Protocol!Reply, IsData

LEMMA AbortMaps ==
  ASSUME SystemInv, Abort
  PROVE  Protocol!Aborted
<1>1. "ABORT" \in handshake_in
  BY DEF SystemInv, MaskInv, BlockOfItem, PatientInv, OneItem, AbortSteps, Abort, Task
<1> QED
  BY <1>1 DEF Abort, HandshakeReset, Protocol!Aborted, Protocol!Nothing, IsData

(* What a C64 program sees of a step that the protocol does not name. *)
LEMMA StutterMaps ==
  ASSUME UNCHANGED <<state, sent, taken>>, "ABORT" \in handshake_in' <=> "ABORT" \in handshake_in,
         IsData(state) => memory' = memory
  PROVE  UNCHANGED Protocol!vars
<1> DEFINE shown == IF IsData(state) /\ sent.len > 0 THEN {memory} ELSE {}
<1>1. shown' = shown
  BY DEF IsData
<1>2. ("ABORT" \in handshake_in)' = ("ABORT" \in handshake_in)
  OBVIOUS
<1> HIDE DEF shown
<1>3. <<state, sent, taken, shown, "ABORT" \in handshake_in>>'
        = <<state, sent, taken, shown, "ABORT" \in handshake_in>>
  BY Zenon, <1>1, <1>2
<1> QED
  BY <1>3 DEF Protocol!vars, shown

LEMMA NextProtocol ==
  ASSUME Patient, Sized
  PROVE  SystemInv /\ [Next]_vars => [Protocol!Next]_(Protocol!vars)
<1> SUFFICES ASSUME SystemInv, [Next]_vars PROVE Protocol!Next \/ UNCHANGED Protocol!vars
  OBVIOUS
<1>1. ASSUME NEW bits \in Controls, C64_WriteControl(bits)
      PROVE  Protocol!Next \/ UNCHANGED Protocol!vars
  <2>1. /\ handshake_in = {} /\ UNCHANGED memory
        /\ Pushes \/ Accepts \/ RequestsAbort \/ WritesNothing
    BY <1>1, PatientWrite DEF task
  <2>2. CASE Pushes
    <3>1. sent' \in [open : {TRUE}, byte : Commands \cup {NoByte}, len : 0 .. CmdEnd + 1]
      BY <2>2 DEF Pushes, SystemInv, MaskInv, TypeInv, TypeOK, CommandRecords
    <3> QED
      BY <2>1, <2>2, <3>1, PushMaps DEF Protocol!Next
  <2>3. CASE Accepts
    BY <2>1, <2>3, AcceptMaps DEF Protocol!Next
  <2>4. CASE RequestsAbort
    BY <2>1, <2>4 DEF RequestsAbort, Protocol!Next, Protocol!RequestAbort, history
  <2>5. CASE WritesNothing
    BY <2>1, <2>5, StutterMaps DEF WritesNothing, history
  <2> QED
    BY <2>1, <2>2, <2>3, <2>4, <2>5
<1>2. CASE CopyValidate
  <2>1. (~reply.last) \in BOOLEAN
    BY Zenon
  <2> QED
    BY <1>2, <2>1, ReplyMaps DEF Protocol!Next
<1>3. CASE Abort
  BY <1>3, AbortMaps DEF Protocol!Next
<1>4. CASE CopyLenH
  <2>1. ~IsData(state)
    BY <1>4 DEF CopyLenH, Task, SystemInv, SizedInv, OpenUnlessIdle, CopySteps, IsData
  <2> QED
    BY <1>4, <2>1, StutterMaps DEF CopyLenH, WriteResponseLenH, ctl, history
<1>5. CASE AcceptData \/ AcceptCommand
  BY <1>5, StutterMaps DEF AcceptData, AcceptCommand, AcceptFlag, history
<1>6. CASE \/ \E b \in Commands : C64_WriteCommand(b)
           \/ C64_ReadResponse \/ C64_ReadStatus \/ UNCHANGED vars
  BY <1>6, StutterMaps DEF C64_WriteCommand, C64_ReadResponse, C64_ReadStatus, SlotWriteCommand,
     SlotReadResponse, SlotReadStatus, vars, registers, ctl, task, history
<1>7. CASE ISR \/ Receive \/ AbortUnmask \/ AcceptUnmask \/ NewUnmask \/ More
           \/ LengthL \/ LengthH \/ CopyLenL \/ CopyStatus
  BY <1>7, StutterMaps DEF ISR, ISR_ReadStatus, ISR_MaskAndSend, IrqMaskSet, Receive, AbortUnmask,
     AcceptUnmask, NewUnmask, Unmask, IrqMaskClear, More, LengthL, LengthH, CopyLenL, CopyStatus,
     WriteResponseLenL, WriteStatusLength, registers, ctl, task, history
<1>8. ~NullCommand
  BY DEF NullCommand, NullStep, Task, SystemInv, SizedInv, LengthRead, NullSteps
<1> QED
  BY <1>1, <1>2, <1>3, <1>4, <1>5, <1>6, <1>7, <1>8 DEF Next, C64, UCI_Server

(* With a patient C64 program that minds its sizes the interface behaves as *)
(* UciProtocol says: each push is answered by the parts of its own reply in *)
(* order, and an abort ends in idle with nothing left.  (The fairness half  *)
(* of ImplementsProtocol is liveness, which the run uci_patient checks.)    *)
THEOREM ImplementsProtocolSteps == Patient /\ Sized => (Spec => ProtocolSteps)
<1> SUFFICES ASSUME Patient, Sized PROVE Spec => ProtocolSteps
  OBVIOUS
<1> QED
  BY InitSystemInv, NextSystemInv, InitProtocol, NextProtocol, PTL DEF Spec, ProtocolSteps

=============================================================================
