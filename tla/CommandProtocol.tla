--------------------------- MODULE CommandProtocol ---------------------------
(****************************************************************************)
(* The register block of the Ultimate-II command interface, as the FPGA     *)
(* implements it (fpga/io/command_interface/vhdl_source): four registers on *)
(* the C64 side, a set of registers on the side of the Ultimate's CPU, and  *)
(* the memory behind them.                                                  *)
(*                                                                          *)
(* Every operator below is one bus access.  An access is one clock of the   *)
(* process p_control; when both sides access the block in the same clock,   *)
(* the assignments of the Ultimate's side come last in the process and win, *)
(* which is the interleaving "C64 first, Ultimate second".                  *)
(****************************************************************************)
EXTENDS Naturals

CONSTANTS
  Commands,     \* values of the first byte of a command
  CmdEnd,       \* last offset of the command buffer (895 in the FPGA)
  RespEnd,      \* last offset of the response buffer (895)
  StatEnd,      \* last offset of the status buffer (255)
  ByteBase      \* values of a length register (256)

Flags == {"NEW", "ACCEPTED", "ABORT"}                 \* handshake_in(0), (1), (2)
States == {"idle", "busy", "last", "more"}            \* "00", "01", "10", "11"
ControlBits == {"push", "accept", "abort", "clr_err", "freeze"}  \* bits 0, 1, 2, 3, 7

NoByte == 0                                           \* content of a RAM never written

ASSUME ProtocolAssumption ==
  /\ Commands \subseteq Nat \ {NoByte}
  /\ CmdEnd \in Nat /\ RespEnd \in Nat /\ StatEnd \in Nat
  /\ ByteBase \in Nat \ {0}

VARIABLES
  state,             \* slot_status(5 downto 4)
  handshake_in,      \* slot_status(2 downto 0), as the set of the bits that are '1'
  error_busy,        \* slot_status(3)
  freeze,            \* the C64 is stopped while it is TRUE
  irq_mask,          \* the flags that are masked
  command_pointer,   \* offset in the command buffer
  command_byte,      \* first byte of the command buffer
  response_pointer,  \* offset in the response buffer
  response_length,   \* [hi, lo]: the registers response_length(10..8) and (7..0)
  status_pointer,    \* offset in the status buffer
  status_length

ctl == <<state, handshake_in, error_busy, freeze>>
cmd == <<command_pointer, command_byte>>
resp == <<response_pointer, response_length, status_pointer, status_length>>
registers == <<ctl, cmd, resp, irq_mask>>

ProtocolTypeOK ==
  /\ state \in States
  /\ handshake_in \in SUBSET Flags
  /\ irq_mask \in SUBSET Flags
  /\ error_busy \in BOOLEAN /\ freeze \in BOOLEAN
  /\ command_pointer \in 0 .. CmdEnd
  /\ command_byte \in Commands \cup {NoByte}
  /\ response_pointer \in 0 .. RespEnd
  /\ response_length \in [hi : Nat, lo : 0 .. ByteBase - 1]
  /\ status_pointer \in 0 .. StatEnd
  /\ status_length \in 0 .. ByteBase - 1

ResponseLength == response_length.hi * ByteBase + response_length.lo

response_valid == response_pointer < ResponseLength    \* status bit 7, DATA_AV
status_valid   == status_pointer < status_length       \* status bit 6, STAT_AV

io_irq == handshake_in \ irq_mask # {}

(* Mutant: the status queue is not reset along with the response queue. *)
reset_response_only ==
  /\ response_pointer' = 0 /\ response_length' = [hi |-> 0, lo |-> 0]
  /\ UNCHANGED <<status_pointer, status_length>>

reset_response ==
  /\ response_pointer' = 0 /\ response_length' = [hi |-> 0, lo |-> 0]
  /\ status_pointer' = 0 /\ status_length' = 0

(****************************************************************************)
(* The C64 side: $DF1C (control), $DF1D (command), $DF1E and $DF1F (data).  *)
(****************************************************************************)

(* State after the C64 accepts the data: bit 1 of the state is cleared. *)
Accepted(s) == IF s = "more" THEN "busy" ELSE "idle"

IsData(s) == s \in {"last", "more"}

(* Mutant: the pointer runs past the end of the buffer. *)
SlotWriteCommandUnchecked(b) ==
  /\ command_pointer' = command_pointer + 1
  /\ command_byte' = IF command_pointer = 0 THEN b ELSE command_byte
  /\ UNCHANGED <<ctl, resp, irq_mask>>

SlotWriteCommand(b) ==
  /\ command_pointer' = IF command_pointer # CmdEnd THEN command_pointer + 1
                                                    ELSE command_pointer
  /\ command_byte' = IF command_pointer = 0 THEN b ELSE command_byte
  /\ UNCHANGED <<ctl, resp, irq_mask>>

SlotWriteControl(bits) ==
  LET pushed   == "push" \in bits /\ state = "idle"
      refused  == "push" \in bits /\ state # "idle"
      accepted == "accept" \in bits /\ IsData(state)
      aborted  == "abort" \in bits
  IN  /\ state' = CASE pushed   -> "busy"
                    [] accepted -> Accepted(state)
                    [] OTHER    -> state
      /\ handshake_in' = handshake_in \cup (IF pushed   THEN {"NEW"}      ELSE {})
                                      \cup (IF accepted THEN {"ACCEPTED"} ELSE {})
                                      \cup (IF aborted  THEN {"ABORT"}    ELSE {})
      /\ error_busy' = (refused \/ (error_busy /\ "clr_err" \notin bits))
      /\ freeze' = ({"push", "freeze"} \subseteq bits \/ (freeze /\ "push" \notin bits))
      /\ IF pushed \/ accepted \/ aborted THEN reset_response ELSE UNCHANGED resp
      /\ UNCHANGED <<cmd, irq_mask>>

SlotReadResponse ==
  /\ response_pointer' = IF response_pointer # RespEnd THEN response_pointer + 1
                                                       ELSE response_pointer
  /\ UNCHANGED <<ctl, cmd, irq_mask, response_length, status_pointer, status_length>>

SlotReadStatus ==
  /\ status_pointer' = IF status_pointer # StatEnd THEN status_pointer + 1
                                                   ELSE status_pointer
  /\ UNCHANGED <<ctl, cmd, irq_mask, response_pointer, response_length, status_length>>

(****************************************************************************)
(* The Ultimate side: the CMD_IF_ registers of command_intf.h.              *)
(****************************************************************************)

(* Mutant: the command pointer is left where the C64 put it. *)
AcceptFlagOnly(f) ==
  /\ handshake_in' = handshake_in \ {f}
  /\ UNCHANGED <<state, error_busy, freeze, cmd, resp, irq_mask>>

(* HANDSHAKE_OUT with bits 0..2 (clear these flags) and nothing else. *)
AcceptFlag(f) ==
  /\ handshake_in' = handshake_in \ {f}
  /\ command_pointer' = IF f = "NEW" THEN 0 ELSE command_pointer
  /\ UNCHANGED <<state, error_busy, freeze, command_byte, resp, irq_mask>>

(* Mutant: valid data does not let the C64 go. *)
ValidateFrozen(last) ==
  /\ state' = IF last THEN "last" ELSE "more"
  /\ UNCHANGED <<freeze, handshake_in, error_busy, cmd, resp, irq_mask>>

(* HANDSHAKE_OUT with bit 4 (data is valid) and bit 5 (there is more). *)
Validate(last) ==
  /\ state' = IF last THEN "last" ELSE "more"
  /\ freeze' = FALSE
  /\ UNCHANGED <<handshake_in, error_busy, cmd, resp, irq_mask>>

(* Mutant: the value 07 in place of 87, without bit 7. *)
HandshakeClear ==
  /\ handshake_in' = {}
  /\ command_pointer' = 0
  /\ UNCHANGED <<state, freeze, error_busy, command_byte, resp, irq_mask>>

(* HANDSHAKE_OUT = HANDSHAKE_RESET: bits 7, 2, 1 and 0. *)
HandshakeReset ==
  /\ state' = "idle"
  /\ freeze' = FALSE
  /\ handshake_in' = {}
  /\ command_pointer' = 0
  /\ reset_response
  /\ UNCHANGED <<error_busy, command_byte, irq_mask>>

WriteResponseLenH(n) ==
  /\ response_length' = [response_length EXCEPT !.hi = n]
  /\ UNCHANGED <<ctl, cmd, irq_mask, response_pointer, status_pointer, status_length>>

WriteResponseLenL(n) ==
  /\ response_length' = [response_length EXCEPT !.lo = n]
  /\ response_pointer' = 0
  /\ UNCHANGED <<ctl, cmd, irq_mask, status_pointer, status_length>>

WriteStatusLength(n) ==
  /\ status_length' = n
  /\ status_pointer' = 0
  /\ UNCHANGED <<ctl, cmd, irq_mask, response_pointer, response_length>>

IrqMaskSet(fs) ==
  /\ irq_mask' = irq_mask \cup fs
  /\ UNCHANGED <<ctl, cmd, resp>>

IrqMaskClear(fs) ==
  /\ irq_mask' = irq_mask \ fs
  /\ UNCHANGED <<ctl, cmd, resp>>
=============================================================================
