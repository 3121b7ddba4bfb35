----------------------------- MODULE ByteStream ------------------------------
(****************************************************************************)
(* What a device on the serial bus promises for a channel that is opened    *)
(* for reading: the bytes of the file, each once and in order, and the end  *)
(* signalled with the last one and only with the last one.  A host may stop *)
(* and go on later.                                                         *)
(****************************************************************************)
EXTENDS Naturals, Sequences

CONSTANTS Channels, Lengths

VARIABLES length,    \* length of the file that is open on each channel
          out,       \* what the host has got of it; byte i of a file is i
          ended      \* the end was signalled

vars == <<length, out, ended>>

Init ==
  /\ length = [c \in Channels |-> 0]
  /\ out = [c \in Channels |-> <<>>]
  /\ ended = [c \in Channels |-> FALSE]

Open(c, l) ==
  /\ length' = [length EXCEPT ![c] = l]
  /\ out' = [out EXCEPT ![c] = <<>>]
  /\ ended' = [ended EXCEPT ![c] = FALSE]

Close(c) == length' = [length EXCEPT ![c] = 0] /\ UNCHANGED <<out, ended>>

Read(c) ==
  /\ Len(out[c]) < length[c]
  /\ out' = [out EXCEPT ![c] = Append(@, Len(@))]
  /\ ended' = [ended EXCEPT ![c] = Len(out'[c]) = length[c]]
  /\ UNCHANGED length

Next ==
  \E c \in Channels : Read(c) \/ Close(c) \/ \E l \in Lengths : Open(c, l)

Spec == Init /\ [][Next]_vars
=============================================================================
