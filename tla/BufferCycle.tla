----------------------------- MODULE BufferCycle -----------------------------
(****************************************************************************)
(* What the receive path promises about its packet buffers: each buffer is  *)
(* at one place, goes round in one direction, and the packets reach the     *)
(* network stack in the order in which they came from the wire.             *)
(****************************************************************************)
EXTENDS Sequences

CONSTANT Ids          \* the packet buffers

VARIABLES place,      \* where each buffer is
          received    \* buffers with a packet nobody has looked at yet, oldest first

vars == <<place, received>>

Places == {"driver", "free", "filter", "received", "offered", "stack"}

Init == place = [b \in Ids |-> "driver"] /\ received = <<>>

Move(b, from, to) == place[b] = from /\ place' = [place EXCEPT ![b] = to]

(* Only one packet is coming in at a time. *)
Take(b) ==
  /\ \A c \in Ids : place[c] # "filter"
  /\ Move(b, "free", "filter")
  /\ UNCHANGED received

Receive(b) == Move(b, "filter", "received") /\ received' = Append(received, b)

Offer ==
  /\ received # <<>>
  /\ Move(Head(received), "received", "offered")
  /\ received' = Tail(received)

Accept(b) == Move(b, "offered", "stack") /\ UNCHANGED received

Release(b, from) == Move(b, from, "free") /\ UNCHANGED received

Next ==
  \/ Offer
  \/ \E b \in Ids :
       \/ Take(b) \/ Receive(b) \/ Accept(b)
       \/ \E from \in {"driver", "offered", "stack"} : Release(b, from)

Spec == Init /\ [][Next]_vars
=============================================================================
