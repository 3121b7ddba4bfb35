----------------------------- MODULE UciProtocol -----------------------------
(****************************************************************************)
(* What the command interface promises to a C64 program: the four states    *)
(* that the comment of command_protocol.vhd lists, seen from outside.  One  *)
(* command is open at a time; it is answered in parts, in order; an abort   *)
(* closes it and brings the interface back to idle, and nothing else does.  *)
(****************************************************************************)
EXTENDS Naturals

CONSTANTS Cmds,      \* commands, as the C64 sends them
          None,      \* no command is open
          Answer(_, _)   \* what the C64 can read in part k of the reply to command c

VARIABLES phase,     \* "idle", "busy", "last" or "more"
          open,      \* the open command
          part,      \* the part of its reply that is due or shown
          shown,     \* what the C64 can read
          aborting   \* an abort is requested and not done

vars == <<phase, open, part, shown, aborting>>

Nothing == {}

Init == phase = "idle" /\ open = None /\ part = 0 /\ shown = Nothing /\ aborting = FALSE

Push(c) ==
  /\ phase = "idle" /\ ~aborting
  /\ phase' = "busy" /\ open' = c /\ part' = 0
  /\ UNCHANGED <<shown, aborting>>

Reply(more) ==
  /\ phase = "busy"
  /\ phase' = IF more THEN "more" ELSE "last"
  /\ shown' = Answer(open, part)
  /\ UNCHANGED <<open, part, aborting>>

Accept ==
  /\ phase \in {"more", "last"} /\ ~aborting
  /\ IF phase = "more"
     THEN phase' = "busy" /\ part' = part + 1 /\ UNCHANGED open
     ELSE phase' = "idle" /\ part' = 0 /\ open' = None
  /\ shown' = Nothing
  /\ UNCHANGED aborting

RequestAbort == ~aborting /\ aborting' = TRUE /\ UNCHANGED <<phase, open, part, shown>>

Aborted ==
  /\ aborting /\ aborting' = FALSE
  /\ phase' = "idle" /\ open' = None /\ part' = 0 /\ shown' = Nothing

Next ==
  \/ \E c \in Cmds : Push(c)
  \/ \E more \in BOOLEAN : Reply(more)
  \/ Accept
  \/ RequestAbort
  \/ Aborted

(* A command is answered and an abort is done, without help of the C64. *)
Fairness == WF_vars(\E more \in BOOLEAN : Reply(more)) /\ WF_vars(Aborted)

Spec == Init /\ [][Next]_vars /\ Fairness
=============================================================================
