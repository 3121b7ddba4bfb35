------------------------- MODULE MCCommandInterface -------------------------
(* The command interface on a small instance. *)
EXTENDS CommandInterface
=============================================================================
