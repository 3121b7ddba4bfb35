------------------------------ MODULE MCIecTalk ------------------------------
(* Small instances of the channels: blocks of three bytes, a FIFO of two. *)
EXTENDS IecTalk

CONSTANT OpenLengths    \* of the files that are read

MCOpenings ==
  [kind : {"file"}, length : OpenLengths]
  \cup {[kind |-> "dir", length |-> 2 * Block],
        [kind |-> "write", length |-> 0], [kind |-> "missing", length |-> 0]}
=============================================================================
