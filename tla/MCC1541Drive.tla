---------------------------- MODULE MCC1541Drive ----------------------------
(* The drive on a small instance: two tracks, two image files. *)
EXTENDS C1541Drive
=============================================================================
