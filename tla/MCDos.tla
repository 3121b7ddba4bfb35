-------------------------------- MODULE MCDos ---------------------------------
(* A file of less than a part and one of two parts; an empty directory, one *)
(* of one entry and one of three.                                           *)
EXTENDS Dos
MCSizes == [short |-> 1, long |-> 4]
MCEntries == [none |-> 0, one |-> 1, more |-> 3]
=============================================================================
