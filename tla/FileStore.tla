------------------------------ MODULE FileStore -------------------------------
(****************************************************************************)
(* What a file system promises to those who hold its files: a read gets the *)
(* next bytes of the file, a write replaces the next bytes and nothing      *)
(* else.  Nothing is promised of a file that is damaged.                    *)
(****************************************************************************)
EXTENDS Integers, Sequences

CONSTANTS Handles, Files, Sizes,
          Lossy        \* whether a write may spoil the file it is for

VARIABLES contents,    \* the bytes of each file; what h wrote reads as h
          sound,       \* the files that are not damaged
          handle       \* [file, pos, left, doing, got] of each handle

vars == <<contents, sound, handle>>

Closed == [file |-> 0, pos |-> 0, left |-> 0, doing |-> "closed", got |-> <<>>]
Failed == [Closed EXCEPT !.doing = "failed"]
Of(h) == contents[handle[h].file]

Open(h, f) ==
  /\ handle[h].doing = "closed"
  /\ handle' = [handle EXCEPT ![h] =
       IF f \in sound THEN [Closed EXCEPT !.file = f, !.doing = "idle"] ELSE Failed]
  /\ UNCHANGED <<contents, sound>>

Close(h) ==
  /\ handle[h].doing \in {"idle", "failed"}
  /\ handle' = [handle EXCEPT ![h] = Closed]
  /\ UNCHANGED <<contents, sound>>

Seek(h, p) ==
  /\ handle[h].doing = "idle"
  /\ handle' = [handle EXCEPT ![h].pos = p, ![h].got = <<>>]
  /\ UNCHANGED <<contents, sound>>

Start(h, what, n) ==
  /\ handle[h].doing = "idle"
  /\ handle' = [handle EXCEPT ![h].doing = what, ![h].left = n, ![h].got = <<>>]
  /\ UNCHANGED <<contents, sound>>

Get(h, n) ==
  /\ handle[h].doing = "read" /\ n <= handle[h].left
  /\ handle[h].pos + n <= Len(Of(h))
  /\ handle' = [handle EXCEPT ![h].pos = @ + n, ![h].left = @ - n,
       ![h].got = @ \o SubSeq(Of(h), handle[h].pos + 1, handle[h].pos + n)]
  /\ UNCHANGED <<contents, sound>>

Put(h, n) ==
  /\ handle[h].doing = "write" /\ n <= handle[h].left
  /\ LET p == handle[h].pos
         size == IF p + n > Len(Of(h)) THEN p + n ELSE Len(Of(h))
     IN  contents' = [contents EXCEPT ![handle[h].file] =
           [i \in 1 .. size |-> IF i \in p + 1 .. p + n THEN h ELSE @[i]]]
  /\ handle' = [handle EXCEPT ![h].pos = @ + n, ![h].left = @ - n]
  /\ UNCHANGED sound

Spoil(h) ==
  /\ Lossy /\ handle[h].doing = "write"
  /\ sound' = sound \ {handle[h].file}
  /\ contents' = [contents EXCEPT ![handle[h].file] = <<>>]
  /\ handle' = [g \in Handles |-> IF handle[g].file = handle[h].file THEN Failed ELSE handle[g]]

(* Less than was asked for only at the end of the file. *)
Return(h) ==
  /\ handle[h].doing \in {"read", "write"}
  /\ \/ handle[h].left = 0
     \/ handle[h].doing = "read" /\ handle[h].pos = Len(Of(h))
  /\ handle' = [handle EXCEPT ![h].doing = "idle", ![h].left = 0]
  /\ UNCHANGED <<contents, sound>>

Fail(h) ==
  /\ handle[h].doing \in {"idle", "read", "write"}
  /\ handle' = [handle EXCEPT ![h] = Failed]
  /\ UNCHANGED <<contents, sound>>

Next ==
  \E h \in Handles :
    \/ Close(h) \/ Return(h) \/ Fail(h) \/ Spoil(h)
    \/ handle[h].doing = "closed" /\ \E f \in Files : Open(h, f)
    \/ handle[h].doing = "idle" /\ \E n \in Sizes :
         Seek(h, n) \/ Start(h, "read", n) \/ Start(h, "write", n)
    \/ handle[h].doing = "read" /\ \E n \in Sizes : Get(h, n)
    \/ handle[h].doing = "write" /\ \E n \in Sizes : Put(h, n)

(* The files may hold anything at first. *)
Init == sound \subseteq Files /\ handle = [h \in Handles |-> Closed]

Spec == Init /\ [][Next]_vars
=============================================================================
