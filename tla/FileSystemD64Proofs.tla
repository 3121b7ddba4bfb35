-------------------------- MODULE FileSystemD64Proofs --------------------------
(****************************************************************************)
(* Proofs about FileSystemD64, for all images, tables and bounds, where     *)
(* Careful holds: types, errors with a reason, and the refinement of        *)
(* FileStore.                                                               *)
(*                                                                          *)
(* A chain is defined by recursion.  Its equation is shown to have a        *)
(* solution and to end, with the least number of a set in the place of an   *)
(* induction principle (LeastNumber, RecursionExists, ChainIs).  No step    *)
(* changes the links of a file that is not given up, so every chain may be  *)
(* taken from the image the medium had at first, which does not change      *)
(* (ChainRigid).  The inductive invariant Holds(image) says that every      *)
(* handle is at a sector of its chain and the request under way fits it.    *)
(* The promises of the handles and the contents of the files are then       *)
(* written with that image (Promised, Stored), and each action is one of    *)
(* FileStore or changes nothing there.                                      *)
(****************************************************************************)
EXTENDS FileSystemD64, D64Geometry, FiniteSetTheorems, WellFoundedInduction, TLAPS

(****************************************************************************)
(* Numbers                                                                  *)
(****************************************************************************)

(* A set of numbers has a least one. *)
LEMMA LeastNumber ==
  ASSUME NEW T \in SUBSET Nat, T # {}
  PROVE  \E n \in T : \A m \in T : n <= m
<1> DEFINE R == OpToRel(<, Nat)
<1>1. IsWellFoundedOn(R, Nat)
  BY NatLessThanWellFounded
<1>2. \A m, n \in Nat : m < n => <<m, n>> \in R
  BY DEF OpToRel
<1> HIDE DEF R
<1>3. PICK n \in T : \A m \in T : <<m, n>> \notin R
  BY <1>1, WFMin
<1>4. ASSUME NEW m \in T PROVE n <= m
  <2>1. m \in Nat /\ n \in Nat
    OBVIOUS
  <2>2. ~(m < n)
    BY <1>2, <1>3, <2>1
  <2> QED
    BY <2>1, <2>2
<1> QED
  BY <1>4

(* Induction, over the set of the numbers that have a property *)
LEMMA Induction ==
  ASSUME NEW T \in SUBSET Nat, 0 \in T, \A n \in T : n + 1 \in T
  PROVE  T = Nat
<1> SUFFICES ASSUME Nat \ T # {} PROVE FALSE
  OBVIOUS
<1>1. PICK n \in Nat \ T : \A m \in Nat \ T : n <= m
  BY LeastNumber
<1>2. n - 1 \in Nat /\ n - 1 \notin Nat \ T
  BY <1>1
<1>3. n = (n - 1) + 1
  BY <1>1
<1> QED
  BY <1>1, <1>2, <1>3

(* A function on the numbers may be defined by its first value and the step *)
(* from each value to the next.                                             *)
RunTo(S, a, F, n, p) ==
  p \in [Nat -> S] /\ p[0] = a /\ \A i \in 1 .. n : p[i] = F[p[i - 1]]

(* Two runs of the same definition agree as far as both of them go. *)
LEMMA RunsAgree ==
  ASSUME NEW S, NEW a \in S, NEW F \in [S -> S], NEW n \in Nat, NEW m \in Nat, n <= m,
         NEW p, NEW q, RunTo(S, a, F, n, p), RunTo(S, a, F, m, q)
  PROVE  p[n] = q[n]
<1> DEFINE T == {i \in Nat : i <= n => p[i] = q[i]}
<1>1. 0 \in T
  BY DEF RunTo
<1>2. ASSUME NEW i \in T PROVE i + 1 \in T
  <2>1. CASE i + 1 <= n
    <3>1. i + 1 \in 1 .. n /\ i + 1 \in 1 .. m /\ (i + 1) - 1 = i /\ i <= n /\ i \in Nat
      BY <2>1
    <3>2. p[i] = q[i]
      BY <3>1
    <3>3. p[i + 1] = F[p[i]] /\ q[i + 1] = F[q[i]]
      BY <3>1 DEF RunTo
    <3> QED
      BY <3>1, <3>2, <3>3
  <2> QED
    BY <2>1
<1>3. T = Nat
  <2> HIDE DEF T
  <2>1. T \in SUBSET Nat
    BY DEF T
  <2> QED
    BY <1>1, <1>2, <2>1, Induction
<1> QED
  BY <1>3

(* There is a run of every length. *)
LEMMA RunExists ==
  ASSUME NEW S, NEW a \in S, NEW F \in [S -> S], NEW n \in Nat
  PROVE  \E p : RunTo(S, a, F, n, p)
<1> DEFINE T == {i \in Nat : \E p : RunTo(S, a, F, i, p)}
<1>1. 0 \in T
  <2>1. RunTo(S, a, F, 0, [i \in Nat |-> a])
    BY DEF RunTo
  <2> QED
    BY <2>1
<1>2. ASSUME NEW i \in T PROVE i + 1 \in T
  <2>1. PICK p : RunTo(S, a, F, i, p)
    OBVIOUS
  <2> DEFINE q == [p EXCEPT ![i + 1] = F[p[i]]]
  <2>2. i \in Nat /\ p \in [Nat -> S] /\ q \in [Nat -> S] /\ q[0] = a
    BY <2>1 DEF RunTo
  <2>3. ASSUME NEW j \in 1 .. i + 1 PROVE q[j] = F[q[j - 1]]
    <3>1. j \in Nat /\ j - 1 \in Nat /\ j - 1 # i + 1
      BY <2>2
    <3>2. q[j - 1] = p[j - 1]
      BY <2>2, <3>1
    <3>3. CASE j = i + 1
      BY <2>2, <3>2, <3>3
    <3>4. CASE j # i + 1
      <4>1. j \in 1 .. i /\ q[j] = p[j]
        BY <2>2, <3>1, <3>4
      <4> QED
        BY <2>1, <3>2, <4>1 DEF RunTo
    <3> QED
      BY <3>3, <3>4
  <2>4. RunTo(S, a, F, i + 1, q)
    <3> HIDE DEF q
    <3> QED
      BY <2>2, <2>3 DEF RunTo
  <2> QED
    BY <2>2, <2>4
<1>3. T = Nat
  <2> HIDE DEF T
  <2>1. T \in SUBSET Nat
    BY DEF T
  <2> QED
    BY <1>1, <1>2, <2>1, Induction
<1> QED
  BY <1>3

(* So a recursive function on the numbers is what its equation says. *)
LEMMA RecursionExists ==
  ASSUME NEW S, NEW a \in S, NEW F \in [S -> S]
  PROVE  \E h \in [Nat -> S] : h = [n \in Nat |-> IF n = 0 THEN a ELSE F[h[n - 1]]]
<1> DEFINE run(n) == CHOOSE p : RunTo(S, a, F, n, p)
           h == [n \in Nat |-> run(n)[n]]
<1>1. ASSUME NEW n \in Nat PROVE RunTo(S, a, F, n, run(n))
  BY RunExists
<1> HIDE DEF run
<1>2. h \in [Nat -> S]
  BY <1>1 DEF RunTo
<1>3. h[0] = a
  BY <1>1 DEF RunTo
<1>4. ASSUME NEW n \in Nat, n # 0 PROVE h[n] = F[h[n - 1]]
  <2>1. n - 1 \in Nat /\ n - 1 <= n /\ n \in 1 .. n
    BY <1>4
  <2>2. run(n)[n] = F[run(n)[n - 1]]
    BY <1>1, <2>1 DEF RunTo
  <2>3. run(n)[n - 1] = run(n - 1)[n - 1]
    <3>1. RunTo(S, a, F, n, run(n)) /\ RunTo(S, a, F, n - 1, run(n - 1))
      BY <1>1, <2>1
    <3> QED
      BY <2>1, <3>1, RunsAgree
  <2> QED
    BY <2>1, <2>2, <2>3
<1>5. h = [n \in Nat |-> IF n = 0 THEN a ELSE F[h[n - 1]]]
  <2>1. ASSUME NEW n \in Nat PROVE h[n] = IF n = 0 THEN a ELSE F[h[n - 1]]
    <3> HIDE DEF h
    <3> QED
      BY <1>3, <1>4
  <2> HIDE DEF h
  <2> QED
    BY <1>2, <2>1
<1> QED
  BY <1>2, <1>5

(****************************************************************************)
(* Chains                                                                   *)
(****************************************************************************)

(* Sequences of sectors that start somewhere *)
Paths == Seq(Positions) \ {<<>>}

(* A path along the links of an image, without a sector twice *)
Path(image, s) ==
  /\ s \in Paths
  /\ \A i, j \in 1 .. Len(s) : s[i] = s[j] => i = j
  /\ \A i \in 1 .. Len(s) - 1 : image[s[i]].link = s[i + 1]

(* A path that cannot be made longer *)
Ended(image, s) ==
  LET next == image[s[Len(s)]].link
  IN  next \in Positions => \E i \in 1 .. Len(s) : s[i] = next

(* What a path is as a sequence of positions. *)
LEMMA PathFacts ==
  ASSUME NEW s \in Paths
  PROVE  /\ s \in Seq(Positions) /\ Len(s) \in Nat \ {0} /\ DOMAIN s = 1 .. Len(s)
         /\ \A i \in 1 .. Len(s) : s[i] \in Positions
         /\ Last(s) = s[Len(s)] /\ Last(s) \in Positions
         /\ Range(s) = {s[i] : i \in 1 .. Len(s)}
<1>1. s \in Seq(Positions) /\ s # <<>>
  BY DEF Paths
<1>2. Len(s) \in Nat /\ Len(s) # 0 /\ DOMAIN s = 1 .. Len(s)
  BY <1>1
<1>3. \A i \in 1 .. Len(s) : s[i] \in Positions
  BY <1>1
<1>4. Len(s) \in 1 .. Len(s)
  BY <1>2
<1> QED
  BY <1>1, <1>2, <1>3, <1>4 DEF Last, Range

(* A path that has ended stays; another gets the sector its last link *)
(* names.                                                             *)
LEMMA LongerIs ==
  ASSUME NEW image, NEW s \in Paths
  PROVE  LET next == image[s[Len(s)]].link
         IN  /\ Longer(image)[s] \in Paths
             /\ Ended(image, s) => Longer(image)[s] = s
             /\ ~Ended(image, s) => next \in Positions /\ Longer(image)[s] = Append(s, next)
<1> DEFINE next == image[s[Len(s)]].link
<1>1. s \in Seq(Positions) \ {<<>>} /\ Last(s) = s[Len(s)]
  BY PathFacts DEF Paths
<1>2. Longer(image)[s] =
        IF next \in Positions /\ next \notin Range(s) THEN Append(s, next) ELSE s
  BY <1>1 DEF Longer
<1>3. next \in Range(s) <=> \E i \in 1 .. Len(s) : s[i] = next
  BY PathFacts
<1>4. next \in Positions => Append(s, next) \in Paths
  BY <1>1 DEF Paths
<1> QED
  BY <1>2, <1>3, <1>4 DEF Ended

(* Longer takes paths to paths. *)
LEMMA LongerType ==
  ASSUME NEW image
  PROVE  Longer(image) \in [Paths -> Paths]
<1>1. \A s \in Paths : Longer(image)[s] \in Paths
  BY LongerIs
<1>2. Longer(image) = [s \in Paths |-> Longer(image)[s]]
  BY DEF Longer, Paths
<1> QED
  BY <1>1, <1>2

(* A path of links, none of them twice, stays one when it gets longer. *)
LEMMA LongerPath ==
  ASSUME NEW image, NEW s, Path(image, s), ~Ended(image, s)
  PROVE  Path(image, Longer(image)[s]) /\ Len(Longer(image)[s]) = Len(s) + 1
         /\ Longer(image)[s][1] = s[1]
<1> DEFINE next == image[s[Len(s)]].link
           r == Append(s, next)
<1>1. s \in Paths /\ s \in Seq(Positions) /\ Len(s) \in Nat \ {0}
  BY PathFacts DEF Path
<1>2. next \in Positions /\ r = Longer(image)[s] /\ r \in Paths
  BY <1>1, LongerIs
<1>3. next \in Positions /\ \A i \in 1 .. Len(s) : s[i] # next
  BY DEF Ended
<1>4. /\ Len(r) = Len(s) + 1 /\ \A i \in 1 .. Len(s) : r[i] = s[i]
      /\ r[Len(s) + 1] = next
  BY <1>1, <1>2
<1> HIDE DEF r
<1>5. ASSUME NEW i \in 1 .. Len(r), NEW j \in 1 .. Len(r), r[i] = r[j] PROVE i = j
  <2>1. \A k \in 1 .. Len(r) : k = Len(s) + 1 \/ k \in 1 .. Len(s)
    BY <1>1, <1>4
  <2>2. CASE i \in 1 .. Len(s) /\ j \in 1 .. Len(s)
    BY <1>4, <1>5, <2>2 DEF Path
  <2>3. CASE i = Len(s) + 1 /\ j \in 1 .. Len(s)
    BY <1>3, <1>4, <1>5, <2>3
  <2>4. CASE j = Len(s) + 1 /\ i \in 1 .. Len(s)
    BY <1>3, <1>4, <1>5, <2>4
  <2> QED
    BY <2>1, <2>2, <2>3, <2>4
<1>6. ASSUME NEW i \in 1 .. Len(r) - 1 PROVE image[r[i]].link = r[i + 1]
  <2>1. i \in 1 .. Len(s) /\ r[i] = s[i]
    BY <1>1, <1>4
  <2>2. CASE i = Len(s)
    BY <1>4, <2>1, <2>2
  <2>3. CASE i # Len(s)
    <3>1. i \in 1 .. Len(s) - 1 /\ i + 1 \in 1 .. Len(s)
      BY <1>1, <2>1, <2>3
    <3> QED
      BY <1>4, <2>1, <3>1 DEF Path
  <2> QED
    BY <2>2, <2>3
<1> QED
  BY <1>1, <1>2, <1>4, <1>5, <1>6 DEF Path

(* No path has more sectors than the image. *)
LEMMA PathBounded ==
  ASSUME NEW image, NEW s, Path(image, s)
  PROVE  Len(s) <= Cardinality(Positions)
<1>1. s \in Paths /\ Len(s) \in Nat /\ DOMAIN s = 1 .. Len(s) /\ s \in [1 .. Len(s) -> Positions]
  <2>1. s \in Paths
    BY DEF Path
  <2>2. s \in Seq(Positions) /\ Len(s) \in Nat
    BY <2>1, PathFacts
  <2> QED
    BY <2>1, <2>2
<1>2. IsFiniteSet(Positions) /\ Cardinality(Positions) \in Nat
  BY D64Assumption, FS_CardinalityType
<1>3. IsFiniteSet(1 .. Len(s)) /\ Cardinality(1 .. Len(s)) = Len(s)
  <2>1. 1 \in Int /\ Len(s) \in Int
    BY <1>1
  <2>2. IsFiniteSet(1 .. Len(s)) /\ Cardinality(1 .. Len(s)) = IF 1 > Len(s) THEN 0 ELSE Len(s) - 1 + 1
    BY <2>1, FS_Interval
  <2> QED
    BY <1>1, <2>2
<1>4. ~(Cardinality(Positions) < Cardinality(1 .. Len(s)))
  <2> SUFFICES ASSUME Cardinality(Positions) < Cardinality(1 .. Len(s)) PROVE FALSE
    OBVIOUS
  <2>1. \E x, y \in 1 .. Len(s) : x # y /\ s[x] = s[y]
    BY <1>1, <1>2, <1>3, FS_PigeonHole
  <2> QED
    BY <2>1 DEF Path
<1> QED
  BY <1>1, <1>2, <1>3, <1>4

(* The chain from a sector follows the links and has ended: the recursion *)
(* in ChainIn comes to an end within the number of positions.             *)
LEMMA ChainIs ==
  ASSUME NEW image, NEW start \in Positions
  PROVE  /\ Path(image, ChainIn(image, start)) /\ Ended(image, ChainIn(image, start))
         /\ ChainIn(image, start)[1] = start
<1> DEFINE last == Cardinality(Positions)
           F == Longer(image)
<1>1. <<start>> \in Paths /\ F \in [Paths -> Paths]
  <2>1. <<start>> \in Seq(Positions) /\ <<start>> # <<>>
    OBVIOUS
  <2> QED
    BY <2>1, LongerType DEF Paths
<1>2. \E h \in [Nat -> Paths] : h = [n \in Nat |-> IF n = 0 THEN <<start>> ELSE F[h[n - 1]]]
  <2> HIDE DEF F
  <2> QED
    BY <1>1, RecursionExists
<1>3. PICK h : /\ h = [n \in Nat |-> IF n = 0 THEN <<start>> ELSE F[h[n - 1]]]
               /\ ChainIn(image, start) = h[last]
  <2> DEFINE g == CHOOSE g : g = [n \in Nat |-> IF n = 0 THEN <<start>> ELSE F[g[n - 1]]]
  <2>1. ChainIn(image, start) = g[last]
    BY DEF ChainIn
  <2>2. g = [n \in Nat |-> IF n = 0 THEN <<start>> ELSE F[g[n - 1]]]
    BY <1>2
  <2> HIDE DEF g
  <2> QED
    BY <2>1, <2>2
<1> DEFINE T == {n \in Nat : /\ Path(image, h[n]) /\ h[n][1] = start
                             /\ Ended(image, h[n]) \/ Len(h[n]) = n + 1}
<1> HIDE DEF F
<1>4. 0 \in T
  <2>1. h[0] = <<start>>
    BY <1>3
  <2>2. Path(image, <<start>>) /\ Len(<<start>>) = 0 + 1 /\ <<start>>[1] = start
    BY <1>1 DEF Path
  <2> HIDE DEF T
  <2> QED
    BY <2>1, <2>2 DEF T
<1>5. ASSUME NEW n \in T PROVE n + 1 \in T
  <2>1. n \in Nat /\ n + 1 \in Nat /\ n + 1 # 0 /\ (n + 1) - 1 = n
    OBVIOUS
  <2>2. h[n + 1] = F[h[n]]
    BY <1>3, <2>1
  <2>3. Path(image, h[n]) /\ h[n][1] = start /\ (Ended(image, h[n]) \/ Len(h[n]) = n + 1)
    OBVIOUS
  <2>4. h[n] \in Paths
    BY <2>3 DEF Path
  <2>5. CASE Ended(image, h[n])
    <3>1. h[n + 1] = h[n]
      BY <2>2, <2>4, <2>5, LongerIs DEF F
    <3> QED
      BY <2>1, <2>3, <2>5, <3>1
  <2>6. CASE ~Ended(image, h[n])
    <3>1. Path(image, h[n + 1]) /\ Len(h[n + 1]) = Len(h[n]) + 1 /\ h[n + 1][1] = h[n][1]
      BY <2>2, <2>3, <2>6, LongerPath DEF F
    <3> QED
      BY <2>1, <2>3, <2>6, <3>1
  <2> QED
    BY <2>5, <2>6
<1>6. last \in Nat
  BY D64Assumption, FS_CardinalityType
<1>7. last \in T
  <2> HIDE DEF T
  <2>1. T \in SUBSET Nat
    BY DEF T
  <2> QED
    BY <1>4, <1>5, <1>6, <2>1, Induction
<1>8. Len(h[last]) # last + 1
  <2>1. Path(image, h[last])
    BY <1>7
  <2>2. Len(h[last]) \in Nat /\ Len(h[last]) <= last
    BY <2>1, PathBounded, PathFacts DEF Path
  <2> QED
    BY <1>6, <2>2
<1> QED
  BY <1>3, <1>7, <1>8

(* Images whose links lead to the same sectors have the same chains. *)
SameLinks(image, view) ==
  \A p \in Positions :
    \/ view[p].link = image[p].link
    \/ view[p].link[1] = 0 /\ image[p].link[1] = 0

(* The link of a last sector, <<0, last>>, names no sector. *)
LEMMA NoPosition ==
  ASSUME NEW link, link[1] = 0
  PROVE  link \notin Positions
BY D64Assumption

(* Two images with the same links have the same chains. *)
LEMMA ChainRigid ==
  ASSUME NEW image, NEW view, SameLinks(image, view), NEW start
  PROVE  ChainIn(view, start) = ChainIn(image, start)
<1>1. ASSUME NEW s \in Paths PROVE Longer(view)[s] = Longer(image)[s]
  <2>1. s[Len(s)] \in Positions
    BY PathFacts
  <2>2. CASE view[s[Len(s)]].link = image[s[Len(s)]].link
    BY <2>2, LongerIs DEF Ended
  <2>3. CASE view[s[Len(s)]].link[1] = 0 /\ image[s[Len(s)]].link[1] = 0
    <3>1. view[s[Len(s)]].link \notin Positions /\ image[s[Len(s)]].link \notin Positions
      BY <2>3, NoPosition
    <3> QED
      BY <3>1, LongerIs DEF Ended
  <2> QED
    BY <2>1, <2>2, <2>3 DEF SameLinks
<1>2. Longer(view) = Longer(image)
  <2> DEFINE F == Longer(view)
             G == Longer(image)
  <2>1. F \in [Paths -> Paths] /\ G \in [Paths -> Paths]
    BY LongerType
  <2>2. \A s \in Paths : F[s] = G[s]
    BY <1>1
  <2> HIDE DEF F, G
  <2>3. F = G
    BY <2>1, <2>2
  <2> QED
    BY <2>3 DEF F, G
<1> QED
  BY <1>2 DEF ChainIn

(****************************************************************************)
(* What is assumed, and the invariant                                       *)
(****************************************************************************)

(* The one task *)
Task == CHOOSE t \in Tasks : TRUE
(* The request of the one task *)
now == call[Task]

(* The records that a handle takes on *)
FileRecords ==
  [name : Files \cup {0}, current : Nat \X Nat, offset : Nat \ {0, 1}, visited : SUBSET Positions,
   moved : BOOLEAN, failed : BOOLEAN, got : Seq(Values)]
(* The records that a request takes on *)
CallRecords ==
  [op : Ops, on : Handles \cup {0}, name : Files \cup {0}, left : 0 .. Max(Lengths),
   at : {"move", "advance", "next", "copy", "ok", "error"}, current : Nat \X Nat,
   idx : -1 .. 2 * Cells, visited : SUBSET Positions, io : BOOLEAN]

(* Where the variables have their values; TypeOK is a part of this. *)
Shape ==
  /\ disk \in [Positions -> Sectors] /\ sect_buffer \in Sectors
  /\ current_sector \in Positions \cup {Nowhere} /\ dirty \in BOOLEAN
  /\ bam \subseteq Free /\ lost \subseteq Files /\ ops \in Nat
  /\ file \in [Handles -> FileRecords] /\ call \in [Tasks -> CallRecords]

(* The buffer holds the sector that is in view. *)
Window ==
  /\ dirty => current_sector \in Positions
  /\ current_sector \in Positions => sect_buffer = View[current_sector]

(* The files have the sectors they had in the image they come from, and a *)
(* last sector ends inside of it, unless the file was given up.           *)
Links(image) ==
  /\ SameLinks(image, View)
  /\ \A p \in Positions :
       View[p].link[1] = 0 =>
         \/ View[p].link[2] \in 1 .. End - 1
         \/ p \in Free
         \/ \E f \in lost : p \in Trail(image, f)

(* The chain of a file ends in a last sector, in an image. *)
SoundIn(image, f) ==
  StartOf[f] \in Positions /\ image[Last(ChainIn(image, StartOf[f]))].link[1] = 0

(* A sector where a file may be *)
Reaches(image, gone, f, p) == p \in Trail(image, f) \/ (f \in gone /\ p \in Free)

(* A handle is at a sector of its file, not past the end, and came there  *)
(* along the chain.  `at` is the state of the request on the handle.      *)
Placed(image, view, gone, f, at) ==
  /\ f.current[1] # 0
  /\ f.current \in Positions => Reaches(image, gone, f.name, f.current)
  /\ f.name \notin gone /\ f.current \in Positions /\ at # "advance"
       /\ view[f.current].link[1] = 0 => f.offset <= view[f.current].link[2] + 1
  /\ f.name \notin gone /\ SoundIn(image, f.name) =>
       LET chain == ChainIn(image, StartOf[f.name])
       IN  \E k \in 1 .. Len(chain) :
             /\ f.current = chain[k]
             /\ ~f.moved => f.visited \subseteq {chain[j] : j \in 1 .. k}

(* What a handle has between the steps: a handle that has not failed is at *)
(* a place of its file, or at what the step under way makes of it.         *)
Fits(image, view, gone, f, at) ==
  /\ f.name \notin gone => f.offset \in 2 .. End
  /\ f.name # 0 =>
       /\ StartOf[f.name] \in Positions /\ StartOf[f.name] \in f.visited
       /\ ~f.failed /\ at # "error" => Placed(image, view, gone, f, at)

(* A read or write under way with c on the handle f *)
Transfers(image, view, gone, sector, c, f) ==
  /\ c.on \in Handles /\ f.name # 0 /\ ~f.failed
  /\ c.at \in {"move", "copy", "ok", "error"} \/ (c.op = "write" /\ c.at = "advance")
  /\ c.at \in {"move", "advance", "copy"} => c.left # 0
  /\ c.at = "copy" =>
       /\ sector \in Positions /\ Reaches(image, gone, f.name, sector)
       /\ f.name \notin gone => sector = f.current
  /\ c.at = "ok" /\ c.left # 0 /\ f.name \notin gone =>
       /\ c.op = "read" /\ f.current \in Positions
       /\ view[f.current].link[1] = 0 /\ f.offset = view[f.current].link[2] + 1

(* A search of the directory: the sectors up to the k-th were looked at, *)
(* all of them or of the last one some.                                   *)
Searched(view, c, k) ==
  LET chain == ChainIn(view, FirstDirectory)
  IN  /\ k \in 1 .. Len(chain) /\ c.current = chain[k] /\ c.visited = {chain[j] : j \in 1 .. k}
      /\ \A j \in 1 .. k - 1, i \in 1 .. Cells : view[chain[j]].data[i] # c.name
      /\ c.idx >= 0
      /\ c.at \in {"move", "next"} => c.idx % Cells = 0
      /\ c.at = "copy" =>
           \A i \in 1 .. c.idx % Cells : view[chain[k]].data[i] # c.name
      /\ c.at = "next" =>
           c.idx # 0 /\ \A i \in 1 .. Cells : view[chain[k]].data[i] # c.name

(* A search of the directory under way with c *)
Searches(view, sector, c) ==
  /\ c.on \in Handles /\ c.name \in Files /\ c.at # "advance"
  /\ c.at = "move" => c.current \in Positions
  /\ c.at = "copy" => sector = c.current
  /\ c.at = "next" => c.idx = 0 \/ sector = c.current
  /\ c.at \in {"move", "next", "copy"} =>
       \/ c.idx = -1 /\ c.visited = {} /\ c.at # "next" /\ c.current = RootSector
       \/ c.idx = 0 /\ c.visited = {} /\ c.at = "next"
       \/ \E k \in 1 .. Len(ChainIn(view, FirstDirectory)) : Searched(view, c, k)

(* What is known of the request under way, with c *)
Calls(image, view, gone, sector, c, files) ==
  /\ c.op = "none" => c = NoCall
  /\ c.op \in {"read", "write"} => Transfers(image, view, gone, sector, c, files[c.on])
  /\ c.op = "seek" => /\ c.on \in Handles /\ c.at \in {"ok", "error"}
                      /\ files[c.on].name # 0 /\ ~files[c.on].failed
  /\ c.op = "open" => Searches(view, sector, c) /\ (c.at # "ok" => files[c.on].name = 0)

(* What the request c is about to do, seen from the handle h *)
AtOf(c, h) == IF c.on = h THEN c.at ELSE "ok"

(* The inductive invariant, for the image that the medium had at first: the *)
(* window and the medium still have the links of that image, and every      *)
(* handle and the request under way fit the chains that they make.          *)
Holds(image) ==
  /\ image \in Images
  /\ Shape /\ Window /\ Links(image)
  /\ \A h \in Handles : Fits(image, View, lost, file[h], AtOf(now, h))
  /\ Calls(image, View, lost, current_sector, now, file)
  /\ ErrorsHaveReason

(* The inductive invariant: the medium came from one of the images. *)
IInv == \E image \in Images : Holds(image)

(* There is one task. *)
LEMMA TaskIs ==
  ASSUME Careful
  PROVE  Tasks = {Task} /\ Task \in Tasks
BY DEF Careful, Task

(* An image has a sector at every position. *)
LEMMA ImageIs ==
  ASSUME NEW image \in Images
  PROVE  image \in [Positions -> Sectors]
BY D64Assumption

(* The parts of a sector *)
LEMMA SectorIs ==
  ASSUME NEW s \in Sectors
  PROVE  /\ s.link \in Nat \X Nat /\ s.link[1] \in Nat /\ s.link[2] \in Nat
         /\ s.data \in [1 .. Cells -> Values] /\ s.link = <<s.link[1], s.link[2]>>
         /\ s = [link |-> s.link, data |-> s.data]
BY DEF Sectors

(* What the assumptions say of the constants that are used most *)
LEMMA CellsIs ==
  Cells \in Nat \ {0} /\ End \in Nat /\ End = Cells + 2 /\ 0 \notin Handles /\ 0 \notin Files
BY D64Assumption DEF End

(* There is a longest request, and it bounds the others. *)
LEMMA LongestIs ==
  /\ Max(Lengths) \in Lengths /\ Lengths \subseteq Nat \ {0} /\ Max(Lengths) \in Nat \ {0}
  /\ \A len \in Lengths : len \in Nat \ {0} /\ len <= Max(Lengths) /\ len \in 0 .. Max(Lengths)
<1>1. Lengths \subseteq Nat \ {0} /\ \E most \in Lengths : \A len \in Lengths : len <= most
  BY D64Assumption
<1>2. Max(Lengths) = CHOOSE x \in Lengths : \A y \in Lengths : x >= y
  BY DEF Max
<1>3. \E x \in Lengths : \A y \in Lengths : x >= y
  BY <1>1
<1>4. Max(Lengths) \in Lengths /\ \A len \in Lengths : len <= Max(Lengths)
  BY <1>1, <1>2, <1>3
<1>5. Max(Lengths) \in Nat \ {0}
  BY <1>1, <1>4
<1>6. ASSUME NEW len \in Lengths PROVE len \in Nat \ {0} /\ len <= Max(Lengths) /\ len \in 0 .. Max(Lengths)
  <2> DEFINE most == Max(Lengths)
  <2>1. len \in Nat \ {0} /\ len <= most /\ most \in Nat
    BY <1>1, <1>4, <1>5
  <2> HIDE DEF most
  <2>2. len \in 0 .. most
    BY <2>1
  <2> QED
    BY <2>1, <2>2 DEF most
<1> QED
  BY <1>1, <1>4, <1>5, <1>6

(* What a chain is as a sequence: it starts at its start, no sector comes *)
(* twice, and each link leads to the next one.                            *)
LEMMA ChainFacts ==
  ASSUME NEW image, NEW start \in Positions
  PROVE  LET s == ChainIn(image, start)
         IN  /\ s \in Seq(Positions) /\ Len(s) \in Nat \ {0}
             /\ s[1] = start /\ 1 \in 1 .. Len(s) /\ Len(s) \in 1 .. Len(s)
             /\ \A i \in 1 .. Len(s) : s[i] \in Positions
             /\ \A i, j \in 1 .. Len(s) : s[i] = s[j] => i = j
             /\ \A i \in 1 .. Len(s) - 1 : image[s[i]].link = s[i + 1] /\ i + 1 \in 1 .. Len(s)
             /\ image[s[Len(s)]].link \in Positions =>
                  \E i \in 1 .. Len(s) : s[i] = image[s[Len(s)]].link
             /\ Range(s) = {s[i] : i \in 1 .. Len(s)} /\ DOMAIN s = 1 .. Len(s)
             /\ Last(s) = s[Len(s)]
<1> DEFINE s == ChainIn(image, start)
<1>1. Path(image, s) /\ Ended(image, s) /\ s[1] = start
  BY ChainIs
<1> HIDE DEF s
<1>2. s \in Paths
  BY <1>1 DEF Path
<1>3. s \in Seq(Positions) /\ Len(s) \in Nat \ {0} /\ DOMAIN s = 1 .. Len(s)
      /\ (\A i \in 1 .. Len(s) : s[i] \in Positions)
      /\ Last(s) = s[Len(s)] /\ Range(s) = {s[i] : i \in 1 .. Len(s)}
  BY <1>2, PathFacts
<1>4. 1 \in 1 .. Len(s) /\ Len(s) \in 1 .. Len(s) /\ \A i \in 1 .. Len(s) - 1 : i + 1 \in 1 .. Len(s)
  BY <1>3
<1>5. \A i, j \in 1 .. Len(s) : s[i] = s[j] => i = j
  BY <1>1 DEF Path
<1>6. \A i \in 1 .. Len(s) - 1 : image[s[i]].link = s[i + 1]
  BY <1>1 DEF Path
<1>7. image[s[Len(s)]].link \in Positions => \E i \in 1 .. Len(s) : s[i] = image[s[Len(s)]].link
  BY <1>1 DEF Ended
<1>8. QED
  BY <1>1, <1>3, <1>4, <1>5, <1>6, <1>7 DEF s

(* The sectors of a file, with the chain that leads along them *)
LEMMA TrailIs ==
  ASSUME NEW image, NEW f \in Files, StartOf[f] \in Positions
  PROVE  LET s == ChainIn(image, StartOf[f])
         IN  /\ Trail(image, f) = {s[i] : i \in 1 .. Len(s)} /\ Trail(image, f) \subseteq Positions
             /\ \A p \in Trail(image, f) : image[p].link \in Positions => image[p].link \in Trail(image, f)
             /\ SoundIn(image, f) <=> image[s[Len(s)]].link[1] = 0
<1> DEFINE s == ChainIn(image, StartOf[f])
<1>1. /\ Len(s) \in Nat \ {0} /\ Len(s) \in 1 .. Len(s)
      /\ \A i \in 1 .. Len(s) : s[i] \in Positions
      /\ \A i \in 1 .. Len(s) - 1 : image[s[i]].link = s[i + 1] /\ i + 1 \in 1 .. Len(s)
      /\ image[s[Len(s)]].link \in Positions =>
                  \E i \in 1 .. Len(s) : s[i] = image[s[Len(s)]].link
      /\ Range(s) = {s[i] : i \in 1 .. Len(s)}
      /\ Last(s) = s[Len(s)]
  BY ChainFacts
<1>2. Trail(image, f) = {s[i] : i \in 1 .. Len(s)}
  BY <1>1 DEF Trail
<1>3. SoundIn(image, f) <=> image[s[Len(s)]].link[1] = 0
  BY <1>1 DEF SoundIn
<1> HIDE DEF s
<1>4. ASSUME NEW p \in Trail(image, f), image[p].link \in Positions
      PROVE  image[p].link \in Trail(image, f)
  <2>1. PICK i \in 1 .. Len(s) : p = s[i]
    BY <1>2
  <2>2. CASE i = Len(s)
    BY <1>1, <1>2, <1>4, <2>1, <2>2
  <2>3. CASE i # Len(s)
    <3>1. i \in 1 .. Len(s) - 1
      BY <1>1, <2>3
    <3> QED
      BY <1>1, <1>2, <2>1, <3>1
  <2> QED
    BY <2>2, <2>3
<1> QED
  BY <1>1, <1>2, <1>3, <1>4 DEF s

(* What Careful assumes of the images, by name *)
LEMMA Separate ==
  ASSUME Careful, NEW image \in Images
  PROVE  /\ \A f \in Files : Trail(image, f) \cap Free = {}
         /\ \A f, g \in Files : f # g => Trail(image, f) \cap Trail(image, g) = {}
         /\ \A p \in Free \cap Positions : image[p].link \in Positions => image[p].link \in Free
BY DEF Careful, SeparateFiles

(* Where a link leads from a sector of a file *)
LEMMA ReachesOn ==
  ASSUME Careful, NEW image \in Images, NEW view, SameLinks(image, view), NEW gone,
         NEW f \in Files, StartOf[f] \in Positions, NEW p \in Positions,
         Reaches(image, gone, f, p), view[p].link \in Positions
  PROVE  Reaches(image, gone, f, view[p].link)
<1>1. view[p].link = image[p].link
  BY NoPosition DEF SameLinks
<1>2. CASE p \in Trail(image, f)
  BY <1>1, <1>2, TrailIs DEF Reaches
<1>3. CASE f \in gone /\ p \in Free
  BY <1>1, <1>3, Separate DEF Reaches
<1> QED
  BY <1>2, <1>3 DEF Reaches

(* A transfer is at most what was asked for and what is left, unless less *)
(* than nothing is left.                                                  *)
LEMMA TransferIs ==
  ASSUME NEW b \in Int, NEW len \in Nat
  PROVE  /\ Transfer(b, len) \in Nat /\ Transfer(b, len) <= len
         /\ b >= 0 => Transfer(b, len) <= b
         /\ Transfer(b, len) # len => Transfer(b, len) = b
BY DEF Transfer

(* What a write makes of a sector: the link stays, or the end moves to *)
(* where the write ends.                                               *)
LEMMA WriteIntoIs ==
  ASSUME NEW b \in Sectors, NEW h \in Handles, NEW offset \in Nat \ {0}, NEW n \in Nat
  PROVE  LET w == WriteInto(b, h, offset, n)
         IN  /\ w \in Sectors
             /\ b.link[1] # 0 => w.link = b.link
             /\ b.link[1] = 0 =>
                  /\ w.link[1] = 0
                  /\ w.link[2] = IF offset + n - 1 > b.link[2] THEN offset + n - 1 ELSE b.link[2]
             /\ \A i \in 1 .. Cells :
                  w.data[i] = IF i + 1 \in offset .. offset + n - 1 THEN h ELSE b.data[i]
<1> DEFINE w == WriteInto(b, h, offset, n)
<1>1. b.link \in Nat \X Nat /\ b.data \in [1 .. Cells -> Values] /\ b.link[2] \in Nat
  BY SectorIs
<1>2. offset + n - 1 \in Nat /\ h \in Values
  BY DEF Values
<1>3. w.link \in Nat \X Nat
  BY <1>1, <1>2 DEF WriteInto
<1>4. w.data \in [1 .. Cells -> Values]
  BY <1>1, <1>2 DEF WriteInto
<1>5. w \in Sectors
  BY <1>3, <1>4 DEF WriteInto, Sectors
<1>6. /\ b.link[1] # 0 => w.link = b.link
      /\ b.link[1] = 0 =>
           /\ w.link[1] = 0
           /\ w.link[2] = IF offset + n - 1 > b.link[2] THEN offset + n - 1 ELSE b.link[2]
  BY <1>1, <1>2 DEF WriteInto
<1>7. \A i \in 1 .. Cells :
        w.data[i] = IF i + 1 \in offset .. offset + n - 1 THEN h ELSE b.data[i]
  BY DEF WriteInto
<1> QED
  BY <1>5, <1>6, <1>7

(* The lowest of a set of free sectors is one of them. *)
LEMMA LowestIs ==
  ASSUME NEW S \in SUBSET Free, S # {}
  PROVE  Lowest(S) \in S
<1>1. \A p \in S : p[2] \in Nat
  BY D64Assumption
<1> DEFINE T == {p[2] : p \in S}
<1>2. T \in SUBSET Nat /\ T # {}
  BY <1>1
<1>3. PICK n \in T : \A m \in T : n <= m
  <2> HIDE DEF T
  <2> QED
    BY <1>2, LeastNumber
<1>4. \E p \in S : \A q \in S : p[2] <= q[2]
  BY <1>3
<1> QED
  BY <1>4 DEF Lowest

(* Max of a set of tracks is one of them: the tracks are bounded. *)
LEMMA GreatestTrack ==
  ASSUME NEW S, S # {}, \A x \in S : x \in Nat /\ x <= 40
  PROVE  Max(S) \in S
<1> DEFINE T == {m \in Nat : \E x \in S : m + x = 40}
<1>1. \A x \in S : 40 - x \in Nat /\ (40 - x) + x = 40
  OBVIOUS
<1>2. T \in SUBSET Nat /\ T # {}
  BY <1>1
<1>3. PICK n \in T : \A m \in T : n <= m
  <2> HIDE DEF T
  <2> QED
    BY <1>2, LeastNumber
<1>4. PICK x \in S : n + x = 40
  OBVIOUS
<1>5. ASSUME NEW y \in S PROVE x >= y
  <2>1. 40 - y \in T
    BY <1>1
  <2>2. n <= 40 - y
    BY <1>3, <2>1
  <2>3. x \in Nat /\ y \in Nat /\ n \in Nat
    OBVIOUS
  <2> HIDE DEF T
  <2> QED
    BY <1>4, <2>2, <2>3
<1> QED
  BY <1>5 DEF Max

(* Min of a set of tracks is one of them. *)
LEMMA LeastTrack ==
  ASSUME NEW S \in SUBSET Nat, S # {}
  PROVE  Min(S) \in S
<1>1. PICK n \in S : \A m \in S : n <= m
  BY LeastNumber
<1> QED
  BY <1>1 DEF Min

(* A sector that is allocated was free, and its track is not 0. *)
LEMMA AllocatedIs ==
  ASSUME bam \subseteq Free, NEW track \in Nat \ {0}, MayAllocate(track)
  PROVE  LET new == get_next_free_sector(track)
         IN  new \in bam /\ new \in Free /\ new \in Nat \X Nat /\ new[1] # 0
<1> DEFINE on == TrackFor(track)
<1>1. \A p \in Free : p \in Nat \X Nat /\ p[1] \in Nat /\ p[2] \in Nat
  BY D64Assumption
<1>2. FreeTracks \subseteq 1 .. 35
  BY DEF FreeTracks
<1>3. on \in Nat \ {0} /\ FreeOn(on) # {}
  <2>1. CASE FreeOn(track) # {}
    BY <2>1 DEF TrackFor
  <2>2. CASE FreeOn(track) = {}
    <3>1. FreeTracks # {}
      BY <2>2 DEF MayAllocate
    <3> DEFINE before == {x \in FreeTracks : x < 18}
    <3>2. on \in FreeTracks
      <4>1. CASE before # {}
        <5>1. on = Max(before)
          BY <2>2, <4>1 DEF TrackFor
        <5>2. \A x \in before : x \in Nat /\ x <= 40
          BY <1>2
        <5>3. Max(before) \in before
          <6> HIDE DEF before
          <6> QED
            BY <4>1, <5>2, GreatestTrack
        <5> QED
          BY <5>1, <5>3
      <4>2. CASE before = {}
        <5>1. on = Min(FreeTracks)
          BY <2>2, <4>2 DEF TrackFor
        <5> QED
          BY <1>2, <3>1, <5>1, LeastTrack
      <4> QED
        BY <4>1, <4>2
    <3> HIDE DEF on
    <3>3. on \in 1 .. 35
      BY <1>2, <3>2
    <3>4. \E p \in bam : p[1] = on
      BY <3>2 DEF FreeTracks
    <3> QED
      BY <3>3, <3>4 DEF FreeOn
  <2> QED
    BY <2>1, <2>2
<1> HIDE DEF on
<1>4. FreeOn(on) \in SUBSET Free
  BY DEF FreeOn
<1>5. Lowest(FreeOn(on)) \in FreeOn(on)
  BY <1>3, <1>4, LowestIs
<1>6. get_next_free_sector(track) = Lowest(FreeOn(on))
  BY DEF get_next_free_sector, on
<1> QED
  BY <1>1, <1>3, <1>5, <1>6 DEF FreeOn

(* The image as it is seen: moving the window does not change it. *)
LEMMA ViewIs ==
  ASSUME Shape
  PROVE  View \in [Positions -> Sectors]
BY DEF Shape, View

(* The request of the task is a record of requests. *)
LEMMA NowIs ==
  ASSUME Careful, Shape
  PROVE  now \in CallRecords
BY TaskIs DEF Shape, now

(* A sector coming into view changes neither what the medium and the window *)
(* hold together nor that the window holds the sector in view.              *)
LEMMA MoveKeeps ==
  ASSUME Shape, Window, NEW p \in Positions, move_window(p)
  PROVE  /\ View' = View /\ Window' /\ current_sector' = p /\ dirty' = dirty
         /\ disk' \in [Positions -> Sectors] /\ sect_buffer' \in Sectors
<1>1. /\ disk \in [Positions -> Sectors] /\ sect_buffer \in Sectors
      /\ dirty => current_sector \in Positions
      /\ current_sector \in Positions => sect_buffer = View[current_sector]
      /\ dirty \in BOOLEAN
  BY DEF Shape, Window
<1>2. CASE p = current_sector
  <2>1. UNCHANGED <<disk, current_sector, sect_buffer, dirty>>
    BY <1>2 DEF move_window, window
  <2>2. View' = View
    BY <2>1 DEF View
  <2> QED
    BY <1>1, <1>2, <2>1, <2>2 DEF Window
<1>3. CASE p # current_sector
  <2>1. /\ disk' = IF dirty THEN [disk EXCEPT ![current_sector] = sect_buffer] ELSE disk
        /\ current_sector' = p /\ sect_buffer' = disk[p] /\ dirty' = dirty
    BY <1>3 DEF move_window
  <2>2. disk' = View
    BY <2>1 DEF View
  <2>3. disk' \in [Positions -> Sectors] /\ disk'[p] = disk[p]
    BY <1>1, <1>3, <2>1
  <2>4. View' = disk'
    BY <2>1, <2>3 DEF View
  <2>5. sect_buffer' \in Sectors /\ sect_buffer' = View'[p]
    BY <1>1, <2>1, <2>3, <2>4
  <2> QED
    BY <2>1, <2>2, <2>3, <2>4, <2>5 DEF Window
<1> QED
  BY <1>2, <1>3

(* A failing move leaves them alone as well, when no read is torn. *)
LEMMA FailKeeps ==
  ASSUME Careful, Shape, Window, NEW p \in Positions, MoveFails(p)
  PROVE  /\ View' = View /\ Window' /\ disk' \in [Positions -> Sectors]
         /\ UNCHANGED <<current_sector, sect_buffer, dirty>>
<1>1. /\ disk \in [Positions -> Sectors] /\ sect_buffer \in Sectors
      /\ dirty => current_sector \in Positions
      /\ current_sector \in Positions => sect_buffer = View[current_sector]
      /\ dirty \in BOOLEAN /\ "torn" \notin Fails
  BY DEF Shape, Window, Careful
<1>2. UNCHANGED <<current_sector, sect_buffer, dirty>>
  BY <1>1 DEF MoveFails
<1>3. disk' = disk \/ disk' = IF dirty THEN [disk EXCEPT ![current_sector] = sect_buffer] ELSE disk
  BY DEF MoveFails
<1>4. disk' \in [Positions -> Sectors]
  BY <1>1, <1>3
<1>5. View' = View
  <2>1. CASE disk' = disk
    BY <1>2, <2>1 DEF View
  <2>2. CASE dirty /\ disk' = [disk EXCEPT ![current_sector] = sect_buffer]
    BY <1>1, <1>2, <2>2 DEF View
  <2> QED
    BY <1>1, <1>3, <2>1, <2>2
<1> QED
  BY <1>1, <1>2, <1>4, <1>5 DEF Window

(* A step that leaves the medium and the window alone *)
LEMMA StillKeeps ==
  ASSUME Window, UNCHANGED <<disk, window>>
  PROVE  View' = View /\ Window' /\ UNCHANGED <<disk, current_sector, sect_buffer, dirty>>
<1>1. UNCHANGED <<disk, current_sector, sect_buffer, dirty>>
  BY DEF window
<1>2. View' = View
  BY <1>1 DEF View
<1> QED
  BY <1>1, <1>2 DEF Window

(* A change of the image that moves no end of a file backwards, except of  *)
(* files that are given up                                                *)
Grows(image, view, grown, gone) ==
  \A p \in Positions :
    grown[p].link[1] = 0 =>
      /\ view[p].link[1] = 0
      /\ \/ view[p].link[2] <= grown[p].link[2]
         \/ p \in Free
         \/ \E f \in gone : p \in Trail(image, f)

(* An image that stays as it is counts as one that grew. *)
LEMMA GrowsSelf ==
  ASSUME NEW image, NEW view \in [Positions -> Sectors], NEW gone
  PROVE  Grows(image, view, view, gone)
<1>1. \A p \in Positions : view[p].link[2] \in Nat
  BY SectorIs
<1> QED
  BY <1>1 DEF Grows

(* A sector of a file that was not given up is no sector of another. *)
LEMMA OwnSector ==
  ASSUME Careful, NEW image \in Images, NEW gone \in SUBSET Files,
         NEW f \in Files, f \notin gone, NEW p, Reaches(image, gone, f, p)
  PROVE  /\ p \in Trail(image, f) /\ p \notin Free
         /\ \A g \in gone : p \notin Trail(image, g)
<1>1. p \in Trail(image, f)
  BY DEF Reaches
<1> QED
  BY <1>1, Separate

(* A handle still fits after a step that only writes data, moves an end on, *)
(* or gives files up.                                                       *)
LEMMA FitsOn ==
  ASSUME Careful, NEW image \in Images,
         NEW view \in [Positions -> Sectors], NEW grown \in [Positions -> Sectors],
         NEW gone, NEW more \in SUBSET Files, gone \subseteq more,
         Grows(image, view, grown, more),
         NEW f \in FileRecords, NEW at, NEW then,
         Fits(image, view, gone, f, at),
         then = at \/ then = "error" \/ at \notin {"error", "advance"} \/ f.failed
  PROVE  Fits(image, grown, more, f, then)
<1> SUFFICES ASSUME f.name # 0 PROVE Fits(image, grown, more, f, then)
  BY DEF Fits
<1>1. /\ f.name \in Files /\ f.offset \in Nat
      /\ StartOf[f.name] \in Positions /\ StartOf[f.name] \in f.visited
      /\ f.name \notin more => f.offset \in 2 .. End
  BY DEF Fits, FileRecords
<1>2. CASE f.failed \/ then = "error"
  BY <1>1, <1>2 DEF Fits
<1>3. CASE ~f.failed /\ then # "error"
  <2>1. Placed(image, view, gone, f, at) /\ (at = "advance" => then = "advance")
    BY <1>3 DEF Fits
  <2>2. f.current[1] # 0
    BY <2>1 DEF Placed
  <2>3. ASSUME f.current \in Positions PROVE Reaches(image, more, f.name, f.current)
    BY <2>1, <2>3 DEF Placed, Reaches
  <2>4. ASSUME f.name \notin more, f.current \in Positions, then # "advance",
               grown[f.current].link[1] = 0
        PROVE  f.offset <= grown[f.current].link[2] + 1
    <3>1. Reaches(image, more, f.name, f.current)
      BY <2>3, <2>4
    <3>2. f.current \notin Free /\ \A g \in more : f.current \notin Trail(image, g)
      BY <1>1, <2>4, <3>1, OwnSector
    <3>3. view[f.current].link[1] = 0 /\ view[f.current].link[2] <= grown[f.current].link[2]
      BY <2>4, <3>2 DEF Grows
    <3>4. f.offset <= view[f.current].link[2] + 1
      BY <2>1, <2>4, <3>3 DEF Placed
    <3>5. view[f.current].link[2] \in Nat /\ grown[f.current].link[2] \in Nat
      BY <2>4, SectorIs
    <3> QED
      BY <1>1, <3>3, <3>4, <3>5
  <2>5. ASSUME f.name \notin more, SoundIn(image, f.name)
        PROVE  LET chain == ChainIn(image, StartOf[f.name])
               IN  \E k \in 1 .. Len(chain) :
                     /\ f.current = chain[k]
                     /\ ~f.moved => f.visited \subseteq {chain[j] : j \in 1 .. k}
    BY <2>1, <2>5 DEF Placed
  <2>6. Placed(image, grown, more, f, then)
    BY <2>2, <2>3, <2>4, <2>5 DEF Placed
  <2> QED
    BY <1>1, <2>6 DEF Fits
<1> QED
  BY <1>2, <1>3

(* The handles that a step leaves alone *)
LEMMA OthersFit ==
  ASSUME Careful, NEW image \in Images, Shape, Shape', lost \subseteq lost',
         Grows(image, View, View', lost'),
         NEW h \in Handles, file'[h] = file[h],
         Fits(image, View, lost, file[h], AtOf(now, h)),
         \/ AtOf(now', h) = AtOf(now, h) \/ AtOf(now', h) = "error"
         \/ AtOf(now, h) \notin {"error", "advance"} \/ file[h].failed
  PROVE  Fits(image, View', lost', file'[h], AtOf(now', h))
<1> DEFINE view == View
           grown == View'
           more == lost'
<1>1. view \in [Positions -> Sectors]
  BY ViewIs
<1>2. View' \in [Positions -> Sectors]
  <2>1. (Shape => View \in [Positions -> Sectors])'
    BY ViewIs, PTL
  <2> QED
    BY <2>1
<1>3. more \in SUBSET Files /\ file[h] \in FileRecords
  BY DEF Shape
<1>4. Grows(image, view, grown, more)
  OBVIOUS
<1> HIDE DEF grown, more
<1>5. grown \in [Positions -> Sectors]
  BY <1>2 DEF grown
<1>6. lost \subseteq more
  BY DEF more
<1> HIDE DEF view
<1>7. Fits(image, view, lost, file[h], AtOf(now, h))
  BY DEF view
<1>8. Fits(image, grown, more, file[h], AtOf(now', h))
  BY <1>1, <1>3, <1>4, <1>5, <1>6, <1>7, FitsOn
<1> QED
  BY <1>8 DEF grown, more

(* A step that changes the record of the request *)
LEMMA AskIs ==
  ASSUME Careful, Shape, NEW t \in Tasks, NEW r \in CallRecords, call' = [call EXCEPT ![t] = r]
  PROVE  t = Task /\ now = call[t] /\ now' = r /\ call' \in [Tasks -> CallRecords]
BY TaskIs DEF Shape, now

(* A handle is idle when the request is not on it. *)
LEMMA IdleIs ==
  ASSUME Careful, NEW h \in Handles
  PROVE  /\ Idle(h) <=> now.on # h
         /\ Idle(h) => AtOf(now, h) = "ok"
BY TaskIs DEF Idle, AtOf, now

(* What is known of the request that is none *)
LEMMA NoCallIs ==
  /\ NoCall \in CallRecords /\ \A h \in Handles : AtOf(NoCall, h) = "ok"
  /\ 0 \in 0 .. Max(Lengths) /\ Nowhere \in Nat \X Nat
<1>1. 0 \in 0 .. Max(Lengths) /\ 0 \notin Handles /\ -1 \in -1 .. 2 * Cells
  BY LongestIs, CellsIs
<1>2. Nowhere \in Nat \X Nat
  BY DEF Nowhere
<1>3. NoCall \in CallRecords
  BY <1>1, <1>2 DEF NoCall, CallRecords, Ops
<1> QED
  BY <1>1, <1>2, <1>3 DEF NoCall, AtOf

(* Without an error nothing needs a reason. *)
LEMMA NoErrors ==
  ASSUME Careful, now'.at # "error"
  PROVE  ErrorsHaveReason'
<1>1. Tasks = {Task} /\ now' = call'[Task]
  BY TaskIs DEF now
<1>2. \A t \in Tasks : call'[t].at # "error"
  BY <1>1
<1> QED
  BY <1>2 DEF ErrorsHaveReason

(* Steps that change neither what is seen of the image nor what is given up *)
LEMMA QuietStep ==
  ASSUME Careful, NEW image, Holds(image), Shape', Window', View' = View, lost' = lost,
         \A h \in Handles :
           \/ /\ file'[h] = file[h]
              /\ \/ AtOf(now', h) = AtOf(now, h) \/ AtOf(now', h) = "error"
                 \/ AtOf(now, h) \notin {"error", "advance"} \/ file[h].failed
           \/ Fits(image, View', lost', file'[h], AtOf(now', h)),
         Calls(image, View', lost', current_sector', now', file'),
         ErrorsHaveReason'
  PROVE  Holds(image)'
<1>1. image \in Images /\ Shape /\ Links(image)
      /\ \A h \in Handles : Fits(image, View, lost, file[h], AtOf(now, h))
  BY DEF Holds
<1>2. Links(image)'
  BY <1>1 DEF Links
<1>3. lost \subseteq lost' /\ Grows(image, View, View', lost')
  <2>1. View \in [Positions -> Sectors]
    BY <1>1, ViewIs
  <2> DEFINE view == View
             gone == lost
  <2> HIDE DEF view, gone
  <2>2. Grows(image, view, view, gone)
    BY <2>1, GrowsSelf DEF view
  <2>3. Grows(image, View, View, lost)
    BY <2>2 DEF view, gone
  <2> QED
    BY <2>3
<1>4. ASSUME NEW h \in Handles PROVE Fits(image, View', lost', file'[h], AtOf(now', h))
  <2>1. CASE /\ file'[h] = file[h]
             /\ \/ AtOf(now', h) = AtOf(now, h) \/ AtOf(now', h) = "error"
                \/ AtOf(now, h) \notin {"error", "advance"} \/ file[h].failed
    BY <1>1, <1>3, <2>1, OthersFit
  <2> QED
    BY <2>1
<1>5. \A h \in Handles : Fits(image, View, lost, file[h], AtOf(now, h))'
  BY <1>4
<1>6. Calls(image, View, lost, current_sector, now, file)'
  OBVIOUS
<1> QED
  BY <1>1, <1>2, <1>5, <1>6 DEF Holds

(****************************************************************************)
(* The invariant: requests                                                  *)
(****************************************************************************)

(* The start of an open keeps the invariant. *)
LEMMA StartOpenKeeps ==
  ASSUME Careful, NEW image, Holds(image), NEW t \in Tasks, NEW h \in Handles, NEW name \in Files,
         StartOpen(t, h, name)
  PROVE  Holds(image)'
<1> DEFINE r == [NoCall EXCEPT !.op = "open", !.on = h, !.name = name, !.at = "move",
                               !.current = RootSector]
<1>1. Shape /\ Window /\ Calls(image, View, lost, current_sector, now, file)
  BY DEF Holds
<1>2. /\ now.on # h /\ file[h].name = 0 /\ call' = [call EXCEPT ![t] = r] /\ ops' = ops + 1
      /\ UNCHANGED lost /\ UNCHANGED <<disk, window>> /\ UNCHANGED bam /\ UNCHANGED file
      /\ call[t].op = "none"
  BY IdleIs DEF StartOpen, Ask
<1>3. RootSector \in Nat \X Nat /\ RootSector \in Positions
  BY D64Assumption
<1>4. r \in CallRecords
  <2>1. NoCall \in CallRecords
    BY NoCallIs
  <2> QED
    BY <1>3, <2>1 DEF CallRecords, Ops
<1>5. r.op = "open" /\ r.on = h /\ r.name = name /\ r.at = "move" /\ r.current = RootSector
      /\ r.idx = -1 /\ r.visited = {}
  BY DEF NoCall
<1> HIDE DEF r
<1>6. now' = r /\ call' \in [Tasks -> CallRecords] /\ now = call[t]
  BY <1>1, <1>2, <1>4, AskIs
<1>7. View' = View /\ Window' /\ UNCHANGED <<disk, current_sector, sect_buffer, dirty>>
  BY <1>1, <1>2, StillKeeps
<1>8. Shape'
  BY <1>1, <1>2, <1>6, <1>7 DEF Shape
<1>9. now = NoCall
  BY <1>1, <1>2, <1>6 DEF Calls
<1>10. \A g \in Handles : file'[g] = file[g] /\ AtOf(now, g) \notin {"error", "advance"}
  BY <1>2, <1>9, NoCallIs
<1>11. Calls(image, View', lost', current_sector', now', file')
  BY <1>2, <1>3, <1>5, <1>6 DEF Calls, Searches
<1>12. ErrorsHaveReason'
  BY <1>5, <1>6, NoErrors
<1> QED
  BY <1>2, <1>7, <1>8, <1>10, <1>11, <1>12, QuietStep

(* A handle that can be used is at a sector of its file. *)
LEMMA UsableIs ==
  ASSUME Careful, NEW image, Holds(image), NEW h \in Handles, Usable(h)
  PROVE  /\ now.on # h /\ file[h].name \in Files /\ ~file[h].failed /\ file[h] \in FileRecords
         /\ file[h].current[1] # 0 /\ AtOf(now, h) = "ok" /\ Fits(image, View, lost, file[h], "ok")
         /\ Placed(image, View, lost, file[h], "ok")
<1>1. now.on # h /\ file[h].name # 0 /\ ~file[h].failed /\ AtOf(now, h) = "ok"
  BY IdleIs DEF Usable
<1>2. file[h] \in FileRecords /\ Fits(image, View, lost, file[h], AtOf(now, h))
  BY DEF Holds, Shape
<1>3. file[h].name \in Files
  BY <1>1, <1>2 DEF FileRecords
<1>4. Placed(image, View, lost, file[h], "ok")
  BY <1>1, <1>2 DEF Fits
<1>5. file[h].current[1] # 0
  BY <1>4 DEF Placed
<1> QED
  BY <1>1, <1>2, <1>3, <1>4, <1>5

(* Where a handle is says nothing of what was read. *)
LEMMA FitsLike ==
  ASSUME NEW image, NEW view, NEW gone, NEW f, NEW g, NEW at, NEW then,
         Fits(image, view, gone, f, at),
         then = at \/ then = "error" \/ at \notin {"error", "advance"} \/ g.failed,
         g.name = f.name, g.current = f.current, g.offset = f.offset,
         g.visited = f.visited, g.moved = f.moved, f.failed => g.failed
  PROVE  Fits(image, view, gone, g, then)
<1>1. CASE f.name = 0
  BY <1>1 DEF Fits
<1>2. CASE f.name # 0
  <2>1. /\ StartOf[f.name] \in Positions /\ StartOf[f.name] \in f.visited
        /\ f.name \notin gone => f.offset \in 2 .. End
        /\ ~f.failed /\ at # "error" => Placed(image, view, gone, f, at)
    BY <1>2 DEF Fits
  <2>2. CASE ~g.failed /\ then # "error"
    <3>1. Placed(image, view, gone, f, at)
      BY <2>1, <2>2
    <3>2. Placed(image, view, gone, g, then)
      BY <2>2, <3>1 DEF Placed
    <3> QED
      BY <2>1, <3>2 DEF Fits
  <2>3. CASE ~(~g.failed /\ then # "error")
    BY <2>1, <2>3 DEF Fits
  <2> QED
    BY <2>2, <2>3
<1> QED
  BY <1>1, <1>2

(* A handle still fits when what it has read is forgotten. *)
LEMMA FitsForgotten ==
  ASSUME NEW image, NEW view, NEW gone, NEW f \in FileRecords, NEW at, NEW then,
         Fits(image, view, gone, f, at),
         then = at \/ then = "error" \/ at \notin {"error", "advance"},
         NEW got \in Seq(Values)
  PROVE  /\ [f EXCEPT !.got = got] \in FileRecords
         /\ Fits(image, view, gone, [f EXCEPT !.got = got], then)
<1> DEFINE g == [f EXCEPT !.got = got]
<1>1. /\ g.name = f.name /\ g.current = f.current /\ g.offset = f.offset
      /\ g.visited = f.visited /\ g.moved = f.moved /\ g.failed = f.failed /\ g \in FileRecords
  BY DEF FileRecords
<1> HIDE DEF g
<1>2. Fits(image, view, gone, g, then)
  BY <1>1, FitsLike
<1> QED
  BY <1>1, <1>2 DEF g

(* The start of a read or of a write of a file that has a sector keeps the *)
(* invariant.                                                              *)
LEMMA StartTransferKeeps ==
  ASSUME Careful, NEW image, Holds(image), NEW t \in Tasks, NEW h \in Handles, NEW len \in Lengths,
         NEW what \in {"read", "write"}, Usable(h),
         Ask(t, [NoCall EXCEPT !.op = what, !.on = h, !.left = len, !.at = "move"]),
         file' = [file EXCEPT ![h].got = <<>>],
         UNCHANGED <<disk, window>>, UNCHANGED bam
  PROVE  Holds(image)'
<1> DEFINE r == [NoCall EXCEPT !.op = what, !.on = h, !.left = len, !.at = "move"]
           f == [file[h] EXCEPT !.got = <<>>]
<1>1. Shape /\ Window /\ Calls(image, View, lost, current_sector, now, file)
      /\ \A g \in Handles : Fits(image, View, lost, file[g], AtOf(now, g))
  BY DEF Holds
<1>2. /\ call' = [call EXCEPT ![t] = r] /\ ops' = ops + 1 /\ UNCHANGED lost
      /\ call[t].op = "none"
  BY DEF Ask
<1>3. /\ now.on # h /\ file[h].name \in Files /\ ~file[h].failed /\ file[h] \in FileRecords
      /\ Fits(image, View, lost, file[h], "ok")
  BY UsableIs
<1>4. r \in CallRecords
  <2>1. NoCall \in CallRecords /\ len \in 0 .. Max(Lengths)
    BY NoCallIs, LongestIs
  <2> QED
    BY <2>1 DEF CallRecords, Ops
<1>5. r.op = what /\ r.on = h /\ r.left = len /\ r.at = "move"
  BY DEF NoCall
<1>6. f \in FileRecords /\ Fits(image, View, lost, f, "move") /\ f.name # 0 /\ ~f.failed
  <2> DEFINE view == View
             gone == lost
             k == file[h]
  <2>1. Fits(image, view, gone, k, "ok") /\ k \in FileRecords /\ <<>> \in Seq(Values)
    BY <1>3
  <2> HIDE DEF view, gone, k
  <2>2. [k EXCEPT !.got = <<>>] \in FileRecords
        /\ Fits(image, view, gone, [k EXCEPT !.got = <<>>], "move")
    BY <2>1, FitsForgotten
  <2>3. [k EXCEPT !.got = <<>>].name = k.name /\ [k EXCEPT !.got = <<>>].failed = k.failed
    BY <2>1 DEF FileRecords
  <2>4. k.name # 0 /\ ~k.failed
    BY <1>3, CellsIs DEF k
  <2> QED
    BY <2>2, <2>3, <2>4 DEF view, gone, k
<1> HIDE DEF r
<1>7. now' = r /\ call' \in [Tasks -> CallRecords] /\ now = call[t]
  BY <1>1, <1>2, <1>4, AskIs
<1>8. View' = View /\ Window' /\ UNCHANGED <<disk, current_sector, sect_buffer, dirty>>
  BY <1>1, StillKeeps
<1>9. file' \in [Handles -> FileRecords] /\ file'[h] = f /\ \A g \in Handles : g # h => file'[g] = file[g]
  BY <1>1, <1>6 DEF Shape
<1> HIDE DEF f
<1>10. Shape'
  BY <1>1, <1>2, <1>7, <1>8, <1>9 DEF Shape
<1>11. now = NoCall
  BY <1>1, <1>2, <1>7 DEF Calls
<1>12. ASSUME NEW g \in Handles
       PROVE  \/ file'[g] = file[g] /\ AtOf(now, g) \notin {"error", "advance"}
              \/ Fits(image, View', lost', file'[g], AtOf(now', g))
  <2>1. CASE g = h
    <3>1. AtOf(now', g) = "move" /\ file'[g] = f
      BY <1>5, <1>7, <1>9, <2>1 DEF AtOf
    <3> QED
      BY <1>2, <1>6, <1>8, <3>1
  <2>2. CASE g # h
    BY <1>9, <1>11, <2>2, NoCallIs
  <2> QED
    BY <2>1, <2>2
<1>13. Calls(image, View', lost', current_sector', now', file')
  <2>1. now'.op = what /\ now'.on = h /\ now'.left = len /\ now'.at = "move" /\ len # 0
    BY <1>5, <1>7, LongestIs
  <2>2. Transfers(image, View', lost', current_sector', now', file'[now'.on])
    BY <1>6, <1>9, <2>1 DEF Transfers
  <2> QED
    BY <2>1, <2>2 DEF Calls
<1>14. ErrorsHaveReason'
  BY <1>5, <1>7, NoErrors
<1> QED
  BY <1>2, <1>8, <1>10, <1>12, <1>13, <1>14, QuietStep

(* The start of a read keeps the invariant. *)
LEMMA StartReadKeeps ==
  ASSUME Careful, NEW image, Holds(image), NEW t \in Tasks, NEW h \in Handles, NEW len \in Lengths,
         StartRead(t, h, len)
  PROVE  Holds(image)'
<1>1. /\ Usable(h) /\ Ask(t, [NoCall EXCEPT !.op = "read", !.on = h, !.left = len, !.at = "move"])
      /\ file' = [file EXCEPT ![h].got = <<>>]
      /\ UNCHANGED <<disk, window>> /\ UNCHANGED bam
  BY DEF StartRead
<1> QED
  BY <1>1, StartTransferKeeps

(* The start of a write keeps the invariant; an open file always has a *)
(* sector, so none is taken in the buffer of another.                  *)
LEMMA StartWriteKeeps ==
  ASSUME Careful, NEW image, Holds(image), NEW t \in Tasks, NEW h \in Handles, NEW len \in Lengths,
         StartWrite(t, h, len)
  PROVE  Holds(image)'
<1>1. Usable(h)
  BY DEF StartWrite
<1>2. file[h].current[1] # 0
  BY <1>1, UsableIs
<1>3. /\ Ask(t, [NoCall EXCEPT !.op = "write", !.on = h, !.left = len, !.at = "move"])
      /\ file' = [file EXCEPT ![h].got = <<>>]
      /\ UNCHANGED <<disk, window>> /\ UNCHANGED bam
  BY <1>2 DEF StartWrite, window
<1> QED
  BY <1>1, <1>3, StartTransferKeeps

(* Division with remainder *)
LEMMA DivMod ==
  ASSUME NEW m \in Nat \ {0}, NEW x \in Nat
  PROVE  /\ x \div m \in Nat /\ x % m \in 0 .. m - 1 /\ x = m * (x \div m) + (x % m)
<1>1. x \div m \in Int /\ x % m \in 0 .. m - 1 /\ x = m * (x \div m) + (x % m)
  OBVIOUS
<1> DEFINE q == x \div m
           r == x % m
<1>2. q \in Int /\ r \in 0 .. m - 1 /\ x = m * q + r
  BY <1>1
<1> HIDE DEF q, r
<1>3. ~(q <= -1)
  <2>1. ASSUME q <= -1 PROVE FALSE
    <3>1. m * q <= -m
      BY <1>2, <2>1
    <3>2. m * q \in Int
      BY <1>2
    <3> QED
      BY <1>2, <3>1, <3>2
  <2> QED
    BY <2>1
<1> QED
  BY <1>1, <1>2, <1>3 DEF q, r

(* Quotient and remainder are the only numbers that they are. *)
LEMMA Unique ==
  ASSUME NEW m \in Nat \ {0}, NEW q \in Int, NEW p \in Int, NEW r \in 0 .. m - 1, NEW s \in 0 .. m - 1,
         m * q + r = m * p + s
  PROVE  q = p /\ r = s
<1>1. m * (q - p) = s - r
  OBVIOUS
<1>2. ~(q - p >= 1)
  <2>1. ASSUME q - p >= 1 PROVE FALSE
    <3>1. m * (q - p) >= m
      BY <2>1
    <3> QED
      BY <1>1, <3>1
  <2> QED
    BY <2>1
<1>3. ~(q - p <= -1)
  <2>1. ASSUME q - p <= -1 PROVE FALSE
    <3>1. m * (q - p) <= -m
      BY <2>1
    <3> QED
      BY <1>1, <3>1
  <2> QED
    BY <2>1
<1>4. q - p = 0
  BY <1>2, <1>3
<1>5. m * (q - p) = 0
  BY <1>4
<1> QED
  BY <1>1, <1>4, <1>5

(* Going on by one, round the entries of a sector *)
LEMMA NextRemainder ==
  ASSUME NEW m \in Nat \ {0}, NEW x \in Nat
  PROVE  (x + 1) % m = IF x % m = m - 1 THEN 0 ELSE (x % m) + 1
<1> DEFINE q == x \div m
           r == x % m
           p == (x + 1) \div m
           s == (x + 1) % m
<1>1. q \in Nat /\ r \in 0 .. m - 1 /\ x = m * q + r
  BY DivMod
<1>2. p \in Nat /\ s \in 0 .. m - 1 /\ x + 1 = m * p + s
  <2>1. x + 1 \in Nat
    OBVIOUS
  <2> QED
    BY <2>1, DivMod
<1> HIDE DEF q, r, p, s
<1>3. CASE r = m - 1
  <2>1. m * (q + 1) + 0 = m * p + s
    BY <1>1, <1>2, <1>3
  <2>2. q + 1 \in Int /\ 0 \in 0 .. m - 1
    BY <1>1
  <2>3. p \in Int
    BY <1>2
  <2>4. s = 0
    BY <1>2, <2>1, <2>2, <2>3, Unique
  <2> QED
    BY <1>3, <2>4 DEF r, s
<1>4. CASE r # m - 1
  <2>1. r + 1 \in 0 .. m - 1 /\ m * q + (r + 1) = m * p + s
    BY <1>1, <1>2, <1>4
  <2>2. q \in Int /\ p \in Int
    BY <1>1, <1>2
  <2>3. s = r + 1
    BY <1>2, <2>1, <2>2, Unique
  <2> QED
    BY <1>4, <2>3 DEF r, s
<1> QED
  BY <1>3, <1>4

(* The remainders that decide when a directory sector is done *)
LEMMA Multiples ==
  ASSUME NEW m \in Nat \ {0}
  PROVE  0 % m = 0 /\ (2 * m) % m = 0 /\ (m + 1) % m = (2 * m + 1) % m
<1>1. ASSUME NEW k \in Nat, NEW i \in 0 .. m - 1, NEW x \in Nat, x = m * k + i PROVE x % m = i
  <2> DEFINE q == x \div m
             r == x % m
  <2>1. q \in Nat /\ r \in 0 .. m - 1 /\ x = m * q + r
    BY DivMod
  <2> HIDE DEF q, r
  <2>2. m * k + i = m * q + r /\ k \in Int /\ q \in Int
    BY <1>1, <2>1
  <2>3. r = i
    BY <2>1, <2>2, Unique
  <2> QED
    BY <2>3 DEF r
<1>2. 0 = m * 0 + 0 /\ 0 \in 0 .. m - 1
  OBVIOUS
<1>3. 2 * m = m * 2 + 0 /\ 2 * m \in Nat /\ m = m * 1 + 0
  OBVIOUS
<1>4. 0 % m = 0
  BY <1>1, <1>2
<1>5. (2 * m) % m = 0 /\ m % m = 0
  BY <1>1, <1>2, <1>3
<1>6. (m + 1) % m = (2 * m + 1) % m
  <2>1. m \in Nat /\ 2 * m \in Nat
    OBVIOUS
  <2>2. (m + 1) % m = IF m % m = m - 1 THEN 0 ELSE (m % m) + 1
    BY <2>1, NextRemainder
  <2>3. (2 * m + 1) % m = IF (2 * m) % m = m - 1 THEN 0 ELSE ((2 * m) % m) + 1
    BY <2>1, NextRemainder
  <2> QED
    BY <1>5, <2>2, <2>3
<1> QED
  BY <1>4, <1>5, <1>6

(* The quotient and the remainder of a sum *)
LEMMA DivModOf ==
  ASSUME NEW m \in Nat \ {0}, NEW k \in Nat, NEW i \in 0 .. m - 1
  PROVE  k * m + i \in Nat /\ (k * m + i) \div m = k /\ (k * m + i) % m = i
<1> DEFINE x == k * m + i
<1>1. x \in Nat /\ x = m * k + i
  OBVIOUS
<1> HIDE DEF x
<1>2. x \div m \in Nat /\ x % m \in 0 .. m - 1 /\ x = m * (x \div m) + (x % m)
  BY <1>1, DivMod
<1>3. x \div m = k /\ x % m = i
  BY <1>1, <1>2, Unique
<1> QED
  BY <1>1, <1>3 DEF x

(* A file is sound if its chain ends in the image, until it is given up. *)
LEMMA SoundIs ==
  ASSUME Careful, NEW image, SameLinks(image, View), NEW f \in Files
  PROVE  Sound(f) <=> SoundIn(image, f) /\ f \notin lost
<1>1. Chain(StartOf[f]) = ChainIn(image, StartOf[f])
  BY ChainRigid DEF Chain
<1>2. CASE StartOf[f] \in Positions
  <2> DEFINE p == Last(ChainIn(image, StartOf[f]))
  <2>1. p \in Positions
    BY <1>2, ChainFacts
  <2> HIDE DEF p
  <2>2. View[p].link[1] = 0 <=> image[p].link[1] = 0
    BY <2>1 DEF SameLinks
  <2> QED
    BY <1>1, <2>2 DEF Sound, SoundIn, Careful, p
<1>3. CASE StartOf[f] \notin Positions
  BY <1>3 DEF Sound, SoundIn
<1> QED
  BY <1>2, <1>3

(* The start of a seek keeps the invariant: the position is inside, so the *)
(* file does not leave its start.                                          *)
LEMMA StartSeekKeeps ==
  ASSUME Careful, NEW image, Holds(image), NEW t \in Tasks, NEW h \in Handles, NEW pos \in Lengths,
         StartSeek(t, h, pos)
  PROVE  Holds(image)'
<1> DEFINE request == [NoCall EXCEPT !.op = "seek", !.on = h]
           start == StartOf[file[h].name]
           back == file[h].moved \/ file[h].visited # {start}
           done == [request EXCEPT !.left = pos, !.at = "ok"]
           wrong == [request EXCEPT !.left = pos, !.at = "error"]
           moved == [file[h] EXCEPT !.current = start, !.offset = pos + 2, !.got = <<>>, !.moved = back]
           stray == [file[h] EXCEPT !.current = start]
<1>1. Shape /\ Window /\ Calls(image, View, lost, current_sector, now, file)
      /\ (\A g \in Handles : Fits(image, View, lost, file[g], AtOf(now, g))) /\ image \in Images
  BY DEF Holds
<1>2. Usable(h)
  BY DEF StartSeek
<1>3. /\ now.on # h /\ file[h].name \in Files /\ ~file[h].failed /\ file[h] \in FileRecords
      /\ Fits(image, View, lost, file[h], "ok")
  BY <1>2, UsableIs
<1>4. /\ start \in Positions /\ start \in file[h].visited /\ start \in Nat \X Nat /\ start[1] # 0
      /\ file[h].name \notin lost => file[h].offset \in 2 .. End
  BY <1>3, D64Assumption, NoPosition DEF Fits
<1>5. Mode # 0 /\ Inside(file[h].name, pos) /\ TrackSectorOf(start, file[h].current) = start
  BY D64Assumption DEF StartSeek, Careful, TrackSectorOf
<1>6. ~MayVisit(file[h], start)
  BY <1>4 DEF MayVisit
<1>7. /\ UNCHANGED <<disk, window>> /\ UNCHANGED bam /\ UNCHANGED lost /\ ops' = ops + 1
      /\ SeekFrom(t, h, request, start, pos) /\ call[t].op = "none"
  BY <1>5 DEF StartSeek
<1>8. \/ pos < Cells /\ call' = [call EXCEPT ![t] = done]
         /\ file' = [file EXCEPT ![h] = moved]
      \/ /\ ~(pos < Cells) /\ call' = [call EXCEPT ![t] = wrong]
         /\ file' = [file EXCEPT ![h] = stray]
  BY <1>1, <1>6, <1>7 DEF SeekFrom, Shape
<1>9. pos \in Nat \ {0} /\ pos \in 0 .. Max(Lengths)
  BY LongestIs
<1>10. /\ done \in CallRecords /\ done.op = "seek" /\ done.on = h /\ done.at = "ok"
       /\ wrong \in CallRecords /\ wrong.op = "seek" /\ wrong.on = h /\ wrong.at = "error"
       /\ wrong.left = pos
  BY <1>9, NoCallIs DEF CallRecords, Ops, NoCall
<1>11. moved \in FileRecords /\ stray \in FileRecords
  <2>1. pos + 2 \in Nat \ {0, 1} /\ <<>> \in Seq(Values)
    BY <1>9
  <2>2. back \in BOOLEAN
    BY Zenon
  <2> HIDE DEF back
  <2> QED
    BY <1>3, <1>4, <2>1, <2>2 DEF FileRecords
<1>12. View' = View /\ Window' /\ UNCHANGED <<disk, current_sector, sect_buffer, dirty>>
  BY <1>1, <1>7, StillKeeps
<1>13. /\ moved.name = file[h].name /\ moved.current = start /\ moved.offset = pos + 2
       /\ ~moved.moved => moved.visited = {start}
       /\ moved.visited = file[h].visited /\ moved.failed = file[h].failed
       /\ stray.name = file[h].name /\ stray.offset = file[h].offset
       /\ stray.visited = file[h].visited /\ stray.failed = file[h].failed
  BY <1>3 DEF FileRecords
<1> HIDE DEF done, wrong, moved, stray
<1>14. now = NoCall
  <2>1. now = call[t]
    BY TaskIs DEF now
  <2> QED
    BY <1>1, <1>7, <2>1 DEF Calls
<1>15. CASE pos < Cells /\ call' = [call EXCEPT ![t] = done] /\ file' = [file EXCEPT ![h] = moved]
  <2>1. now' = done /\ call' \in [Tasks -> CallRecords]
    BY <1>1, <1>10, <1>15, AskIs
  <2>2. file' \in [Handles -> FileRecords] /\ file'[h] = moved /\ \A g \in Handles : g # h => file'[g] = file[g]
    BY <1>1, <1>11, <1>15 DEF Shape
  <2>3. Shape'
    BY <1>1, <1>7, <1>12, <2>1, <2>2 DEF Shape
  <2>4. Placed(image, View, lost, moved, "ok")
    <3> DEFINE view == View
               gone == lost
               f == file[h].name
               chain == ChainIn(image, start)
    <3>1. /\ Len(chain) \in Nat /\ chain[1] = start /\ 1 \in 1 .. Len(chain)
      BY <1>4, ChainFacts
    <3>2. start \in Trail(image, f)
      BY <1>3, <1>4, <3>1, TrailIs
    <3>3. view[start].link[1] = 0 => pos + 2 <= view[start].link[2] + 1
      <4>1. View[start].link[2] \in Nat
        BY <1>1, <1>4, ViewIs, SectorIs
      <4>2. View[start].link[1] = 0 => pos < View[start].link[2]
        BY <1>5 DEF Inside
      <4> QED
        BY <1>9, <4>1, <4>2
    <3> HIDE DEF view, gone, chain
    <3>4. Placed(image, view, gone, moved, "ok")
      BY <1>4, <1>13, <3>1, <3>2, <3>3 DEF Placed, Reaches, chain
    <3> QED
      BY <3>4 DEF view, gone
  <2>5. Fits(image, View', lost', file'[h], AtOf(now', h))
    <3>1. AtOf(now', h) = "ok"
      BY <1>10, <2>1 DEF AtOf
    <3>2. pos + 2 \in 2 .. End
      BY <1>9, <1>15, CellsIs
    <3>3. Fits(image, View, lost, moved, "ok")
      BY <1>4, <1>13, <2>4, <3>2 DEF Fits
    <3> QED
      BY <1>7, <1>12, <2>2, <3>1, <3>3
  <2>6. \A g \in Handles :
          \/ file'[g] = file[g] /\ AtOf(now, g) \notin {"error", "advance"}
          \/ Fits(image, View', lost', file'[g], AtOf(now', g))
    BY <1>14, <2>2, <2>5, NoCallIs
  <2>7. Calls(image, View', lost', current_sector', now', file')
    <3>1. file'[h].name # 0 /\ ~file'[h].failed
      BY <1>3, <1>13, <2>2, CellsIs
    <3> QED
      BY <1>10, <2>1, <3>1 DEF Calls
  <2>8. ErrorsHaveReason'
    BY <1>10, <2>1, NoErrors
  <2> QED
    BY <1>7, <1>12, <2>3, <2>6, <2>7, <2>8, QuietStep
<1>16. CASE ~(pos < Cells) /\ call' = [call EXCEPT ![t] = wrong] /\ file' = [file EXCEPT ![h] = stray]
  <2>1. now' = wrong /\ call' \in [Tasks -> CallRecords]
    BY <1>1, <1>10, <1>16, AskIs
  <2>2. file' \in [Handles -> FileRecords] /\ file'[h] = stray /\ \A g \in Handles : g # h => file'[g] = file[g]
    BY <1>1, <1>11, <1>16 DEF Shape
  <2>3. Shape'
    BY <1>1, <1>7, <1>12, <2>1, <2>2 DEF Shape
  <2>4. Fits(image, View', lost', file'[h], AtOf(now', h))
    <3>1. AtOf(now', h) = "error"
      BY <1>10, <2>1 DEF AtOf
    <3>2. Fits(image, View, lost, stray, "error")
      BY <1>4, <1>13 DEF Fits
    <3> QED
      BY <1>7, <1>12, <2>2, <3>1, <3>2
  <2>5. \A g \in Handles :
          \/ file'[g] = file[g] /\ AtOf(now, g) \notin {"error", "advance"}
          \/ Fits(image, View', lost', file'[g], AtOf(now', g))
    BY <1>14, <2>2, <2>4, NoCallIs
  <2>6. Calls(image, View', lost', current_sector', now', file')
    <3>1. file'[h].name # 0 /\ ~file'[h].failed
      BY <1>3, <1>13, <2>2, CellsIs
    <3> QED
      BY <1>10, <2>1, <3>1 DEF Calls
  <2>7. ErrorsHaveReason'
    <3>1. \A u \in Tasks : call'[u].op = "seek" /\ call'[u].left >= Cells
      BY <1>9, <1>10, <1>16, <2>1, CellsIs, TaskIs DEF now
    <3> QED
      BY <3>1 DEF ErrorsHaveReason
  <2> QED
    BY <1>7, <1>12, <2>3, <2>5, <2>6, <2>7, QuietStep
<1> QED
  BY <1>8, <1>15, <1>16

(* What the request under way says of its handle *)
LEMMA CallIs ==
  ASSUME Careful, NEW image, Holds(image), now.op # "none"
  PROVE  /\ now.on \in Handles /\ now \in CallRecords /\ file[now.on] \in FileRecords
         /\ now.op \in {"open", "read", "write", "seek"}
         /\ AtOf(now, now.on) = now.at /\ \A h \in Handles : h # now.on => AtOf(now, h) = "ok"
         /\ Fits(image, View, lost, file[now.on], now.at)
         /\ now.op = "open" => Searches(View, current_sector, now)
                               /\ (now.at # "ok" => file[now.on].name = 0)
         /\ now.op # "open" => file[now.on].name \in Files /\ ~file[now.on].failed
         /\ now.op \in {"read", "write"} =>
              Transfers(image, View, lost, current_sector, now, file[now.on])
         /\ now.op = "seek" => now.at \in {"ok", "error"}
<1>1. Shape /\ Calls(image, View, lost, current_sector, now, file)
      /\ \A h \in Handles : Fits(image, View, lost, file[h], AtOf(now, h))
  BY DEF Holds
<1>2. now \in CallRecords
  BY <1>1, NowIs
<1>3. now.op \in {"open", "read", "write", "seek"}
  BY <1>2 DEF CallRecords, Ops
<1>4. now.on \in Handles
  BY <1>1, <1>3 DEF Calls, Transfers, Searches
<1>5. file[now.on] \in FileRecords
  BY <1>1, <1>4 DEF Shape
<1>6. now.op # "open" => file[now.on].name # 0 /\ ~file[now.on].failed
  BY <1>1, <1>3 DEF Calls, Transfers
<1>7. now.op # "open" => file[now.on].name \in Files
  BY <1>5, <1>6 DEF FileRecords
<1>8. AtOf(now, now.on) = now.at /\ \A h \in Handles : h # now.on => AtOf(now, h) = "ok"
  BY DEF AtOf
<1>9. Fits(image, View, lost, file[now.on], now.at)
  BY <1>1, <1>4, <1>8
<1> QED
  BY <1>1, <1>2, <1>3, <1>4, <1>5, <1>6, <1>7, <1>8, <1>9 DEF Calls

(* A closed handle fits. *)
LEMMA NoFileIs ==
  /\ NoFile \in FileRecords
  /\ \A image, view, gone, at : Fits(image, view, gone, NoFile, at)
<1>1. NoFile \in FileRecords
  BY DEF NoFile, FileRecords, Nowhere
<1> QED
  BY <1>1, CellsIs DEF NoFile, Fits

(* Closing keeps the invariant. *)
LEMMA CloseKeeps ==
  ASSUME Careful, NEW image, Holds(image), NEW h \in Handles, Close(h)
  PROVE  Holds(image)'
<1>1. Shape /\ Window /\ Calls(image, View, lost, current_sector, now, file) /\ ErrorsHaveReason
  BY DEF Holds
<1>2. /\ now.on # h /\ file' = [file EXCEPT ![h] = NoFile]
      /\ UNCHANGED <<disk, window>> /\ UNCHANGED bam /\ UNCHANGED call /\ UNCHANGED <<ops, lost>>
  BY IdleIs DEF Close, history
<1>3. View' = View /\ Window' /\ UNCHANGED <<disk, current_sector, sect_buffer, dirty>>
  BY <1>1, <1>2, StillKeeps
<1>4. file' \in [Handles -> FileRecords] /\ file'[h] = NoFile
      /\ \A g \in Handles : g # h => file'[g] = file[g]
  BY <1>1, <1>2, NoFileIs DEF Shape
<1>5. Shape'
  BY <1>1, <1>2, <1>3, <1>4 DEF Shape
<1>6. now' = now
  BY <1>2 DEF now
<1>7. \A g \in Handles :
        \/ file'[g] = file[g] /\ AtOf(now', g) = AtOf(now, g)
        \/ Fits(image, View', lost', file'[g], AtOf(now', g))
  BY <1>4, <1>6, NoFileIs
<1>8. CASE now.op = "none"
  <2>1. now = NoCall
    BY <1>1, <1>8 DEF Calls
  <2>2. Calls(image, View', lost', current_sector', now', file')
    BY <1>6, <2>1 DEF Calls, NoCall
  <2>3. ErrorsHaveReason'
    BY <1>6, <2>1, NoErrors DEF NoCall
  <2> QED
    BY <1>2, <1>3, <1>5, <1>7, <2>2, <2>3, QuietStep
<1>9. CASE now.op # "none"
  <2>1. now.on \in Handles
    BY <1>9, CallIs
  <2>2. file'[now.on] = file[now.on]
    BY <1>2, <1>4, <2>1
  <2>3. Calls(image, View', lost', current_sector', now', file')
    BY <1>1, <1>2, <1>3, <1>6, <2>2 DEF Calls
  <2>4. ErrorsHaveReason'
    <3>1. \A t \in Tasks : t = Task /\ call'[t] = call[t] /\ call[t] = now
      BY <1>2, TaskIs DEF now
    <3>2. Listed' = Listed /\ \A f : Sound(f)' <=> Sound(f)
      BY <1>2, <1>3 DEF Listed, Chain, Sound
    <3>3. \A track : MayAllocate(track)' <=> MayAllocate(track)
      BY <1>2 DEF MayAllocate, FreeOn, FreeTracks
    <3> QED
      BY <1>1, <2>2, <3>1, <3>2, <3>3 DEF ErrorsHaveReason
  <2> QED
    BY <1>2, <1>3, <1>5, <1>7, <2>3, <2>4, QuietStep
<1> QED
  BY <1>8, <1>9

(* The return of a request keeps the invariant: an error marks the handle. *)
LEMMA ReturnKeeps ==
  ASSUME Careful, NEW image, Holds(image), NEW t \in Tasks, Return(t)
  PROVE  Holds(image)'
<1> DEFINE h == now.on
           f == [file[h] EXCEPT !.failed = now.at = "error"]
<1>1. Shape /\ Window
      /\ \A g \in Handles : Fits(image, View, lost, file[g], AtOf(now, g))
  BY DEF Holds
<1>2. /\ now = call[t] /\ now.op # "none" /\ now.at \in {"ok", "error"}
      /\ call' = [call EXCEPT ![t] = NoCall]
      /\ file' = IF now.op = "open" THEN file ELSE [file EXCEPT ![h].failed = now.at = "error"]
      /\ UNCHANGED <<disk, window>> /\ UNCHANGED bam /\ UNCHANGED <<ops, lost>>
  <2>1. t = Task
    BY TaskIs
  <2> QED
    BY <2>1 DEF Return, history, now
<1>3. View' = View /\ Window' /\ UNCHANGED <<disk, current_sector, sect_buffer, dirty>>
  BY <1>1, <1>2, StillKeeps
<1>4. now' = NoCall /\ call' \in [Tasks -> CallRecords]
  BY <1>1, <1>2, AskIs, NoCallIs
<1>5. /\ h \in Handles /\ file[h] \in FileRecords /\ Fits(image, View, lost, file[h], now.at)
      /\ now.op = "open" => now.at = "ok" \/ file[h].name = 0
      /\ now.op # "open" => ~file[h].failed
      /\ \A g \in Handles : g # h => AtOf(now, g) = "ok"
      /\ AtOf(now, h) = now.at
  BY <1>2, CallIs
<1>6. f \in FileRecords /\ f.failed = (now.at = "error") /\ f.name = file[h].name
      /\ f.current = file[h].current /\ f.offset = file[h].offset /\ f.visited = file[h].visited
      /\ f.moved = file[h].moved
  BY <1>5 DEF FileRecords
<1>7. file' \in [Handles -> FileRecords]
  BY <1>1, <1>2, <1>5, <1>6 DEF Shape
<1>8. now.op # "open" => file'[h] = f /\ \A g \in Handles : g # h => file'[g] = file[g]
  BY <1>1, <1>2, <1>5 DEF Shape
<1>9. Shape'
  BY <1>1, <1>2, <1>3, <1>4, <1>7 DEF Shape
<1>10. ASSUME NEW g \in Handles
       PROVE  \/ file'[g] = file[g] /\ AtOf(now, g) \notin {"error", "advance"}
              \/ Fits(image, View', lost', file'[g], AtOf(now', g))
  <2>1. CASE g # h
    BY <1>2, <1>5, <1>8, <2>1
  <2>2. CASE g = h /\ now.op = "open"
    <3>1. CASE now.at = "ok"
      BY <1>2, <1>5, <2>2, <3>1
    <3>2. CASE file[h].name = 0
      <4>1. Fits(image, View', lost', file'[h], AtOf(now', h))
        BY <1>2, <1>3, <1>5, <2>2, <3>2 DEF Fits
      <4> QED
        BY <2>2, <4>1
    <3> QED
      BY <1>5, <2>2, <3>1, <3>2
  <2>3. CASE g = h /\ now.op # "open"
    <3> DEFINE view == View
               gone == lost
               k == file[h]
               at == now.at
    <3>1. AtOf(now', g) = "ok" /\ file'[g] = f
      BY <1>4, <1>8, <2>3, NoCallIs
    <3>2. /\ Fits(image, view, gone, k, at) /\ (at \in {"ok", "error"})
          /\ (k.failed => f.failed) /\ (at = "error" => f.failed)
      BY <1>2, <1>5, <1>6, <2>3
    <3>3. /\ f.name = k.name /\ f.current = k.current /\ f.offset = k.offset
          /\ f.visited = k.visited /\ f.moved = k.moved
      BY <1>6
    <3> HIDE DEF view, gone, k, at, f
    <3>4. Fits(image, view, gone, f, "ok")
      BY <3>2, <3>3, FitsLike
    <3> QED
      BY <1>2, <1>3, <3>1, <3>4 DEF view, gone
  <2> QED
    BY <2>1, <2>2, <2>3
<1>11. Calls(image, View', lost', current_sector', now', file')
  BY <1>4 DEF Calls, NoCall
<1>12. ErrorsHaveReason'
  BY <1>4, NoErrors DEF NoCall
<1> QED
  BY <1>2, <1>3, <1>9, <1>10, <1>11, <1>12, QuietStep

(* A sector of a file that is its own ends after its first byte. *)
LEMMA StartFits ==
  ASSUME Careful, NEW image, Holds(image), NEW f \in Files, StartOf[f] \in Positions,
         NEW p \in Positions, f \notin lost, Reaches(image, lost, f, p), View[p].link[1] = 0
  PROVE  2 <= View[p].link[2] + 1 /\ View[p].link[2] \in 1 .. End - 1
<1>1. Links(image) /\ image \in Images /\ lost \in SUBSET Files
  BY DEF Holds, Shape
<1> DEFINE gone == lost
<1>2. p \notin Free /\ \A g \in gone : p \notin Trail(image, g)
  <2>1. gone \in SUBSET Files /\ f \notin gone /\ Reaches(image, gone, f, p)
    BY <1>1
  <2> HIDE DEF gone
  <2> QED
    BY <1>1, <2>1, OwnSector
<1>3. View[p].link[2] \in 1 .. End - 1
  BY <1>1, <1>2 DEF Links
<1>4. 1 .. End - 1 \subseteq Int
  OBVIOUS
<1> QED
  BY <1>3, CellsIs

(****************************************************************************)
(* The invariant: steps of a request                                        *)
(****************************************************************************)

(* A sector coming into view keeps the invariant: it is the one the request *)
(* is at.                                                                   *)
LEMMA MoveKeepsInv ==
  ASSUME Careful, NEW image, Holds(image), NEW t \in Tasks, Move(t)
  PROVE  Holds(image)'
<1> DEFINE h == now.on
           r == [now EXCEPT !.at = "copy"]
           f == [file[h] EXCEPT !.offset = 2]
<1>1. Shape /\ Window /\ image \in Images
      /\ \A g \in Handles : Fits(image, View, lost, file[g], AtOf(now, g))
  BY DEF Holds
<1>2. t = Task /\ now = call[t]
  BY TaskIs DEF now
<1>3. /\ now.at \in {"move", "advance"} /\ Target(t) \in Positions /\ move_window(Target(t))
      /\ call' = [call EXCEPT ![t].at = "copy"]
      /\ file' = IF now.at = "advance" THEN [file EXCEPT ![h].offset = 2] ELSE file
      /\ UNCHANGED bam /\ UNCHANGED <<ops, lost>>
  BY <1>2 DEF Move, history
<1>4. now.op # "none"
  <2>1. now.op = "none" => now = NoCall
    BY DEF Holds, Calls
  <2> QED
    BY <1>3, <2>1 DEF NoCall
<1>5. /\ h \in Handles /\ now \in CallRecords /\ file[h] \in FileRecords
      /\ now.op \in {"open", "read", "write"} /\ Fits(image, View, lost, file[h], now.at)
      /\ \A g \in Handles : g # h => AtOf(now, g) = "ok"
      /\ AtOf(now, h) = now.at
      /\ now.op = "open" => Searches(View, current_sector, now) /\ file[h].name = 0
      /\ now.op # "open" => file[h].name \in Files /\ ~file[h].failed /\
                            Transfers(image, View, lost, current_sector, now, file[h])
  BY <1>3, <1>4, CallIs
<1>6. Target(t) = IF now.op = "open" THEN now.current ELSE file[h].current
  BY <1>2 DEF Target
<1>7. View' = View /\ Window' /\ current_sector' = Target(t) /\ dirty' = dirty
      /\ disk' \in [Positions -> Sectors] /\ sect_buffer' \in Sectors
  BY <1>1, <1>3, MoveKeeps
<1>8. now' = r /\ call' \in [Tasks -> CallRecords]
  <2>1. r \in CallRecords /\ call' = [call EXCEPT ![t] = r]
    BY <1>1, <1>2, <1>3, <1>5 DEF Shape, CallRecords
  <2> QED
    BY <1>1, <2>1, AskIs
<1>9. f \in FileRecords /\ f.offset = 2 /\ f.failed = file[h].failed /\ f.name = file[h].name
      /\ f.current = file[h].current /\ f.visited = file[h].visited /\ f.moved = file[h].moved
  BY <1>5 DEF FileRecords
<1>10. /\ r.op = now.op /\ r.on = now.on /\ r.name = now.name /\ r.left = now.left /\ r.at = "copy"
       /\ r.current = now.current /\ r.idx = now.idx /\ r.visited = now.visited
  BY <1>5 DEF CallRecords
<1>11. /\ now.at # "advance" => file' = file
       /\ now.at = "advance" => file'[h] = f /\ \A g \in Handles : g # h => file'[g] = file[g]
       /\ file' \in [Handles -> FileRecords]
  BY <1>1, <1>3, <1>5, <1>9 DEF Shape
<1> HIDE DEF r, f
<1>12. Shape'
  <2>1. Target(t) \in Positions \cup {Nowhere} /\ dirty \in BOOLEAN
    BY <1>1, <1>3 DEF Shape
  <2> QED
    BY <1>1, <1>3, <1>7, <1>8, <1>11, <2>1 DEF Shape
<1>13. /\ file'[h].name = file[h].name /\ file'[h].current = file[h].current
       /\ file'[h].failed = file[h].failed
  BY <1>9, <1>11
<1>14. now.op # "open" =>
         /\ Reaches(image, lost, file[h].name, file[h].current)
         /\ StartOf[file[h].name] \in Positions
         /\ Placed(image, View, lost, file[h], now.at)
         /\ file[h].name \notin lost => file[h].offset \in 2 .. End
  <2> SUFFICES ASSUME now.op # "open"
               PROVE  /\ Reaches(image, lost, file[h].name, file[h].current)
                      /\ StartOf[file[h].name] \in Positions
                      /\ Placed(image, View, lost, file[h], now.at)
                      /\ file[h].name \notin lost => file[h].offset \in 2 .. End
    OBVIOUS
  <2>1. file[h].name # 0 /\ ~file[h].failed /\ now.at # "error"
    BY <1>3, <1>5, CellsIs
  <2>2. Placed(image, View, lost, file[h], now.at) /\ StartOf[file[h].name] \in Positions
        /\ (file[h].name \notin lost => file[h].offset \in 2 .. End)
    BY <1>5, <2>1 DEF Fits
  <2>3. file[h].current \in Positions
    BY <1>3, <1>6
  <2>4. Reaches(image, lost, file[h].name, file[h].current)
    BY <2>2, <2>3 DEF Placed
  <2> QED
    BY <2>2, <2>4
<1>15. now.at = "advance" => Fits(image, View', lost', file'[h], AtOf(now', h))
  <2> SUFFICES ASSUME now.at = "advance" PROVE Fits(image, View', lost', file'[h], AtOf(now', h))
    OBVIOUS
  <2>1. now.op # "open"
    BY <1>5 DEF Searches
  <2>2. file[h].name \notin lost /\ View[f.current].link[1] = 0 =>
          2 <= View[f.current].link[2] + 1
    <3>1. file[h].name \in Files /\ f.current \in Positions /\ f.current = file[h].current
      BY <1>3, <1>5, <1>6, <1>9, <2>1
    <3> QED
      BY <1>14, <2>1, <3>1, StartFits
  <2>3. Placed(image, View, lost, file[h], now.at) /\ file[h].visited = f.visited
    BY <1>9, <1>14, <2>1
  <2> DEFINE view == View
             gone == lost
             k == file[h]
             at == now.at
  <2>4. Placed(image, view, gone, f, "copy")
    <3>1. Placed(image, view, gone, k, at)
      BY <2>3
    <3>2. k.name \notin gone /\ view[f.current].link[1] = 0 => 2 <= view[f.current].link[2] + 1
      BY <2>2
    <3>3. /\ f.offset = 2 /\ f.name = k.name /\ f.current = k.current /\ f.visited = k.visited
          /\ f.moved = k.moved
      BY <1>9
    <3> HIDE DEF view, gone, k, at
    <3> QED
      BY <3>1, <3>2, <3>3 DEF Placed
  <2>5. StartOf[k.name] \in Positions /\ StartOf[k.name] \in k.visited
    <3>1. file[h].name # 0
      BY <1>5, <2>1, CellsIs
    <3> QED
      BY <1>5, <3>1 DEF Fits
  <2>6. 2 \in 2 .. End
    BY CellsIs
  <2>7. f.offset = 2 /\ f.name = k.name /\ f.visited = k.visited
    BY <1>9
  <2>8. Fits(image, view, gone, f, "copy")
    <3> HIDE DEF view, gone, k
    <3> QED
      BY <2>4, <2>5, <2>6, <2>7 DEF Fits
  <2>9. AtOf(now', h) = "copy"
    BY <1>8, <1>10 DEF AtOf
  <2> QED
    BY <1>3, <1>7, <1>11, <2>8, <2>9
<1>16. ASSUME NEW g \in Handles
       PROVE  \/ file'[g] = file[g] /\ AtOf(now, g) \notin {"error", "advance"}
              \/ Fits(image, View', lost', file'[g], AtOf(now', g))
  BY <1>3, <1>5, <1>11, <1>15
<1>17. Calls(image, View', lost', current_sector', now', file')
  <2>1. CASE now.op = "open"
    <3>1. Searches(View, current_sector, now) /\ file[h].name = 0 /\ now.at = "move"
      BY <1>3, <1>5, <2>1 DEF Searches
    <3>2. current_sector' = now.current
      BY <1>6, <1>7, <2>1
    <3>3. \A k : Searched(View, now, k) => Searched(View, r, k)
      <4>1. now.idx \in Int
        BY <1>5 DEF CallRecords
      <4> SUFFICES ASSUME NEW k, Searched(View, now, k) PROVE Searched(View, r, k)
        OBVIOUS
      <4>2. now.idx % Cells = 0
        BY <3>1 DEF Searched
      <4>3. 1 .. now.idx % Cells = {}
        BY <4>2
      <4> QED
        BY <1>10, <4>3 DEF Searched
    <3>4. Searches(View, current_sector', r)
      BY <1>10, <3>1, <3>2, <3>3 DEF Searches
    <3> QED
      BY <1>7, <1>8, <1>10, <1>13, <2>1, <3>1, <3>4 DEF Calls
  <2>2. CASE now.op # "open"
    <3>1. Transfers(image, View, lost, current_sector, now, file[h])
          /\ current_sector' = file[h].current
      BY <1>5, <1>6, <1>7, <2>2
    <3>2. Transfers(image, View, lost, file[h].current, r, file'[h])
      BY <1>3, <1>6, <1>10, <1>13, <1>14, <2>2, <3>1 DEF Transfers
    <3>3. now'.op \in {"read", "write"} /\ now'.on = h /\ now' = r
      BY <1>5, <1>8, <1>10, <2>2
    <3> QED
      BY <1>3, <1>7, <3>1, <3>2, <3>3 DEF Calls
  <2> QED
    BY <2>1, <2>2
<1>18. ErrorsHaveReason'
  BY <1>8, <1>10, NoErrors
<1> QED
  BY <1>3, <1>7, <1>12, <1>16, <1>17, <1>18, QuietStep

(* A failing move keeps the invariant: the sector of a sound file exists, *)
(* so the medium is to blame.                                             *)
LEMMA MoveErrorKeeps ==
  ASSUME Careful, NEW image, Holds(image), NEW t \in Tasks, MoveError(t)
  PROVE  Holds(image)'
<1> DEFINE h == now.on
           io == Target(t) \in Positions
           r == [now EXCEPT !.at = "error", !.io = io]
<1>1. Shape /\ Window /\ image \in Images /\ SameLinks(image, View)
  BY DEF Holds, Links
<1>2. t = Task /\ now = call[t]
  BY TaskIs DEF now
<1>3. /\ now.at \in {"move", "advance"}
      /\ \/ Target(t) \notin Positions /\ UNCHANGED <<disk, window>>
         \/ Target(t) \in Positions /\ MoveFails(Target(t))
      /\ call' = [call EXCEPT ![t].at = "error", ![t].io = io]
      /\ UNCHANGED bam /\ UNCHANGED file /\ UNCHANGED <<ops, lost>>
  BY <1>2 DEF MoveError, history
<1>4. now.op # "none"
  <2>1. now.op = "none" => now = NoCall
    BY DEF Holds, Calls
  <2> QED
    BY <1>3, <2>1 DEF NoCall
<1>5. /\ h \in Handles /\ now \in CallRecords /\ file[h] \in FileRecords
      /\ now.op \in {"open", "read", "write"} /\ Fits(image, View, lost, file[h], now.at)
      /\ \A g \in Handles : g # h => AtOf(now, g) = "ok"
      /\ now.op = "open" => Searches(View, current_sector, now) /\ file[h].name = 0
      /\ now.op # "open" => file[h].name \in Files /\ ~file[h].failed /\
                            Transfers(image, View, lost, current_sector, now, file[h])
  BY <1>3, <1>4, CallIs
<1>6. Target(t) = IF now.op = "open" THEN now.current ELSE file[h].current
  BY <1>2 DEF Target
<1>7. View' = View /\ Window' /\ UNCHANGED <<current_sector, sect_buffer, dirty>>
      /\ disk' \in [Positions -> Sectors]
  <2>1. CASE Target(t) \notin Positions /\ UNCHANGED <<disk, window>>
    BY <1>1, <2>1, StillKeeps DEF Shape
  <2>2. CASE Target(t) \in Positions /\ MoveFails(Target(t))
    BY <1>1, <2>2, FailKeeps
  <2> QED
    BY <1>3, <2>1, <2>2
<1>8. now' = r /\ call' \in [Tasks -> CallRecords]
  <2>1. r \in CallRecords
    <3>1. io \in BOOLEAN
      OBVIOUS
    <3> HIDE DEF io
    <3> QED
      BY <1>5, <3>1 DEF CallRecords
  <2>2. call' = [call EXCEPT ![t] = r]
    BY <1>1, <1>2, <1>3 DEF Shape
  <2> QED
    BY <1>1, <2>1, <2>2, AskIs
<1>9. /\ r.op = now.op /\ r.on = now.on /\ r.name = now.name /\ r.at = "error"
      /\ r.io = (Target(t) \in Positions)
  BY <1>5 DEF CallRecords
<1> HIDE DEF r
<1>10. Shape'
  BY <1>1, <1>3, <1>7, <1>8 DEF Shape
<1>11. \A g \in Handles :
         file'[g] = file[g] /\ (AtOf(now', g) = "error" \/ AtOf(now, g) = "ok")
  BY <1>3, <1>5, <1>8, <1>9 DEF AtOf
<1>12. Calls(image, View', lost', current_sector', now', file')
  <2>1. CASE now.op = "open"
    BY <1>3, <1>5, <1>8, <1>9, <2>1 DEF Calls, Searches
  <2>2. CASE now.op # "open"
    <3>1. file'[h].name # 0 /\ ~file'[h].failed
      BY <1>3, <1>5, <2>2, CellsIs
    <3> QED
      BY <1>5, <1>8, <1>9, <2>2, <3>1 DEF Calls, Transfers
  <2> QED
    BY <2>1, <2>2
<1>13. ErrorsHaveReason'
  <2>1. Target(t) \notin Positions => now.op # "open" /\ ~Sound(file[h].name)
    <3> SUFFICES ASSUME Target(t) \notin Positions PROVE now.op # "open" /\ ~Sound(file[h].name)
      OBVIOUS
    <3>1. now.op # "open"
      <4>1. now.op = "open" => now.current \in Positions
        BY <1>3, <1>5, D64Assumption DEF Searches
      <4> QED
        BY <1>6, <4>1
    <3>2. file[h].name \in Files /\ file[h].name # 0 /\ ~file[h].failed /\ file[h].current \notin Positions
      BY <1>5, <1>6, <3>1, CellsIs
    <3>3. Placed(image, View, lost, file[h], now.at) /\ StartOf[file[h].name] \in Positions
      BY <1>3, <1>5, <3>2 DEF Fits
    <3>4. ~(SoundIn(image, file[h].name) /\ file[h].name \notin lost)
      <4> SUFFICES ASSUME SoundIn(image, file[h].name) /\ file[h].name \notin lost PROVE FALSE
        OBVIOUS
      <4> DEFINE chain == ChainIn(image, StartOf[file[h].name])
      <4>1. \E k \in 1 .. Len(chain) : file[h].current = chain[k]
        BY <3>3 DEF Placed
      <4>2. \A k \in 1 .. Len(chain) : chain[k] \in Positions
        BY <3>3, ChainFacts
      <4> QED
        BY <3>2, <4>1, <4>2
    <3> QED
      BY <1>1, <3>1, <3>2, <3>4, SoundIs
  <2>2. \A u \in Tasks : call'[u] = r
    BY <1>8, TaskIs DEF now
  <2>3. \A f : Sound(f)' <=> Sound(f)
    BY <1>3, <1>7 DEF Chain, Sound
  <2>4. now.op \in {"read", "write"} \/ now.op = "open"
    BY <1>5
  <2> QED
    BY <1>3, <1>9, <2>1, <2>2, <2>3, <2>4 DEF ErrorsHaveReason
<1> QED
  BY <1>3, <1>7, <1>10, <1>11, <1>12, <1>13, QuietStep

(* The first sector of the directory is a sector. *)
LEMMA FirstIs ==
  FirstDirectory \in Positions /\ FirstDirectory \in Nat \X Nat
BY D64Assumption

(* The directory is looked at from one sector of its chain to the next. *)
LEMMA SearchedOn ==
  ASSUME NEW view, NEW c \in CallRecords, NEW k, Searched(view, c, k), c.at = "next",
         NEW link, link = view[c.current].link,
         NEW r \in CallRecords, r.current = link, r.visited = c.visited \cup {link}, r.idx = c.idx,
         r.name = c.name, r.at = "move", MayVisit(c, link)
  PROVE  \E i \in 1 .. Len(ChainIn(view, FirstDirectory)) : Searched(view, r, i)
<1> DEFINE chain == ChainIn(view, FirstDirectory)
<1>1. /\ Len(chain) \in Nat
      /\ \A i \in 1 .. Len(chain) - 1 : view[chain[i]].link = chain[i + 1] /\ i + 1 \in 1 .. Len(chain)
      /\ view[chain[Len(chain)]].link \in Positions =>
           \E i \in 1 .. Len(chain) : chain[i] = view[chain[Len(chain)]].link
  BY FirstIs, ChainFacts
<1>2. /\ k \in 1 .. Len(chain) /\ c.current = chain[k] /\ c.visited = {chain[j] : j \in 1 .. k}
      /\ \A j \in 1 .. k - 1, i \in 1 .. Cells : view[chain[j]].data[i] # c.name
      /\ \A i \in 1 .. Cells : view[chain[k]].data[i] # c.name
      /\ c.idx >= 0 /\ c.idx % Cells = 0
  BY DEF Searched
<1>3. link \in Positions /\ link \notin c.visited
  BY DEF MayVisit
<1> HIDE DEF chain
<1>4. k # Len(chain)
  BY <1>1, <1>2, <1>3
<1>5. k \in 1 .. Len(chain) - 1 /\ k \in Nat
  BY <1>1, <1>2, <1>4
<1>6. link = chain[k + 1] /\ k + 1 \in 1 .. Len(chain)
  BY <1>1, <1>2, <1>5
<1>7. {chain[j] : j \in 1 .. k + 1} = {chain[j] : j \in 1 .. k} \cup {chain[k + 1]}
  <2>1. \A j : j \in 1 .. k + 1 <=> j \in 1 .. k \/ j = k + 1
    BY <1>5
  <2> QED
    BY <2>1
<1>8. \A j : j \in 1 .. (k + 1) - 1 => j \in 1 .. k - 1 \/ j = k
  BY <1>5
<1>9. /\ r.current = chain[k + 1] /\ r.visited = {chain[j] : j \in 1 .. k + 1}
      /\ \A j \in 1 .. (k + 1) - 1, i \in 1 .. Cells : view[chain[j]].data[i] # r.name
      /\ r.idx >= 0 /\ r.at = "move" /\ r.idx % Cells = 0
  BY <1>2, <1>6, <1>7, <1>8
<1>10. Searched(view, r, k + 1)
  BY <1>6, <1>9 DEF Searched, chain
<1> QED
  BY <1>6, <1>10 DEF chain

(* At the end of the chain of the directory all names were looked at. *)
LEMMA SearchedAll ==
  ASSUME NEW view, NEW c, NEW k, Searched(view, c, k), c.at = "next",
         ~MayVisit(c, view[c.current].link)
  PROVE  c.name \notin {view[p].data[i] : p \in Range(ChainIn(view, FirstDirectory)), i \in 1 .. Cells}
<1> DEFINE chain == ChainIn(view, FirstDirectory)
<1>1. /\ Len(chain) \in Nat
      /\ \A i \in 1 .. Len(chain) : chain[i] \in Positions
      /\ \A i, j \in 1 .. Len(chain) : chain[i] = chain[j] => i = j
      /\ \A i \in 1 .. Len(chain) - 1 : view[chain[i]].link = chain[i + 1] /\ i + 1 \in 1 .. Len(chain)
      /\ Range(chain) = {chain[i] : i \in 1 .. Len(chain)}
  BY FirstIs, ChainFacts
<1>2. /\ k \in 1 .. Len(chain) /\ c.current = chain[k] /\ c.visited = {chain[j] : j \in 1 .. k}
      /\ \A j \in 1 .. k - 1, i \in 1 .. Cells : view[chain[j]].data[i] # c.name
      /\ \A i \in 1 .. Cells : view[chain[k]].data[i] # c.name
  BY DEF Searched
<1>3. ~(view[c.current].link \in Positions /\ view[c.current].link \notin c.visited)
  BY DEF MayVisit
<1> HIDE DEF chain
<1>4. k = Len(chain)
  <2> SUFFICES ASSUME k # Len(chain) PROVE FALSE
    OBVIOUS
  <2>1. k \in 1 .. Len(chain) - 1 /\ k \in Nat
    BY <1>1, <1>2
  <2>2. view[c.current].link = chain[k + 1] /\ k + 1 \in 1 .. Len(chain) /\ chain[k + 1] \in Positions
    BY <1>1, <1>2, <2>1
  <2>3. PICK j \in 1 .. k : chain[j] = chain[k + 1]
    BY <1>2, <1>3, <2>2
  <2>4. j \in 1 .. Len(chain) /\ j # k + 1
    BY <1>1, <2>1
  <2> QED
    BY <1>1, <2>2, <2>3, <2>4
<1>5. \A j \in 1 .. Len(chain), i \in 1 .. Cells : view[chain[j]].data[i] # c.name
  <2>1. \A j \in 1 .. Len(chain) : j \in 1 .. k - 1 \/ j = k
    BY <1>1, <1>4
  <2> QED
    BY <1>2, <2>1
<1> QED
  BY <1>1, <1>5 DEF chain

(* The next sector of the directory keeps the invariant; when there is *)
(* none, all the entries of the chain were looked at.                  *)
LEMMA NextSectorKeeps ==
  ASSUME Careful, NEW image, Holds(image), NEW t \in Tasks, NextSector(t)
  PROVE  Holds(image)'
<1> DEFINE link == IF now.idx = 0 THEN FirstDirectory ELSE sect_buffer.link
           on == [now EXCEPT !.current = link, !.visited = @ \cup {link}, !.at = "move"]
           none == [now EXCEPT !.at = "error"]
<1>1. Shape /\ Window /\ image \in Images
  BY DEF Holds
<1>2. t = Task /\ now = call[t]
  BY TaskIs DEF now
<1>3. /\ now.op = "open" /\ now.at = "next"
      /\ call' = IF MayVisit(now, link)
                 THEN [call EXCEPT ![t].current = link, ![t].visited = @ \cup {link}, ![t].at = "move"]
                 ELSE [call EXCEPT ![t].at = "error"]
      /\ UNCHANGED <<disk, window>> /\ UNCHANGED bam /\ UNCHANGED file /\ UNCHANGED <<ops, lost>>
  BY <1>2 DEF NextSector, history
<1>4. /\ now.on \in Handles /\ now \in CallRecords
      /\ \A g \in Handles : AtOf(now, g) \notin {"error", "advance"}
      /\ Searches(View, current_sector, now) /\ file[now.on].name = 0
  BY <1>3, CallIs
<1>5. View' = View /\ Window' /\ UNCHANGED <<disk, current_sector, sect_buffer, dirty>>
  BY <1>1, <1>3, StillKeeps
<1>6. \/ now.idx = 0 /\ now.visited = {}
      \/ \E k \in 1 .. Len(ChainIn(View, FirstDirectory)) : Searched(View, now, k)
  BY <1>3, <1>4 DEF Searches
<1>7. ASSUME NEW k \in 1 .. Len(ChainIn(View, FirstDirectory)), Searched(View, now, k)
      PROVE  now.idx # 0 /\ link = View[now.current].link
  <2>1. now.idx # 0
    BY <1>3, <1>7 DEF Searched
  <2>2. current_sector = now.current /\ now.current \in Positions
    <3>1. ChainIn(View, FirstDirectory)[k] \in Positions
      BY FirstIs, ChainFacts
    <3> QED
      BY <1>3, <1>4, <1>7, <2>1, <3>1 DEF Searches, Searched
  <2> QED
    BY <1>1, <2>1, <2>2 DEF Window
<1>8. CASE MayVisit(now, link)
  <2>1. link \in Positions /\ link \in Nat \X Nat
    BY <1>8, D64Assumption DEF MayVisit
  <2>2. on \in CallRecords /\ on.op = "open" /\ on.on = now.on /\ on.name = now.name /\ on.at = "move"
        /\ on.current = link /\ on.idx = now.idx /\ on.visited = now.visited \cup {link}
    <3> HIDE DEF link
    <3> QED
      BY <1>3, <1>4, <2>1 DEF CallRecords
  <2>3. call' = [call EXCEPT ![t] = on]
    <3> HIDE DEF link
    <3> QED
      BY <1>1, <1>2, <1>3, <1>8 DEF Shape
  <2> HIDE DEF on
  <2>4. now' = on /\ call' \in [Tasks -> CallRecords]
    BY <1>1, <2>2, <2>3, AskIs
  <2>5. Shape'
    BY <1>1, <1>3, <1>5, <2>4 DEF Shape
  <2>6. \E i \in 1 .. Len(ChainIn(View, FirstDirectory)) : Searched(View, on, i)
    <3>1. CASE now.idx = 0 /\ now.visited = {}
      <4> DEFINE chain == ChainIn(View, FirstDirectory)
      <4>1. chain[1] = FirstDirectory /\ 1 \in 1 .. Len(chain)
        BY FirstIs, ChainFacts
      <4>2. {chain[j] : j \in 1 .. 1} = {chain[1]}
        <5>1. \A j : j \in 1 .. 1 <=> j = 1
          OBVIOUS
        <5> HIDE DEF chain
        <5> QED
          BY <5>1
      <4>3. link = FirstDirectory /\ on.visited = {FirstDirectory} /\ on.idx = 0
        BY <2>2, <3>1
      <4>4. 0 % Cells = 0
        BY CellsIs, Multiples
      <4> HIDE DEF chain, link
      <4>5. Searched(View, on, 1)
        BY <2>2, <4>1, <4>2, <4>3, <4>4 DEF Searched, chain
      <4> QED
        BY <4>1, <4>5 DEF chain
    <3>2. ASSUME NEW k \in 1 .. Len(ChainIn(View, FirstDirectory)), Searched(View, now, k)
          PROVE  \E i \in 1 .. Len(ChainIn(View, FirstDirectory)) : Searched(View, on, i)
      <4>1. link = View[now.current].link
        BY <1>7, <3>2
      <4> DEFINE view == View
                 c == now
      <4>2. /\ c \in CallRecords /\ Searched(view, c, k) /\ c.at = "next"
            /\ link = view[c.current].link
            /\ on.current = link /\ on.visited = c.visited \cup {link} /\ on.idx = c.idx
            /\ on.name = c.name /\ on.at = "move" /\ MayVisit(c, link)
        BY <1>3, <1>4, <1>8, <2>2, <3>2, <4>1
      <4> HIDE DEF view, c, link
      <4>3. \E i \in 1 .. Len(ChainIn(view, FirstDirectory)) : Searched(view, on, i)
        BY <2>2, <4>2, SearchedOn
      <4> QED
        BY <4>3 DEF view
    <3> QED
      BY <1>6, <3>1, <3>2
  <2>7. Calls(image, View', lost', current_sector', now', file')
    <3>1. Searches(View, current_sector, on)
      <4> HIDE DEF link
      <4> QED
        BY <1>4, <2>1, <2>2, <2>6 DEF Searches
    <3> QED
      BY <1>3, <1>4, <1>5, <2>2, <2>4, <3>1 DEF Calls
  <2>8. ErrorsHaveReason'
    BY <2>2, <2>4, NoErrors
  <2> QED
    BY <1>3, <1>4, <1>5, <2>5, <2>7, <2>8, QuietStep
<1>9. CASE ~MayVisit(now, link)
  <2>1. none \in CallRecords /\ none.op = "open" /\ none.on = now.on /\ none.name = now.name
        /\ none.at = "error"
    BY <1>3, <1>4 DEF CallRecords
  <2>2. call' = [call EXCEPT ![t] = none]
    <3> HIDE DEF link
    <3> QED
      BY <1>1, <1>2, <1>3, <1>9 DEF Shape
  <2> HIDE DEF none
  <2>3. now' = none /\ call' \in [Tasks -> CallRecords]
    BY <1>1, <2>1, <2>2, AskIs
  <2>4. Shape'
    BY <1>1, <1>3, <1>5, <2>3 DEF Shape
  <2>5. Calls(image, View', lost', current_sector', now', file')
    <3>1. Searches(View, current_sector, none)
      BY <1>4, <2>1 DEF Searches
    <3> QED
      BY <1>3, <1>4, <1>5, <2>1, <2>3, <3>1 DEF Calls
  <2>6. now.name \notin Listed
    <3>1. ~(now.idx = 0 /\ now.visited = {})
      BY <1>9, FirstIs DEF MayVisit
    <3>2. PICK k \in 1 .. Len(ChainIn(View, FirstDirectory)) : Searched(View, now, k)
      BY <1>6, <3>1
    <3>3. ~MayVisit(now, View[now.current].link)
      BY <1>7, <1>9, <3>2
    <3> DEFINE view == View
               c == now
    <3>4. Searched(view, c, k) /\ c.at = "next" /\ ~MayVisit(c, view[c.current].link)
      BY <1>3, <3>2, <3>3
    <3> HIDE DEF view, c
    <3>5. c.name \notin {view[p].data[i] : p \in Range(ChainIn(view, FirstDirectory)), i \in 1 .. Cells}
      BY <3>4, SearchedAll
    <3> QED
      BY <3>5 DEF Listed, Chain, view, c
  <2>7. ErrorsHaveReason'
    <3>1. \A u \in Tasks : call'[u] = none
      BY <2>3, TaskIs DEF now
    <3>2. Listed' = Listed
      BY <1>5 DEF Listed, Chain
    <3> QED
      BY <2>1, <2>6, <3>1, <3>2 DEF ErrorsHaveReason
  <2> QED
    BY <1>3, <1>4, <1>5, <2>4, <2>5, <2>7, QuietStep
<1> QED
  BY <1>8, <1>9

(* Another entry of the sector was looked at. *)
LEMMA SearchedEntry ==
  ASSUME NEW view, NEW c \in CallRecords, NEW k, Searched(view, c, k), c.at = "copy",
         view[c.current].data[(c.idx % Cells) + 1] # c.name,
         NEW next, next = IF c.idx = 2 * Cells THEN Cells + 1 ELSE c.idx + 1,
         NEW r \in CallRecords, r.current = c.current, r.visited = c.visited, r.idx = next,
         r.name = c.name, r.at = IF SectorDone(next) THEN "next" ELSE "copy"
  PROVE  Searched(view, r, k)
<1> DEFINE chain == ChainIn(view, FirstDirectory)
           m == c.idx % Cells
<1>1. /\ k \in 1 .. Len(chain) /\ c.current = chain[k] /\ c.visited = {chain[j] : j \in 1 .. k}
      /\ \A j \in 1 .. k - 1, i \in 1 .. Cells : view[chain[j]].data[i] # c.name
      /\ \A i \in 1 .. m : view[chain[k]].data[i] # c.name
      /\ c.idx >= 0
  BY DEF Searched
<1>2. c.idx \in Nat /\ c.idx <= 2 * Cells
  BY <1>1, CellsIs DEF CallRecords
<1>3. m \in 0 .. Cells - 1 /\ (c.idx + 1) % Cells = IF m = Cells - 1 THEN 0 ELSE m + 1
  BY <1>2, CellsIs, DivMod, NextRemainder
<1>4. next % Cells = (c.idx + 1) % Cells
  <2>1. CASE c.idx = 2 * Cells
    BY <2>1, CellsIs, Multiples
  <2>2. CASE c.idx # 2 * Cells
    BY <2>2
  <2> QED
    BY <2>1, <2>2
<1>5. next \in Nat \ {0}
  BY <1>2, CellsIs
<1> HIDE DEF chain, m
<1>6. \A i \in 1 .. m + 1 : view[chain[k]].data[i] # c.name
  <2>1. view[chain[k]].data[m + 1] # c.name
    BY <1>1 DEF m
  <2>2. \A i \in 1 .. m + 1 : i \in 1 .. m \/ i = m + 1
    BY <1>3
  <2> QED
    BY <1>1, <2>1, <2>2
<1>7. CASE next % Cells = 0
  <2>1. m + 1 = Cells
    BY <1>3, <1>4, <1>7, CellsIs
  <2>2. r.at = "next" /\ r.idx = next /\ r.idx >= 0 /\ r.idx # 0 /\ r.idx % Cells = 0
    BY <1>5, <1>7 DEF SectorDone
  <2> QED
    BY <1>1, <1>6, <2>1, <2>2 DEF Searched, chain
<1>8. CASE next % Cells # 0
  <2>1. next % Cells = m + 1
    BY <1>3, <1>4, <1>8
  <2>2. r.at = "copy" /\ r.idx = next /\ r.idx >= 0 /\ r.idx % Cells = m + 1
    BY <1>5, <1>8, <2>1 DEF SectorDone
  <2> QED
    BY <1>1, <1>6, <2>2 DEF Searched, chain
<1> QED
  BY <1>7, <1>8

(* The handle of a file that was found *)
OpenedAt(name) ==
  [NoFile EXCEPT !.name = name, !.current = StartOf[name], !.visited = {StartOf[name]}]

(* A handle fits right after it was opened. *)
LEMMA OpenedFits ==
  ASSUME Careful, NEW image, Holds(image), NEW name \in Files, StartOf[name] \in Positions
  PROVE  /\ OpenedAt(name) \in FileRecords /\ OpenedAt(name).name = name
         /\ Fits(image, View, lost, OpenedAt(name), "ok")
<1> DEFINE start == StartOf[name]
           f == OpenedAt(name)
           chain == ChainIn(image, start)
           view == View
           gone == lost
<1>1. start \in Nat \X Nat /\ start[1] # 0
  BY D64Assumption, NoPosition
<1>2. /\ f \in FileRecords /\ f.name = name /\ f.current = start /\ f.visited = {start}
      /\ f.offset = 2 /\ ~f.failed
  <2>1. f = [NoFile EXCEPT !.name = name, !.current = start, !.visited = {start}]
    BY DEF OpenedAt
  <2>2. NoFile.offset = 2 /\ ~NoFile.failed /\ NoFile \in FileRecords
    BY NoFileIs DEF NoFile
  <2>3. start \in Positions
    OBVIOUS
  <2> HIDE DEF f, start
  <2> QED
    BY <1>1, <2>1, <2>2, <2>3 DEF FileRecords
<1>3. /\ Len(chain) \in Nat /\ chain[1] = start /\ 1 \in 1 .. Len(chain)
  BY ChainFacts
<1>4. start \in Trail(image, name)
  BY <1>3, TrailIs
<1>5. name \notin gone /\ view[start].link[1] = 0 => 2 <= view[start].link[2] + 1
  BY <1>4, StartFits DEF Reaches
<1>6. {start} \subseteq {chain[j] : j \in 1 .. 1}
  BY <1>3
<1>7. 2 \in 2 .. End
  BY CellsIs
<1> HIDE DEF start, f, chain, view, gone
<1>8. Placed(image, view, gone, f, "ok")
  BY <1>1, <1>2, <1>3, <1>4, <1>5, <1>6 DEF Placed, Reaches, chain, start
<1>9. Fits(image, view, gone, f, "ok")
  BY <1>2, <1>7, <1>8 DEF Fits, start
<1> QED
  BY <1>2, <1>9 DEF f, view, gone

(* Looking at an entry keeps the invariant. *)
LEMMA OpenCopyKeeps ==
  ASSUME Careful, NEW image, Holds(image), NEW t \in Tasks, now.op = "open", now.at = "copy",
         OpenCopy(t, now.on)
  PROVE  Holds(image)'
<1> DEFINE h == now.on
           idx == now.idx
           name == sect_buffer.data[(idx % Cells) + 1]
           next == IF idx = 2 * Cells THEN Cells + 1 ELSE idx + 1
           found == [now EXCEPT !.at = "ok"]
           none == [now EXCEPT !.at = "error"]
           on == [now EXCEPT !.idx = next, !.at = IF SectorDone(next) THEN "next" ELSE "copy"]
<1>1. Shape /\ Window /\ image \in Images
  BY DEF Holds
<1>2. t = Task /\ now = call[t]
  BY TaskIs DEF now
<1>3. /\ UNCHANGED <<disk, window>> /\ UNCHANGED bam /\ UNCHANGED <<ops, lost>>
      /\ \/ /\ idx >= 0 /\ name = now.name /\ StartOf[name] \in Positions
            /\ file' = [file EXCEPT ![h] = OpenedAt(name)]
            /\ call' = [call EXCEPT ![t].at = "ok"]
         \/ /\ idx >= 0 /\ name = now.name /\ StartOf[name] \notin Positions
            /\ call' = [call EXCEPT ![t].at = "error"] /\ UNCHANGED file
         \/ /\ ~(idx >= 0 /\ name = now.name)
            /\ call' = [call EXCEPT ![t].idx = next,
                                    ![t].at = IF SectorDone(next) THEN "next" ELSE "copy"]
            /\ UNCHANGED file
  BY <1>2 DEF OpenCopy, history, OpenedAt
<1>4. /\ h \in Handles /\ now \in CallRecords
      /\ \A g \in Handles : AtOf(now, g) \notin {"error", "advance"}
      /\ Searches(View, current_sector, now) /\ file[h].name = 0
  BY CallIs
<1>5. View' = View /\ Window' /\ UNCHANGED <<disk, current_sector, sect_buffer, dirty>>
  BY <1>1, <1>3, StillKeeps
<1>6. now.name \in Files /\ current_sector = now.current
      /\ \/ idx = -1 /\ now.visited = {} /\ now.current = RootSector
         \/ \E k \in 1 .. Len(ChainIn(View, FirstDirectory)) : Searched(View, now, k)
  BY <1>4 DEF Searches
<1>7. CASE /\ idx >= 0 /\ name = now.name /\ StartOf[name] \in Positions
           /\ file' = [file EXCEPT ![h] = OpenedAt(name)]
           /\ call' = [call EXCEPT ![t].at = "ok"]
  <2>1. found \in CallRecords /\ found.op = "open" /\ found.on = h /\ found.name = now.name
        /\ found.at = "ok"
    BY <1>4 DEF CallRecords
  <2>2. call' = [call EXCEPT ![t] = found]
    BY <1>1, <1>2, <1>7 DEF Shape
  <2>3. now' = found /\ call' \in [Tasks -> CallRecords]
    BY <1>1, <2>1, <2>2, AskIs
  <2> DEFINE f == OpenedAt(now.name)
  <2>4. f \in FileRecords /\ Fits(image, View, lost, f, "ok")
    BY <1>6, <1>7, OpenedFits
  <2>5. file' = [file EXCEPT ![h] = f]
    BY <1>7
  <2> HIDE DEF f, found
  <2>6. file' \in [Handles -> FileRecords] /\ file'[h] = f /\ \A g \in Handles : g # h => file'[g] = file[g]
    BY <1>1, <1>4, <2>4, <2>5 DEF Shape
  <2>7. Shape'
    BY <1>1, <1>3, <1>5, <2>3, <2>6 DEF Shape
  <2>8. Fits(image, View', lost', file'[h], AtOf(now', h))
    BY <1>3, <1>5, <2>1, <2>3, <2>4, <2>6 DEF AtOf
  <2>9. \A g \in Handles :
          \/ file'[g] = file[g] /\ AtOf(now, g) \notin {"error", "advance"}
          \/ Fits(image, View', lost', file'[g], AtOf(now', g))
    BY <1>4, <2>6, <2>8
  <2>10. Calls(image, View', lost', current_sector', now', file')
    <3>1. Searches(View, current_sector, found)
      BY <1>4, <2>1 DEF Searches
    <3> QED
      BY <1>5, <2>1, <2>3, <3>1 DEF Calls
  <2>11. ErrorsHaveReason'
    BY <2>1, <2>3, NoErrors
  <2> QED
    BY <1>3, <1>5, <2>7, <2>9, <2>10, <2>11, QuietStep
<1>8. CASE /\ idx >= 0 /\ name = now.name /\ StartOf[name] \notin Positions
           /\ call' = [call EXCEPT ![t].at = "error"] /\ UNCHANGED file
  <2>1. none \in CallRecords /\ none.op = "open" /\ none.on = h /\ none.name = now.name
        /\ none.at = "error"
    BY <1>4 DEF CallRecords
  <2>2. call' = [call EXCEPT ![t] = none]
    BY <1>1, <1>2, <1>8 DEF Shape
  <2> HIDE DEF none
  <2>3. now' = none /\ call' \in [Tasks -> CallRecords]
    BY <1>1, <2>1, <2>2, AskIs
  <2>4. Shape'
    BY <1>1, <1>3, <1>5, <1>8, <2>3 DEF Shape
  <2>5. Calls(image, View', lost', current_sector', now', file')
    <3>1. Searches(View, current_sector, none)
      BY <1>4, <2>1 DEF Searches
    <3> QED
      BY <1>4, <1>5, <1>8, <2>1, <2>3, <3>1 DEF Calls
  <2>6. ErrorsHaveReason'
    <3>1. \A u \in Tasks : call'[u] = none
      BY <2>3, TaskIs DEF now
    <3>2. StartOf[now.name] \notin Positions
      BY <1>8
    <3> QED
      BY <2>1, <3>1, <3>2 DEF ErrorsHaveReason
  <2> QED
    BY <1>3, <1>4, <1>5, <1>8, <2>4, <2>5, <2>6, QuietStep
<1>9. CASE /\ ~(idx >= 0 /\ name = now.name)
           /\ call' = [call EXCEPT ![t].idx = next,
                                   ![t].at = IF SectorDone(next) THEN "next" ELSE "copy"]
           /\ UNCHANGED file
  <2> DEFINE at == IF SectorDone(next) THEN "next" ELSE "copy"
  <2>1. next \in -1 .. 2 * Cells /\ at \in {"next", "copy"}
    BY <1>4, CellsIs DEF CallRecords
  <2>2. /\ on \in CallRecords /\ on.op = "open" /\ on.on = h /\ on.name = now.name /\ on.at = at
        /\ on.idx = next /\ on.current = now.current /\ on.visited = now.visited
    <3>1. on = [now EXCEPT !.idx = next, !.at = at]
      OBVIOUS
    <3> HIDE DEF next, at, on
    <3> QED
      BY <1>4, <2>1, <3>1 DEF CallRecords
  <2>3. call' = [call EXCEPT ![t] = on]
    <3>1. on = [now EXCEPT !.idx = next, !.at = at] /\ call' = [call EXCEPT ![t].idx = next, ![t].at = at]
      BY <1>9
    <3> HIDE DEF next, at, on
    <3> QED
      BY <1>1, <1>2, <3>1 DEF Shape
  <2> HIDE DEF on
  <2>4. now' = on /\ call' \in [Tasks -> CallRecords]
    BY <1>1, <2>2, <2>3, AskIs
  <2>5. Shape'
    BY <1>1, <1>3, <1>5, <1>9, <2>4 DEF Shape
  <2>6. \/ on.idx = 0 /\ on.visited = {} /\ on.at = "next"
        \/ \E k \in 1 .. Len(ChainIn(View, FirstDirectory)) : Searched(View, on, k)
    <3>1. CASE idx = -1 /\ now.visited = {}
      <4>1. next = 0
        BY <3>1, CellsIs
      <4>2. 0 % Cells = 0
        BY CellsIs, Multiples
      <4>3. at = "next"
        BY <4>1, <4>2 DEF SectorDone
      <4> QED
        BY <2>2, <3>1, <4>1, <4>3
    <3>2. ASSUME NEW k \in 1 .. Len(ChainIn(View, FirstDirectory)), Searched(View, now, k)
          PROVE  Searched(View, on, k)
      <4>1. sect_buffer = View[now.current]
        <5>1. ChainIn(View, FirstDirectory)[k] \in Positions
          BY FirstIs, ChainFacts
        <5>2. current_sector \in Positions
          BY <1>6, <3>2, <5>1 DEF Searched
        <5> QED
          BY <1>1, <1>6, <5>2 DEF Window
      <4>2. idx >= 0
        BY <3>2 DEF Searched
      <4> DEFINE view == View
                 c == now
      <4>3. view[c.current].data[(c.idx % Cells) + 1] # c.name
        BY <1>9, <4>1, <4>2
      <4>4. /\ c \in CallRecords /\ Searched(view, c, k) /\ c.at = "copy"
            /\ next = IF c.idx = 2 * Cells THEN Cells + 1 ELSE c.idx + 1
            /\ on.current = c.current /\ on.visited = c.visited /\ on.idx = next
            /\ on.name = c.name /\ on.at = IF SectorDone(next) THEN "next" ELSE "copy"
        BY <1>4, <2>2, <3>2
      <4> HIDE DEF view, c, next
      <4>5. Searched(view, on, k)
        BY <2>2, <4>3, <4>4, SearchedEntry
      <4> QED
        BY <4>5 DEF view
    <3> QED
      BY <1>6, <3>1, <3>2
  <2>7. Searches(View, current_sector, on)
    <3> HIDE DEF next
    <3> QED
      BY <1>4, <1>6, <2>1, <2>2, <2>6 DEF Searches
  <2>8. Calls(image, View', lost', current_sector', now', file')
    BY <1>4, <1>5, <1>3, <1>9, <2>2, <2>4, <2>7 DEF Calls
  <2>9. ErrorsHaveReason'
    BY <2>1, <2>2, <2>4, NoErrors
  <2> QED
    BY <1>3, <1>4, <1>5, <1>9, <2>5, <2>8, <2>9, QuietStep
<1> QED
  BY <1>3, <1>7, <1>8, <1>9

(* The sector in view, and the handle of the request *)
LEMMA CopyIs ==
  ASSUME Careful, NEW image, Holds(image), now.op \in {"read", "write"}, now.at = "copy"
  PROVE  LET f == file[now.on]
             link == sect_buffer.link
         IN  /\ f \in FileRecords /\ f.name \in Files /\ ~f.failed /\ now.on \in Handles
             /\ now \in CallRecords /\ now.left \in 1 .. Max(Lengths) /\ now.left \in Nat \ {0}
             /\ image \in Images /\ SameLinks(image, View) /\ lost \in SUBSET Files
             /\ current_sector \in Positions /\ sect_buffer = View[current_sector]
             /\ sect_buffer \in Sectors /\ link \in Nat \X Nat /\ link[2] \in Nat
             /\ link \in Positions => link[1] # 0
             /\ StartOf[f.name] \in Positions /\ StartOf[f.name] \in f.visited
             /\ f.visited \subseteq Positions /\ f.offset \in Nat \ {0, 1}
             /\ Placed(image, View, lost, f, "copy")
             /\ Reaches(image, lost, f.name, current_sector)
             /\ link \in Positions => Reaches(image, lost, f.name, link)
             /\ f.name \notin lost =>
                  /\ current_sector = f.current /\ f.offset \in 2 .. End
                  /\ link[1] = 0 => f.offset <= link[2] + 1 /\ link[2] \in 1 .. End - 1
<1> DEFINE f == file[now.on]
           link == sect_buffer.link
<1>1. /\ f \in FileRecords /\ f.name \in Files /\ ~f.failed /\ now.on \in Handles
      /\ now \in CallRecords /\ Transfers(image, View, lost, current_sector, now, f)
      /\ Fits(image, View, lost, f, "copy")
  BY CallIs
<1>2. Window /\ Shape /\ image \in Images /\ SameLinks(image, View)
  BY DEF Holds, Links
<1>3. /\ current_sector \in Positions /\ Reaches(image, lost, f.name, current_sector)
      /\ now.left # 0 /\ (f.name \notin lost => current_sector = f.current)
  BY <1>1 DEF Transfers
<1>4. sect_buffer = View[current_sector] /\ sect_buffer \in Sectors /\ lost \in SUBSET Files
  BY <1>2, <1>3 DEF Window, Shape
<1>5. link \in Nat \X Nat /\ link[2] \in Nat
  BY <1>4, SectorIs
<1>6. f.name # 0
  BY <1>1, CellsIs
<1>7. /\ StartOf[f.name] \in Positions /\ StartOf[f.name] \in f.visited
      /\ Placed(image, View, lost, f, "copy")
      /\ f.name \notin lost => f.offset \in 2 .. End
  BY <1>1, <1>6 DEF Fits
<1>8. f.visited \subseteq Positions /\ f.offset \in Nat \ {0, 1}
  BY <1>1 DEF FileRecords
<1>9. now.left \in 1 .. Max(Lengths) /\ now.left \in Nat \ {0}
  BY <1>1, <1>3, LongestIs DEF CallRecords
<1>10. link \in Positions => Reaches(image, lost, f.name, link)
  <2> DEFINE view == View
             gone == lost
  <2>1. /\ SameLinks(image, view) /\ f.name \in Files /\ StartOf[f.name] \in Positions
        /\ Reaches(image, gone, f.name, current_sector) /\ link = view[current_sector].link
    BY <1>1, <1>2, <1>3, <1>4, <1>7
  <2> HIDE DEF view, gone, f, link
  <2>2. link \in Positions => Reaches(image, gone, f.name, link)
    BY <1>2, <1>3, <2>1, ReachesOn
  <2> QED
    BY <2>2 DEF gone
<1>11. f.name \notin lost =>
         /\ current_sector = f.current /\ f.offset \in 2 .. End
         /\ link[1] = 0 => f.offset <= link[2] + 1 /\ link[2] \in 1 .. End - 1
  <2>1. f.name \notin lost /\ link[1] = 0 => link[2] \in 1 .. End - 1
    BY <1>1, <1>3, <1>4, <1>7, StartFits
  <2>2. f.name \notin lost /\ link[1] = 0 => f.offset <= link[2] + 1
    BY <1>3, <1>4, <1>7 DEF Placed
  <2> QED
    BY <1>3, <1>7, <2>1, <2>2
<1>12. link \in Positions => link[1] # 0
  BY NoPosition
<1> QED
  BY <1>1, <1>2, <1>3, <1>4, <1>5, <1>7, <1>8, <1>9, <1>10, <1>11, <1>12

(* How many bytes are read: as many as are asked for and left *)
LEMMA ReadIs ==
  ASSUME Careful, NEW image, Holds(image), now.op = "read", now.at = "copy"
  PROVE  LET f == file[now.on]
             link == sect_buffer.link
             n == Transfer(BytesLeft(f), now.left)
         IN  /\ n \in Nat /\ n <= now.left /\ f.offset + n \in Nat \ {0, 1}
             /\ BytesLeft(f) \in Int
             /\ n # now.left => n = BytesLeft(f)
             /\ f.name \notin lost =>
                  /\ f.offset + n \in 2 .. End
                  /\ link[1] = 0 => f.offset + n <= link[2] + 1
             /\ link[1] = 0 /\ n = BytesLeft(f) => f.offset + n = link[2] + 1
<1> DEFINE f == file[now.on]
           link == sect_buffer.link
           b == BytesLeft(f)
           n == Transfer(b, now.left)
<1>1. /\ now.left \in Nat \ {0} /\ link[2] \in Nat /\ f.offset \in Nat \ {0, 1}
      /\ f.name \notin lost =>
           /\ f.offset \in 2 .. End
           /\ link[1] = 0 => f.offset <= link[2] + 1 /\ link[2] \in 1 .. End - 1
  BY CopyIs
<1>2. b = IF link[1] = 0 THEN 1 + link[2] - f.offset ELSE End - f.offset
  BY DEF BytesLeft
<1>3. b \in Int
  BY <1>1, <1>2, CellsIs
<1>4. n \in Nat /\ n <= now.left /\ (b >= 0 => n <= b) /\ (n # now.left => n = b)
  <2> HIDE DEF b
  <2> QED
    BY <1>1, <1>3, TransferIs
<1> DEFINE offset == f.offset
           last == link[2]
           left == now.left
           own == f.name \notin lost
           ends == link[1] = 0
<1>5. offset \in Nat \ {0, 1} /\ last \in Nat /\ left \in Nat /\ n <= left
      /\ (own => offset \in 2 .. End /\ (ends => offset <= last + 1 /\ last \in 1 .. End - 1))
      /\ b = IF ends THEN 1 + last - offset ELSE End - offset
  BY <1>1, <1>2, <1>4
<1> HIDE DEF n, b, offset, last, left, own, ends
<1>6. offset + n \in Nat \ {0, 1} /\ (own => offset + n \in 2 .. End /\ (ends => offset + n <= last + 1))
      /\ (ends /\ n = b => offset + n = last + 1)
  BY <1>3, <1>4, <1>5, CellsIs
<1> QED
  BY <1>3, <1>4, <1>6 DEF n, b, offset, last, left, own, ends

(* From a full sector of a sound file, not the last one, the chain leads on. *)
LEMMA LeadsOn ==
  ASSUME Careful, NEW image, Holds(image), now.op \in {"read", "write"}, now.at = "copy",
         file[now.on].name \notin lost, SoundIn(image, file[now.on].name), sect_buffer.link[1] # 0
  PROVE  LET f == file[now.on]
             chain == ChainIn(image, StartOf[f.name])
         IN  \E k \in 1 .. Len(chain) - 1 :
               /\ k + 1 \in 1 .. Len(chain) /\ f.current = chain[k] /\ sect_buffer.link = chain[k + 1]
               /\ ~f.moved => f.visited \subseteq {chain[j] : j \in 1 .. k}
<1> DEFINE f == file[now.on]
           chain == ChainIn(image, StartOf[f.name])
           link == sect_buffer.link
<1>1. /\ f.name \in Files /\ image \in Images /\ SameLinks(image, View)
      /\ current_sector \in Positions /\ sect_buffer = View[current_sector]
      /\ StartOf[f.name] \in Positions /\ current_sector = f.current
      /\ Placed(image, View, lost, f, "copy")
  BY CopyIs
<1>2. PICK k \in 1 .. Len(chain) :
        f.current = chain[k] /\ (~f.moved => f.visited \subseteq {chain[j] : j \in 1 .. k})
  BY <1>1 DEF Placed
<1>3. /\ Len(chain) \in Nat \ {0}
      /\ \A i \in 1 .. Len(chain) - 1 : image[chain[i]].link = chain[i + 1] /\ i + 1 \in 1 .. Len(chain)
  BY <1>1, ChainFacts
<1>4. image[chain[Len(chain)]].link[1] = 0
  BY <1>1, TrailIs
<1>5. link = image[f.current].link
  BY <1>1 DEF SameLinks
<1> HIDE DEF chain
<1>6. k # Len(chain)
  BY <1>2, <1>4, <1>5
<1>7. k \in 1 .. Len(chain) - 1
  BY <1>2, <1>3, <1>6
<1>8. link = chain[k + 1] /\ k + 1 \in 1 .. Len(chain)
  BY <1>2, <1>3, <1>5, <1>7
<1> HIDE DEF link
<1> QED
  BY <1>2, <1>7, <1>8 DEF chain, link

(* A handle that goes on to the next sector *)
LEMMA PlacedOn ==
  ASSUME Careful, NEW image, Holds(image), now.op \in {"read", "write"}, now.at = "copy",
         NEW g, NEW at, at \notin {"error"},
         LET f == file[now.on]
             link == sect_buffer.link
         IN  /\ link[1] # 0
             /\ g.name = f.name /\ g.moved = f.moved /\ g.current = link
             /\ g.visited \subseteq f.visited \cup {link}
             /\ at = "advance" \/ g.offset = 2
  PROVE  Placed(image, View, lost, g, at)
<1> DEFINE f == file[now.on]
           chain == ChainIn(image, StartOf[f.name])
           link == sect_buffer.link
           view == View
           gone == lost
<1>1. /\ f.name \in Files /\ StartOf[f.name] \in Positions
      /\ link \in Positions => Reaches(image, gone, f.name, link)
      /\ link[1] # 0 /\ g.name = f.name /\ g.moved = f.moved /\ g.current = link
      /\ g.visited \subseteq f.visited \cup {link} /\ (at = "advance" \/ g.offset = 2)
  BY CopyIs
<1>2. f.name \notin gone /\ link \in Positions /\ view[link].link[1] = 0 => 2 <= view[link].link[2] + 1
  BY <1>1, StartFits
<1>3. ASSUME f.name \notin gone, SoundIn(image, f.name)
      PROVE  \E k \in 1 .. Len(chain) :
               g.current = chain[k] /\ (~g.moved => g.visited \subseteq {chain[j] : j \in 1 .. k})
  <2>1. PICK k \in 1 .. Len(chain) - 1 :
          /\ k + 1 \in 1 .. Len(chain) /\ link = chain[k + 1]
          /\ ~f.moved => f.visited \subseteq {chain[j] : j \in 1 .. k}
    BY <1>1, <1>3, LeadsOn
  <2> HIDE DEF chain, f, link
  <2>2. ~g.moved => g.visited \subseteq {chain[j] : j \in 1 .. k + 1}
    <3>1. \A j \in 1 .. k : j \in 1 .. k + 1
      BY <2>1
    <3>2. k + 1 \in 1 .. k + 1
      BY <2>1
    <3> QED
      BY <1>1, <2>1, <3>1, <3>2
  <2> QED
    BY <1>1, <2>1, <2>2
<1>4. Placed(image, view, gone, g, at)
  <2> HIDE DEF view, gone, f, link
  <2> QED
    BY <1>1, <1>2, <1>3 DEF Placed, chain
<1> QED
  BY <1>4

(* The parts of a read *)
BytesRead == Transfer(BytesLeft(file[now.on]), now.left)
(* Whether a read has come to the end of the file *)
AtEnd == BytesLeft(file[now.on]) = BytesRead /\ sect_buffer.link[1] = 0
(* Whether it goes on to the next sector *)
Onward == ~AtEnd /\ file[now.on].offset + BytesRead = End
(* The handle after the bytes were taken *)
Read ==
  [file[now.on] EXCEPT !.offset = @ + BytesRead,
     !.got = @ \o [i \in 1 .. BytesRead |-> Byte(sect_buffer, file[now.on].offset + i - 1)]]
(* The handle after it went on *)
ReadOn ==
  [Read EXCEPT !.current = sect_buffer.link, !.offset = 2,
     !.visited = IF MayVisit(file[now.on], sect_buffer.link) THEN @ \cup {sect_buffer.link} ELSE @]

(* What a step of a read does, in these terms *)
LEMMA ReadCopyIs ==
  ASSUME Careful, NEW image, Holds(image), now.op = "read", now.at = "copy", ReadCopy(Task, now.on)
  PROVE  /\ file' = [file EXCEPT ![now.on] = IF ~Onward THEN Read ELSE ReadOn]
         /\ call' = [call EXCEPT ![Task].left = now.left - BytesRead,
              ![Task].at = IF Onward /\ ~MayVisit(file[now.on], sect_buffer.link) THEN "error"
                           ELSE IF AtEnd \/ now.left = BytesRead THEN "ok" ELSE "move"]
         /\ UNCHANGED <<disk, window>> /\ UNCHANGED bam /\ UNCHANGED <<ops, lost>>
<1>1. file[now.on] \in FileRecords /\ BytesRead \in Nat /\ file[now.on].offset + BytesRead \in Nat
  BY CopyIs, ReadIs DEF BytesRead
<1>2. Read.offset = file[now.on].offset + BytesRead
  <2> DEFINE got == [i \in 1 .. BytesRead |-> Byte(sect_buffer, file[now.on].offset + i - 1)]
  <2> HIDE DEF got
  <2> QED
    BY <1>1 DEF Read, FileRecords, got
<1> QED
  BY <1>2 DEF ReadCopy, history, now, BytesRead, AtEnd, Onward, Read, ReadOn

(* What is read: bytes that may be *)
LEMMA ReadFields ==
  ASSUME Careful, NEW image, Holds(image), now.op = "read", now.at = "copy"
  PROVE  LET f == file[now.on]
             link == sect_buffer.link
         IN  /\ Read \in FileRecords /\ ReadOn \in FileRecords
             /\ Read.name = f.name /\ Read.current = f.current /\ Read.offset = f.offset + BytesRead
             /\ Read.visited = f.visited /\ Read.moved = f.moved /\ Read.failed = f.failed
             /\ ReadOn.name = f.name /\ ReadOn.current = link /\ ReadOn.offset = 2
             /\ ReadOn.moved = f.moved /\ ReadOn.failed = f.failed /\ ReadOn.got = Read.got
             /\ ReadOn.visited = IF MayVisit(f, link) THEN f.visited \cup {link} ELSE f.visited
             /\ Read.got = f.got \o [i \in 1 .. BytesRead |-> Byte(sect_buffer, f.offset + i - 1)]
<1> DEFINE f == file[now.on]
           link == sect_buffer.link
           up == [i \in 1 .. BytesRead |-> Byte(sect_buffer, f.offset + i - 1)]
           seen == IF MayVisit(f, link) THEN f.visited \cup {link} ELSE f.visited
<1>1. /\ f \in FileRecords /\ link \in Nat \X Nat /\ sect_buffer \in Sectors
      /\ f.visited \subseteq Positions /\ f.offset \in Nat \ {0, 1}
  BY CopyIs
<1>2. BytesRead \in Nat /\ f.offset + BytesRead \in Nat \ {0, 1}
  BY ReadIs DEF BytesRead
<1>3. \A i \in 1 .. BytesRead : Byte(sect_buffer, f.offset + i - 1) \in Values
  <2> SUFFICES ASSUME NEW i \in 1 .. BytesRead PROVE Byte(sect_buffer, f.offset + i - 1) \in Values
    OBVIOUS
  <2> DEFINE o == f.offset + i - 1
             offset == f.offset
  <2>1. o \in Nat \ {0, 1}
    <3>1. offset \in Nat \ {0, 1} /\ BytesRead \in Nat
      BY <1>1, <1>2
    <3>2. i \in Nat /\ i >= 1
      BY <3>1
    <3> HIDE DEF offset
    <3>3. offset + i - 1 \in Nat \ {0, 1}
      BY <3>1, <3>2
    <3> QED
      BY <3>3 DEF offset
  <2> HIDE DEF offset
  <2> HIDE DEF o
  <2>2. CASE o < End
    <3>1. o - 1 \in 1 .. Cells
      BY <2>1, <2>2, CellsIs
    <3> QED
      BY <1>1, <2>2, <3>1, SectorIs DEF Byte, o
  <2>3. CASE ~(o < End)
    BY <2>3 DEF Byte, Values, o
  <2> QED
    BY <2>2, <2>3
<1>4. up \in Seq(Values) /\ f.got \in Seq(Values)
  BY <1>1, <1>2, <1>3 DEF FileRecords
<1>5. Read = [f EXCEPT !.offset = @ + BytesRead, !.got = @ \o up]
  BY DEF Read
<1>6. seen \subseteq Positions
  BY <1>1 DEF MayVisit
<1>7. ReadOn = [Read EXCEPT !.current = link, !.offset = 2,
                            !.visited = IF MayVisit(f, link) THEN @ \cup {link} ELSE @]
  BY DEF ReadOn
<1> HIDE DEF f, link, up, seen
<1>8. /\ Read \in FileRecords
      /\ Read.name = f.name /\ Read.current = f.current /\ Read.offset = f.offset + BytesRead
      /\ Read.visited = f.visited /\ Read.moved = f.moved /\ Read.failed = f.failed
      /\ Read.got = f.got \o up
  <2> DEFINE x == f.offset + BytesRead
             y == f.got \o up
  <2>1. x \in Nat \ {0, 1} /\ y \in Seq(Values)
    BY <1>2, <1>4
  <2>2. Read = [f EXCEPT !.offset = x, !.got = y]
    BY <1>1, <1>5 DEF FileRecords
  <2> HIDE DEF x, y
  <2>3. /\ Read \in FileRecords
        /\ Read.name = f.name /\ Read.current = f.current /\ Read.offset = x
        /\ Read.visited = f.visited /\ Read.moved = f.moved /\ Read.failed = f.failed
        /\ Read.got = y
    BY <1>1, <2>1, <2>2 DEF FileRecords
  <2> QED
    BY <2>3 DEF x, y
<1>9. ReadOn = [Read EXCEPT !.current = link, !.offset = 2, !.visited = seen]
  BY <1>7, <1>8 DEF seen
<1>10. /\ ReadOn \in FileRecords
       /\ ReadOn.name = f.name /\ ReadOn.current = link /\ ReadOn.offset = 2
       /\ ReadOn.moved = f.moved /\ ReadOn.failed = f.failed /\ ReadOn.got = Read.got
       /\ ReadOn.visited = seen
  <2> DEFINE g == Read
  <2>1. g \in FileRecords /\ ReadOn = [g EXCEPT !.current = link, !.offset = 2, !.visited = seen]
        /\ 2 \in Nat \ {0, 1} /\ link \in Nat \X Nat /\ seen \in SUBSET Positions
    BY <1>1, <1>6, <1>8, <1>9
  <2>2. g.name = f.name /\ g.moved = f.moved /\ g.failed = f.failed
    BY <1>8
  <2> HIDE DEF g
  <2>3. ReadOn \in FileRecords
    BY <2>1 DEF FileRecords
  <2>4. /\ ReadOn.name = g.name /\ ReadOn.current = link /\ ReadOn.offset = 2
        /\ ReadOn.moved = g.moved /\ ReadOn.failed = g.failed /\ ReadOn.got = g.got
        /\ ReadOn.visited = seen
    BY <2>1 DEF FileRecords
  <2> QED
    BY <2>2, <2>3, <2>4 DEF g
<1> QED
  BY <1>8, <1>10 DEF f, link, up, seen

(* A read does not go past the end of a sound file, and its sectors are new *)
(* unless it was moved before.                                              *)
LEMMA OnwardIs ==
  ASSUME Careful, NEW image, Holds(image), now.op = "read", now.at = "copy", Onward
  PROVE  LET f == file[now.on]
             link == sect_buffer.link
         IN  /\ link[1] = 0 => f.name \in lost
             /\ MayVisit(f, link) => link[1] # 0
             /\ ~MayVisit(f, link) => f.moved \/ f.name \in lost \/ ~SoundIn(image, f.name)
<1> DEFINE f == file[now.on]
           link == sect_buffer.link
           chain == ChainIn(image, StartOf[f.name])
<1>1. /\ f.name \in Files /\ link[2] \in Nat
      /\ link \in Positions => link[1] # 0
      /\ StartOf[f.name] \in Positions
      /\ f.name \notin lost => (link[1] = 0 => link[2] \in 1 .. End - 1)
  BY CopyIs
<1>2. link[1] = 0 => f.name \in lost
  <2> SUFFICES ASSUME link[1] = 0, f.name \notin lost PROVE FALSE
    OBVIOUS
  <2> DEFINE n == BytesRead
             b == BytesLeft(f)
             offset == f.offset
             last == link[2]
             left == now.left
  <2>1. /\ n \in Nat /\ offset + n = End /\ offset + n <= last + 1 /\ last \in 1 .. End - 1
        /\ offset \in Nat /\ b = 1 + last - offset /\ n # b
    <3>1. n \in Nat /\ offset + n <= last + 1 /\ last \in 1 .. End - 1 /\ offset \in Nat
      BY <1>1, CopyIs, ReadIs DEF BytesRead
    <3>2. offset + n = End /\ n # b
      BY DEF Onward, AtEnd
    <3> QED
      BY <3>1, <3>2 DEF BytesLeft
  <2> HIDE DEF n, b, offset, last
  <2> QED
    BY <2>1, CellsIs
<1>3. ~MayVisit(f, link) => f.moved \/ f.name \in lost \/ ~SoundIn(image, f.name)
  <2> SUFFICES ASSUME ~MayVisit(f, link), ~f.moved, f.name \notin lost, SoundIn(image, f.name)
               PROVE  FALSE
    OBVIOUS
  <2>1. link[1] # 0
    BY <1>2
  <2>2. PICK k \in 1 .. Len(chain) - 1 :
          /\ k + 1 \in 1 .. Len(chain) /\ link = chain[k + 1]
          /\ f.visited \subseteq {chain[j] : j \in 1 .. k}
    BY <2>1, LeadsOn
  <2>3. /\ Len(chain) \in Nat /\ \A i \in 1 .. Len(chain) : chain[i] \in Positions
        /\ \A i, j \in 1 .. Len(chain) : chain[i] = chain[j] => i = j
    BY <1>1, ChainFacts
  <2>4. link \in f.visited
    BY <2>2, <2>3 DEF MayVisit
  <2> HIDE DEF chain, f, link
  <2>5. PICK j \in 1 .. k : chain[j] = chain[k + 1]
    BY <2>2, <2>4
  <2>6. j \in 1 .. Len(chain) /\ j # k + 1
    BY <2>2, <2>3
  <2> QED
    BY <2>2, <2>3, <2>5, <2>6
<1>4. MayVisit(f, link) => link[1] # 0
  BY <1>1 DEF MayVisit
<1> QED
  BY <1>2, <1>3, <1>4

(* A read that stops in the sector it is at was asked for no more, or is at *)
(* the end of the file.                                                     *)
LEMMA StopsAt ==
  ASSUME Careful, NEW image, Holds(image), now.op = "read", now.at = "copy", ~Onward
  PROVE  /\ AtEnd \/ now.left = BytesRead
         /\ now.left # BytesRead => /\ sect_buffer.link[1] = 0
                                    /\ file[now.on].offset + BytesRead = sect_buffer.link[2] + 1
<1> DEFINE f == file[now.on]
           n == BytesRead
           b == BytesLeft(f)
           offset == f.offset
           left == now.left
           link == sect_buffer.link
<1>1. /\ n \in Nat /\ b \in Int /\ (n # left => n = b) /\ offset \in Nat
      /\ (link[1] = 0 /\ n = b => offset + n = link[2] + 1)
  <2>1. offset \in Nat
    BY CopyIs
  <2>2. n \in Nat /\ b \in Int /\ (n # left => n = b)
    BY ReadIs DEF BytesRead
  <2>3. link[1] = 0 /\ n = b => offset + n = link[2] + 1
    BY ReadIs DEF BytesRead
  <2> QED
    BY <2>1, <2>2, <2>3
<1>2. link[1] # 0 => b = End - offset
  BY DEF BytesLeft
<1>3. AtEnd \/ offset + n # End
  BY DEF Onward
<1>4. AtEnd <=> b = n /\ link[1] = 0
  BY DEF AtEnd
<1> HIDE DEF n, b, offset, left, link
<1>5. n # left => AtEnd
  BY <1>1, <1>2, <1>3, <1>4, CellsIs
<1> QED
  BY <1>1, <1>4, <1>5 DEF n, b, offset, left, link

(* A step of a read keeps the invariant. *)
LEMMA ReadCopyKeeps ==
  ASSUME Careful, NEW image, Holds(image), NEW t \in Tasks, now.op = "read", now.at = "copy",
         ReadCopy(t, now.on)
  PROVE  Holds(image)'
<1> DEFINE h == now.on
           f == file[h]
           link == sect_buffer.link
           left == now.left - BytesRead
           at == IF Onward /\ ~MayVisit(f, link) THEN "error"
                 ELSE IF AtEnd \/ now.left = BytesRead THEN "ok" ELSE "move"
           g == IF ~Onward THEN Read ELSE ReadOn
           r == [now EXCEPT !.left = left, !.at = at]
<1>1. Shape /\ Window /\ t = Task
  BY TaskIs DEF Holds
<1>2. /\ f \in FileRecords /\ f.name \in Files /\ f.name # 0 /\ ~f.failed /\ h \in Handles
      /\ now \in CallRecords /\ SameLinks(image, View) /\ current_sector \in Positions
      /\ sect_buffer = View[current_sector]
      /\ StartOf[f.name] \in Positions /\ StartOf[f.name] \in f.visited
      /\ Placed(image, View, lost, f, "copy")
      /\ f.name \notin lost => current_sector = f.current
  BY CopyIs, CellsIs
<1>3. /\ file' = [file EXCEPT ![h] = g] /\ call' = [call EXCEPT ![t].left = left, ![t].at = at]
      /\ UNCHANGED <<disk, window>> /\ UNCHANGED bam /\ UNCHANGED <<ops, lost>>
  BY <1>1, ReadCopyIs
<1>4. left \in 0 .. Max(Lengths) /\ (left = 0 <=> now.left = BytesRead)
  <2> DEFINE l == now.left
             n == BytesRead
             m == Max(Lengths)
  <2>1. l \in 1 .. m /\ n \in Nat /\ n <= l /\ m \in Nat
    BY CopyIs, ReadIs, LongestIs DEF BytesRead
  <2> HIDE DEF l, n, m
  <2>2. l - n \in 0 .. m /\ (l - n = 0 <=> l = n)
    BY <2>1
  <2> QED
    BY <2>2 DEF l, n, m
<1>5. /\ g \in FileRecords /\ g.name = f.name /\ g.failed = f.failed /\ g.moved = f.moved
  BY ReadFields
<1>6. View' = View /\ Window' /\ UNCHANGED <<disk, current_sector, sect_buffer, dirty>>
  BY <1>1, <1>3, StillKeeps
<1>7. at \in {"error", "ok", "move"}
  OBVIOUS
<1> HIDE DEF left, at
<1>8. /\ r \in CallRecords /\ r.op = "read" /\ r.on = h /\ r.left = left /\ r.at = at
  BY <1>2, <1>4, <1>7 DEF CallRecords
<1>9. now' = r /\ call' \in [Tasks -> CallRecords]
  <2>1. call' = [call EXCEPT ![t] = r]
    BY <1>1, <1>3 DEF Shape, now
  <2> QED
    BY <1>1, <1>8, <2>1, AskIs
<1> HIDE DEF r, g
<1>10. file' \in [Handles -> FileRecords] /\ file'[h] = g /\ \A k \in Handles : k # h => file'[k] = file[k]
  BY <1>1, <1>2, <1>3, <1>5 DEF Shape
<1>11. Shape'
  BY <1>1, <1>3, <1>6, <1>9, <1>10 DEF Shape
<1>12. /\ Fits(image, View, lost, g, at)
       /\ at = "move" => left # 0
       /\ at = "ok" /\ left # 0 /\ g.name \notin lost =>
            /\ g.current \in Positions /\ View[g.current].link[1] = 0
            /\ g.offset = View[g.current].link[2] + 1
       /\ at = "error" => g.moved \/ g.name \in lost \/ ~SoundIn(image, g.name)
  <2>1. CASE Onward
    <3>1. /\ g = ReadOn /\ g.current = link /\ g.offset = 2
          /\ g.visited = IF MayVisit(f, link) THEN f.visited \cup {link} ELSE f.visited
      BY <2>1, ReadFields DEF g
    <3>2. ~AtEnd /\ (at = "error" <=> ~MayVisit(f, link))
          /\ (at = "ok" => left = 0) /\ (at = "move" => left # 0)
      BY <1>4, <2>1 DEF Onward, at
    <3>3. /\ MayVisit(f, link) => link[1] # 0
          /\ ~MayVisit(f, link) => f.moved \/ f.name \in lost \/ ~SoundIn(image, f.name)
      BY <2>1, OnwardIs
    <3>4. at # "error" => Placed(image, View, lost, g, at)
      BY <1>5, <3>1, <3>2, <3>3, PlacedOn
    <3>5. StartOf[g.name] \in g.visited /\ g.offset \in 2 .. End
      BY <1>2, <1>5, <3>1, CellsIs
    <3>6. Fits(image, View, lost, g, at)
      BY <1>2, <1>5, <3>4, <3>5 DEF Fits
    <3> QED
      BY <1>5, <3>2, <3>3, <3>6
  <2>2. CASE ~Onward
    <3>1. /\ g.current = f.current /\ g.visited = f.visited /\ g.offset = f.offset + BytesRead
      BY <2>2, ReadFields DEF g
    <3>2. AtEnd \/ now.left = BytesRead
      BY <2>2, StopsAt
    <3>3. at = "ok"
      BY <2>2, <3>2 DEF at
    <3>4. now.left # BytesRead => link[1] = 0 /\ g.offset = link[2] + 1
      BY <2>2, <3>1, StopsAt
    <3>5. f.name \notin lost => g.offset \in 2 .. End /\ (link[1] = 0 => g.offset <= link[2] + 1)
      BY <3>1, ReadIs DEF BytesRead
    <3> DEFINE view == View
               gone == lost
    <3>6. f.name \notin gone => link = view[f.current].link /\ f.current \in Positions
      BY <1>2
    <3>7. Placed(image, view, gone, f, "copy")
      BY <1>2
    <3>8. f.name \notin gone => g.offset \in 2 .. End /\ (link[1] = 0 => g.offset <= link[2] + 1)
      BY <3>5
    <3> HIDE DEF view, gone, f, link
    <3>9. Placed(image, view, gone, g, "ok")
      BY <1>5, <3>1, <3>6, <3>7, <3>8 DEF Placed
    <3>10. Fits(image, view, gone, g, "ok")
      BY <1>2, <1>5, <3>1, <3>8, <3>9 DEF Fits
    <3> QED
      BY <1>4, <1>5, <3>1, <3>3, <3>4, <3>6, <3>10 DEF view, gone
  <2> QED
    BY <2>1, <2>2
<1>13. \A k \in Handles :
         \/ file'[k] = file[k] /\ AtOf(now, k) \notin {"error", "advance"}
         \/ Fits(image, View', lost', file'[k], AtOf(now', k))
  <2>1. \A k \in Handles : k # h => AtOf(now, k) = "ok"
    BY CallIs
  <2>2. AtOf(now', h) = at
    BY <1>8, <1>9 DEF AtOf
  <2>3. Fits(image, View', lost', file'[h], AtOf(now', h))
    BY <1>3, <1>6, <1>10, <1>12, <2>2
  <2> QED
    BY <1>10, <2>1, <2>3
<1>14. Calls(image, View', lost', current_sector', now', file')
  <2>1. Transfers(image, View, lost, current_sector, r, g)
    BY <1>2, <1>5, <1>7, <1>8, <1>12 DEF Transfers
  <2> QED
    BY <1>3, <1>6, <1>8, <1>9, <1>10, <2>1 DEF Calls
<1>15. ErrorsHaveReason'
  <2>1. \A u \in Tasks : call'[u] = r
    BY <1>9, TaskIs DEF now
  <2>2. \A n : Sound(n)' <=> Sound(n)
    BY <1>3, <1>6 DEF Chain, Sound
  <2>3. at = "error" => g.moved \/ ~Sound(g.name)
    BY <1>2, <1>5, <1>12, SoundIs
  <2> QED
    BY <1>8, <1>10, <2>1, <2>2, <2>3 DEF ErrorsHaveReason
<1> QED
  BY <1>3, <1>6, <1>11, <1>13, <1>14, <1>15, QuietStep

(* Where a last sector may end *)
Ends(image, view, gone) ==
  \A p \in Positions :
    view[p].link[1] = 0 =>
      \/ view[p].link[2] \in 1 .. End - 1
      \/ p \in Free
      \/ \E f \in gone : p \in Trail(image, f)

(* One sector of a file is written: its link stays, or the end of the file *)
(* moves forwards, or the file is given up.                                *)
LEMMA WrittenIs ==
  ASSUME NEW image, NEW view \in [Positions -> Sectors], SameLinks(image, view),
         NEW gone, NEW more, gone \subseteq more, Ends(image, view, gone),
         NEW s \in Positions, NEW w \in Sectors, NEW f, Reaches(image, more, f, s),
         view[s].link[1] # 0 => w.link = view[s].link,
         view[s].link[1] = 0 => w.link[1] = 0,
         f \notin more =>
           (w.link[1] = 0 => w.link[2] \in 1 .. End - 1 /\ view[s].link[2] <= w.link[2]),
         NEW grown, grown = [view EXCEPT ![s] = w]
  PROVE  /\ grown \in [Positions -> Sectors] /\ grown[s] = w
         /\ SameLinks(image, grown) /\ Ends(image, grown, more) /\ Grows(image, view, grown, more)
<1>1. grown \in [Positions -> Sectors] /\ grown[s] = w /\ \A p \in Positions : p # s => grown[p] = view[p]
  OBVIOUS
<1>2. SameLinks(image, grown)
  BY <1>1 DEF SameLinks
<1>3. Ends(image, grown, more)
  <2> SUFFICES ASSUME NEW p \in Positions, grown[p].link[1] = 0
               PROVE  \/ grown[p].link[2] \in 1 .. End - 1 \/ p \in Free
                      \/ \E g \in more : p \in Trail(image, g)
    BY DEF Ends
  <2>1. CASE p # s
    BY <1>1, <2>1 DEF Ends
  <2>2. CASE p = s
    BY <1>1, <2>2 DEF Reaches
  <2> QED
    BY <2>1, <2>2
<1>4. Grows(image, view, grown, more)
  <2> SUFFICES ASSUME NEW p \in Positions, grown[p].link[1] = 0
               PROVE  /\ view[p].link[1] = 0
                      /\ \/ view[p].link[2] <= grown[p].link[2]
                         \/ p \in Free
                         \/ \E g \in more : p \in Trail(image, g)
    BY DEF Grows
  <2>1. CASE p # s
    <3>1. view[p].link[2] \in Nat
      BY SectorIs
    <3> QED
      BY <1>1, <2>1, <3>1
  <2>2. CASE p = s
    BY <1>1, <2>2 DEF Reaches
  <2> QED
    BY <2>1, <2>2
<1> QED
  BY <1>1, <1>2, <1>3, <1>4

(* How many bytes are written, and where the sector ends then *)
LEMMA PutIs ==
  ASSUME NEW b \in Sectors, NEW h \in Handles, NEW offset \in Nat \ {0, 1}, NEW left \in Nat \ {0},
         NEW n, n = Transfer(End - offset, left), NEW w, w = WriteInto(b, h, offset, n)
  PROVE  /\ n \in Nat /\ n <= left /\ w \in Sectors
         /\ b.link[1] # 0 => w.link = b.link
         /\ b.link[1] = 0 => w.link[1] = 0
         /\ offset < End =>
              /\ offset + n \in 2 .. End
              /\ b.link[1] = 0 /\ b.link[2] \in 1 .. End - 1 =>
                   /\ w.link[2] \in 1 .. End - 1 /\ b.link[2] <= w.link[2]
                   /\ offset + n <= w.link[2] + 1
<1>1. End - offset \in Int /\ b.link[2] \in Nat
  BY CellsIs, SectorIs
<1>2. n \in Nat /\ n <= left /\ (End - offset >= 0 => n <= End - offset)
  <2> DEFINE room == End - offset
  <2>1. room \in Int /\ n = Transfer(room, left) /\ left \in Nat
    BY <1>1
  <2> HIDE DEF room
  <2>2. n \in Nat /\ n <= left /\ (room >= 0 => n <= room)
    BY <2>1, TransferIs
  <2> QED
    BY <2>2 DEF room
<1>3. /\ w \in Sectors
      /\ b.link[1] # 0 => w.link = b.link
      /\ b.link[1] = 0 =>
           /\ w.link[1] = 0
           /\ w.link[2] = IF offset + n - 1 > b.link[2] THEN offset + n - 1 ELSE b.link[2]
  <2>1. offset \in Nat \ {0} /\ n \in Nat
    BY <1>2
  <2> DEFINE x == WriteInto(b, h, offset, n)
  <2>2. /\ x \in Sectors
        /\ b.link[1] # 0 => x.link = b.link
        /\ b.link[1] = 0 =>
             /\ x.link[1] = 0
             /\ x.link[2] = IF offset + n - 1 > b.link[2] THEN offset + n - 1 ELSE b.link[2]
    <3>1. x \in Sectors
      BY <2>1, WriteIntoIs
    <3>2. x.link = IF b.link[1] = 0 /\ offset + n - 1 > b.link[2] THEN <<0, offset + n - 1>> ELSE b.link
      BY DEF WriteInto
    <3> DEFINE y == x.link
               o == offset + n - 1
    <3>3. y = IF b.link[1] = 0 /\ o > b.link[2] THEN <<0, o>> ELSE b.link
      BY <3>2
    <3>4. (b.link[1] # 0 => y = b.link) /\ (b.link[1] = 0 => y[1] = 0)
          /\ (b.link[1] = 0 => y[2] = IF o > b.link[2] THEN o ELSE b.link[2])
      <4> HIDE DEF x, y, o
      <4> QED
        BY <3>3
    <3> QED
      BY <3>1, <3>4
  <2>3. w = x
    OBVIOUS
  <2> HIDE DEF x
  <2> QED
    BY <2>2, <2>3
<1> DEFINE last == b.link[2]
           then == w.link[2]
<1>4. ASSUME offset < End
      PROVE  /\ offset + n \in 2 .. End
             /\ b.link[1] = 0 /\ last \in 1 .. End - 1 =>
                  /\ then \in 1 .. End - 1 /\ last <= then
                  /\ offset + n <= then + 1
  <2>1. offset + n \in 2 .. End
    BY <1>2, <1>4, CellsIs
  <2>2. b.link[1] = 0 => then = IF offset + n - 1 > last THEN offset + n - 1 ELSE last
    BY <1>3
  <2> HIDE DEF last, then
  <2> QED
    BY <1>2, <2>1, <2>2, CellsIs
<1> QED
  BY <1>2, <1>3, <1>4

(* What a change of the buffer does to the image *)
LEMMA BufferIs ==
  ASSUME Shape, current_sector \in Positions, NEW w,
         sect_buffer' = w, dirty' = TRUE, UNCHANGED <<disk, current_sector>>
  PROVE  View' = [View EXCEPT ![current_sector] = w] /\ current_sector' = current_sector
<1>1. View' = [disk EXCEPT ![current_sector] = w]
  BY DEF View
<1>2. disk \in [Positions -> Sectors]
  BY DEF Shape
<1>3. [View EXCEPT ![current_sector] = w] = [disk EXCEPT ![current_sector] = w]
  <2>1. CASE dirty
    BY <1>2, <2>1 DEF View
  <2>2. CASE ~dirty
    BY <2>2 DEF View
  <2> QED
    BY <2>1, <2>2
<1> QED
  BY <1>1, <1>3

(* A put of bytes keeps the invariant, in the sector in view or after the *)
(* file has got another one.                                              *)
LEMMA PutKeeps ==
  ASSUME Careful, NEW image, Holds(image), now.op = "write", now.at = "copy",
         NEW buffer \in Sectors, NEW cur \in Nat \X Nat, NEW offset \in Nat \ {0, 1},
         NEW n, n = Transfer(End - offset, now.left),
         sect_buffer' = WriteInto(buffer, now.on, offset, n), dirty' = TRUE,
         file' = [file EXCEPT ![now.on].current = cur, ![now.on].offset = offset + n],
         call' = [call EXCEPT ![Task].left = now.left - n,
                              ![Task].at = IF now.left = n THEN "ok" ELSE "copy"],
         UNCHANGED <<disk, current_sector, ops>>, bam' \subseteq bam,
         NEW more \in SUBSET Files, lost' = more, lost \subseteq more,
         IF sect_buffer.link[1] # 0 THEN buffer.link = sect_buffer.link ELSE buffer.link[1] = 0,
         cur[1] # 0, cur \in Positions => Reaches(image, more, file[now.on].name, cur),
         file[now.on].name \notin more =>
           buffer = sect_buffer /\ cur = file[now.on].current
           /\ offset = file[now.on].offset /\ offset # End
  PROVE  Holds(image)'
<1> DEFINE h == now.on
           f == file[h]
           s == current_sector
           w == WriteInto(buffer, h, offset, n)
           left == now.left - n
           at == IF now.left = n THEN "ok" ELSE "copy"
           g == [f EXCEPT !.current = cur, !.offset = offset + n]
           r == [now EXCEPT !.left = left, !.at = at]
           view == View
           grown == View'
<1>1. Shape /\ Window /\ Task \in Tasks /\ image \in Images /\ Links(image)
      /\ \A k \in Handles : Fits(image, View, lost, file[k], AtOf(now, k))
  BY TaskIs DEF Holds
<1>2. /\ f \in FileRecords /\ f.name \in Files /\ f.name # 0 /\ ~f.failed /\ h \in Handles
      /\ now \in CallRecords /\ now.left \in 1 .. Max(Lengths) /\ now.left \in Nat \ {0}
      /\ s \in Positions /\ sect_buffer = View[s] /\ sect_buffer \in Sectors
      /\ StartOf[f.name] \in Positions /\ StartOf[f.name] \in f.visited
      /\ Placed(image, View, lost, f, "copy") /\ Reaches(image, lost, f.name, s)
      /\ f.name \notin lost =>
           /\ s = f.current /\ f.offset \in 2 .. End
           /\ sect_buffer.link[1] = 0 =>
                f.offset <= sect_buffer.link[2] + 1 /\ sect_buffer.link[2] \in 1 .. End - 1
  BY CopyIs, CellsIs
<1>3. /\ n \in Nat /\ n <= now.left /\ w \in Sectors
      /\ buffer.link[1] # 0 => w.link = buffer.link
      /\ buffer.link[1] = 0 => w.link[1] = 0
      /\ offset < End =>
           /\ offset + n \in 2 .. End
           /\ buffer.link[1] = 0 /\ buffer.link[2] \in 1 .. End - 1 =>
                /\ w.link[2] \in 1 .. End - 1 /\ buffer.link[2] <= w.link[2]
                /\ offset + n <= w.link[2] + 1
  BY <1>2, PutIs
<1>4. f.name \notin more =>
        /\ f.name \notin lost /\ buffer = View[s] /\ cur = s /\ offset < End
        /\ buffer.link[1] = 0 => buffer.link[2] \in 1 .. End - 1
  <2> SUFFICES ASSUME f.name \notin more
               PROVE  /\ f.name \notin lost /\ buffer = View[s] /\ cur = s /\ offset < End
                      /\ buffer.link[1] = 0 => buffer.link[2] \in 1 .. End - 1
    OBVIOUS
  <2>1. f.name \notin lost
    OBVIOUS
  <2>2. offset \in 2 .. End /\ offset # End
    BY <1>2, <2>1
  <2> QED
    BY <1>2, <2>1, <2>2, CellsIs
<1>5. left \in 0 .. Max(Lengths) /\ (left = 0 <=> now.left = n)
  <2> DEFINE l == now.left
             m == Max(Lengths)
  <2>1. l \in 1 .. m /\ n \in Nat /\ n <= l /\ m \in Nat
    BY <1>2, <1>3, LongestIs
  <2> HIDE DEF l, m
  <2>2. l - n \in 0 .. m /\ (l - n = 0 <=> l = n)
    BY <2>1
  <2> QED
    BY <2>2 DEF l, m
<1>6. offset + n \in Nat \ {0, 1}
  BY <1>3
<1>7. at \in {"ok", "copy"} /\ (at = "ok" => left = 0) /\ (at = "copy" => left # 0)
  BY <1>5
<1>8. view \in [Positions -> Sectors]
  BY <1>1, ViewIs
<1>9. grown = [view EXCEPT ![s] = w] /\ s' = s
  <2>1. UNCHANGED <<disk, current_sector>>
    OBVIOUS
  <2> HIDE DEF w
  <2>2. sect_buffer' = w
    BY DEF w
  <2> QED
    BY <1>1, <1>2, <2>1, <2>2, BufferIs
<1>10. Reaches(image, more, f.name, s)
  BY <1>2 DEF Reaches
<1>11. Ends(image, view, lost) /\ SameLinks(image, view)
  BY <1>1 DEF Links, Ends
<1>12. /\ grown \in [Positions -> Sectors] /\ grown[s] = w
       /\ SameLinks(image, grown) /\ Ends(image, grown, more) /\ Grows(image, view, grown, more)
  <2>1. view[s].link[1] # 0 => w.link = view[s].link
    BY <1>2, <1>3
  <2>2. view[s].link[1] = 0 => w.link[1] = 0
    BY <1>2, <1>3
  <2>3. f.name \notin more =>
          (w.link[1] = 0 => w.link[2] \in 1 .. End - 1 /\ view[s].link[2] <= w.link[2])
    BY <1>3, <1>4
  <2> HIDE DEF w, view, grown, f
  <2> QED
    BY <1>2, <1>3, <1>8, <1>9, <1>10, <1>11, <2>1, <2>2, <2>3, WrittenIs
<1> HIDE DEF at, left, w
<1>13. /\ r \in CallRecords /\ r.op = "write" /\ r.on = h /\ r.left = left /\ r.at = at
  BY <1>2, <1>5, <1>7 DEF CallRecords
<1>14. now' = r /\ call' \in [Tasks -> CallRecords]
  <2>1. call' = [call EXCEPT ![Task] = r]
    BY <1>1 DEF Shape, now, left, at
  <2> QED
    BY <1>1, <1>13, <2>1, AskIs
<1>15. /\ g \in FileRecords /\ g.name = f.name /\ g.failed = f.failed /\ g.moved = f.moved
       /\ g.current = cur /\ g.offset = offset + n /\ g.visited = f.visited
  <2> DEFINE o == offset + n
  <2>1. o \in Nat \ {0, 1} /\ g = [f EXCEPT !.current = cur, !.offset = o]
    BY <1>6
  <2> HIDE DEF o
  <2>2. /\ g \in FileRecords /\ g.name = f.name /\ g.failed = f.failed /\ g.moved = f.moved
        /\ g.current = cur /\ g.offset = o /\ g.visited = f.visited
    BY <1>2, <2>1 DEF FileRecords
  <2> QED
    BY <2>2 DEF o
<1>16. file' \in [Handles -> FileRecords] /\ file'[h] = g /\ \A k \in Handles : k # h => file'[k] = file[k]
  <2>1. file' = [file EXCEPT ![h] = g]
    BY <1>1, <1>2 DEF Shape
  <2>2. file \in [Handles -> FileRecords] /\ h \in Handles /\ g \in FileRecords
    BY <1>1, <1>2, <1>15 DEF Shape
  <2> HIDE DEF g, h
  <2> QED
    BY <2>1, <2>2
<1> HIDE DEF g, r
<1>17. Shape'
  <2>1. sect_buffer' = w
    BY DEF w
  <2> QED
    BY <1>1, <1>3, <1>9, <1>14, <1>16, <2>1 DEF Shape
<1>18. Window'
  <2>1. sect_buffer' = grown[s]
    BY <1>12 DEF w
  <2> QED
    BY <1>2, <1>9, <2>1 DEF Window
<1>19. Links(image)'
  BY <1>12 DEF Links, Ends
<1>20. Fits(image, View', lost', file'[h], AtOf(now', h))
  <2>1. AtOf(now', h) = at
    BY <1>13, <1>14 DEF AtOf
  <2>2. g.name \notin more => g.offset \in 2 .. End
    BY <1>3, <1>4, <1>15
  <2>3. Placed(image, grown, more, g, at)
    <3>1. f.name \notin more => w = grown[cur] /\ (w.link[1] = 0 => g.offset <= w.link[2] + 1)
      BY <1>3, <1>4, <1>12, <1>15
    <3>2. f.name \notin more =>
            /\ g.current = f.current
            /\ Placed(image, view, lost, f, "copy") /\ f.name \notin lost
      BY <1>2, <1>4, <1>15
    <3>3. /\ g.current = cur /\ cur[1] # 0 /\ g.name = f.name /\ g.moved = f.moved
          /\ g.visited = f.visited /\ (cur \in Positions => Reaches(image, more, f.name, cur))
      BY <1>15
    <3> HIDE DEF view, grown, f
    <3>4. ASSUME f.name \notin more, SoundIn(image, f.name)
          PROVE  LET chain == ChainIn(image, StartOf[g.name])
                 IN  \E k \in 1 .. Len(chain) :
                       /\ g.current = chain[k]
                       /\ ~g.moved => g.visited \subseteq {chain[j] : j \in 1 .. k}
      BY <3>2, <3>3, <3>4 DEF Placed
    <3>5. f.name \notin more => (grown[cur].link[1] = 0 => g.offset <= grown[cur].link[2] + 1)
      BY <3>1
    <3> QED
      BY <3>3, <3>4, <3>5 DEF Placed
  <2>4. Fits(image, grown, more, g, at)
    BY <1>2, <1>15, <2>2, <2>3 DEF Fits
  <2> QED
    BY <1>16, <2>1, <2>4
<1>21. ASSUME NEW k \in Handles PROVE Fits(image, View', lost', file'[k], AtOf(now', k))
  <2>1. CASE k = h
    BY <1>20, <2>1
  <2>2. CASE k # h
    <3>1. AtOf(now, k) = "ok" /\ file'[k] = file[k]
      BY <1>16, <2>2, CallIs
    <3>2. Fits(image, View, lost, file[k], AtOf(now, k))
      BY <1>1
    <3>3. Grows(image, View, View', lost')
      BY <1>12
    <3>4. lost \subseteq lost'
      OBVIOUS
    <3> QED
      BY <1>1, <1>17, <3>1, <3>2, <3>3, <3>4, OthersFit
  <2> QED
    BY <2>1, <2>2
<1>22. \A k \in Handles : Fits(image, View, lost, file[k], AtOf(now, k))'
  BY <1>21
<1>23. Calls(image, View', lost', current_sector', now', file')
  <2>1. Transfers(image, grown, more, s, r, g)
    <3>1. f.name \notin more => s = cur
      BY <1>4
    <3> HIDE DEF grown
    <3> QED
      BY <1>2, <1>7, <1>10, <1>13, <1>15, <3>1 DEF Transfers
  <2> QED
    BY <1>9, <1>13, <1>14, <1>16, <2>1 DEF Calls
<1>24. Calls(image, View, lost, current_sector, now, file)'
  BY <1>23
<1>25. ErrorsHaveReason'
  BY <1>7, <1>13, <1>14, NoErrors
<1> QED
  BY <1>1, <1>17, <1>18, <1>19, <1>22, <1>24, <1>25 DEF Holds

(* A write that goes on to the next sector keeps the invariant. *)
LEMMA AdvanceKeeps ==
  ASSUME Careful, NEW image, Holds(image), now.op = "write", now.at = "copy",
         sect_buffer.link[1] # 0,
         file' = [file EXCEPT ![now.on].current = sect_buffer.link],
         call' = [call EXCEPT ![Task].at = "advance"],
         UNCHANGED <<disk, window>>, UNCHANGED bam, UNCHANGED <<ops, lost>>
  PROVE  Holds(image)'
<1> DEFINE h == now.on
           f == file[h]
           link == sect_buffer.link
           g == [f EXCEPT !.current = link]
           r == [now EXCEPT !.at = "advance"]
<1>1. Shape /\ Window /\ Task \in Tasks
  BY TaskIs DEF Holds
<1>2. /\ f \in FileRecords /\ f.name \in Files /\ f.name # 0 /\ ~f.failed /\ h \in Handles
      /\ now \in CallRecords /\ now.left # 0 /\ link \in Nat \X Nat
      /\ StartOf[f.name] \in Positions /\ StartOf[f.name] \in f.visited
      /\ f.name \notin lost => f.offset \in 2 .. End
  BY CopyIs, CellsIs
<1>3. View' = View /\ Window' /\ UNCHANGED <<disk, current_sector, sect_buffer, dirty>>
  BY <1>1, StillKeeps
<1>4. /\ g \in FileRecords /\ g.name = f.name /\ g.failed = f.failed /\ g.moved = f.moved
      /\ g.current = link /\ g.offset = f.offset /\ g.visited = f.visited
  <2> HIDE DEF f, link
  <2> QED
    BY <1>2 DEF FileRecords
<1>5. /\ r \in CallRecords /\ r.op = "write" /\ r.on = h /\ r.left = now.left /\ r.at = "advance"
  BY <1>2 DEF CallRecords
<1>6. now' = r /\ call' \in [Tasks -> CallRecords]
  <2>1. call' = [call EXCEPT ![Task] = r]
    BY <1>1 DEF Shape, now
  <2> HIDE DEF r
  <2> QED
    BY <1>1, <1>5, <2>1, AskIs
<1>7. file' \in [Handles -> FileRecords] /\ file'[h] = g /\ \A k \in Handles : k # h => file'[k] = file[k]
  <2>1. file' = [file EXCEPT ![h] = g]
    BY <1>1, <1>2 DEF Shape
  <2>2. file \in [Handles -> FileRecords] /\ h \in Handles /\ g \in FileRecords
    BY <1>1, <1>2, <1>4 DEF Shape
  <2> HIDE DEF g, h
  <2> QED
    BY <2>1, <2>2
<1>8. Placed(image, View, lost, g, "advance")
  BY <1>4, PlacedOn
<1> HIDE DEF r, g
<1>9. Shape'
  BY <1>1, <1>3, <1>6, <1>7 DEF Shape
<1>10. \A k \in Handles :
         \/ file'[k] = file[k] /\ AtOf(now, k) \notin {"error", "advance"}
         \/ Fits(image, View', lost', file'[k], AtOf(now', k))
  <2>1. \A k \in Handles : k # h => AtOf(now, k) = "ok"
    BY CallIs
  <2>2. AtOf(now', h) = "advance"
    BY <1>5, <1>6 DEF AtOf
  <2>3. Fits(image, View, lost, g, "advance")
    BY <1>2, <1>4, <1>8 DEF Fits
  <2>4. Fits(image, View', lost', file'[h], AtOf(now', h))
    BY <1>3, <1>7, <2>2, <2>3
  <2> QED
    BY <1>7, <2>1, <2>4
<1>11. Calls(image, View', lost', current_sector', now', file')
  <2>1. Transfers(image, View, lost, current_sector, r, g)
    BY <1>2, <1>4, <1>5 DEF Transfers
  <2> QED
    BY <1>3, <1>5, <1>6, <1>7, <2>1 DEF Calls
<1>12. ErrorsHaveReason'
  BY <1>5, <1>6, NoErrors
<1> QED
  BY <1>3, <1>9, <1>10, <1>11, <1>12, QuietStep

(* A write that finds no free sector keeps the invariant: that is a reason. *)
LEMMA FullKeeps ==
  ASSUME Careful, NEW image, Holds(image), now.op = "write", now.at = "copy",
         file[now.on].offset = End, ~MayAllocate(file[now.on].current[1]),
         call' = [call EXCEPT ![Task].at = "error"],
         UNCHANGED <<disk, window>>, UNCHANGED bam, UNCHANGED file, UNCHANGED <<ops, lost>>
  PROVE  Holds(image)'
<1> DEFINE h == now.on
           f == file[h]
           r == [now EXCEPT !.at = "error"]
<1>1. Shape /\ Window /\ Task \in Tasks
  BY TaskIs DEF Holds
<1>2. f.name # 0 /\ ~f.failed /\ h \in Handles /\ now \in CallRecords
  BY CopyIs, CellsIs
<1>3. View' = View /\ Window' /\ UNCHANGED <<disk, current_sector, sect_buffer, dirty>>
  BY <1>1, StillKeeps
<1>4. r \in CallRecords /\ r.op = "write" /\ r.on = h /\ r.at = "error"
  BY <1>2 DEF CallRecords
<1>5. now' = r /\ call' \in [Tasks -> CallRecords]
  <2>1. call' = [call EXCEPT ![Task] = r]
    BY <1>1 DEF Shape, now
  <2> HIDE DEF r
  <2> QED
    BY <1>1, <1>4, <2>1, AskIs
<1> HIDE DEF r
<1>6. Shape'
  BY <1>1, <1>3, <1>5 DEF Shape
<1>7. \A k \in Handles :
        file'[k] = file[k] /\ (AtOf(now', k) = "error" \/ AtOf(now, k) = "ok")
  <2>1. \A k \in Handles : k # h => AtOf(now, k) = "ok"
    BY CallIs
  <2>2. AtOf(now', h) = "error"
    BY <1>4, <1>5 DEF AtOf
  <2> QED
    BY <2>1, <2>2
<1>8. Calls(image, View', lost', current_sector', now', file')
  BY <1>2, <1>4, <1>5 DEF Calls, Transfers
<1>9. ErrorsHaveReason'
  <2>1. \A u \in Tasks : call'[u] = r
    BY <1>5, TaskIs DEF now
  <2>2. \A track : MayAllocate(track)' <=> MayAllocate(track)
    BY DEF MayAllocate, FreeOn, FreeTracks
  <2>3. f.offset = End /\ ~MayAllocate(f.current[1]) /\ file'[h] = f
    OBVIOUS
  <2> HIDE DEF f, h
  <2> QED
    BY <1>4, <2>1, <2>2, <2>3 DEF ErrorsHaveReason
<1> QED
  BY <1>3, <1>6, <1>7, <1>8, <1>9, QuietStep

(* A step of a write keeps the invariant. *)
LEMMA WriteCopyKeeps ==
  ASSUME Careful, NEW image, Holds(image), NEW t \in Tasks, now.op = "write", now.at = "copy",
         WriteCopy(t, now.on)
  PROVE  Holds(image)'
<1> DEFINE h == now.on
           f == file[h]
           link == sect_buffer.link
           new == get_next_free_sector(f.current[1])
           n == Transfer(End - f.offset, now.left)
           m == Transfer(End - 2, now.left)
           fresh == [sect_buffer EXCEPT !.link = <<0, new[2]>>]
<1>1. t = Task /\ now = call[t] /\ Shape
  BY TaskIs DEF Holds, now
<1>2. /\ f \in FileRecords /\ f.name \in Files /\ now.left \in Nat \ {0} /\ h \in Handles
      /\ sect_buffer \in Sectors /\ lost \in SUBSET Files /\ f.offset \in Nat \ {0, 1}
      /\ Placed(image, View, lost, f, "copy")
  BY CopyIs
<1>3. f.current \in Nat \X Nat /\ f.current[1] # 0
  BY <1>2 DEF FileRecords, Placed
<1>4. CASE /\ f.offset # End
           /\ sect_buffer' = WriteInto(sect_buffer, h, f.offset, n) /\ dirty' = TRUE
           /\ file' = [file EXCEPT ![h].current = f.current, ![h].offset = f.offset + n]
           /\ call' = [call EXCEPT ![t].left = now.left - n,
                                   ![t].at = IF now.left = n THEN "ok" ELSE "copy"]
           /\ UNCHANGED <<disk, current_sector, bam, history>>
  <2>1. /\ UNCHANGED <<disk, current_sector, ops>> /\ bam' \subseteq bam /\ lost' = lost
    BY <1>4 DEF history
  <2>2. f.current \in Positions => Reaches(image, lost, f.name, f.current)
    BY <1>2 DEF Placed
  <2>3. IF link[1] # 0 THEN link = link ELSE link[1] = 0
    OBVIOUS
  <2> DEFINE cur == f.current
             offset == f.offset
             more == lost
             buffer == sect_buffer
  <2>4. /\ sect_buffer' = WriteInto(buffer, now.on, offset, n) /\ dirty' = TRUE
        /\ file' = [file EXCEPT ![now.on].current = cur, ![now.on].offset = offset + n]
        /\ call' = [call EXCEPT ![Task].left = now.left - n,
                                ![Task].at = IF now.left = n THEN "ok" ELSE "copy"]
        /\ n = Transfer(End - offset, now.left)
        /\ lost' = more /\ lost \subseteq more /\ more \in SUBSET Files
        /\ IF sect_buffer.link[1] # 0 THEN buffer.link = sect_buffer.link ELSE buffer.link[1] = 0
        /\ cur[1] # 0 /\ (cur \in Positions => Reaches(image, more, file[now.on].name, cur))
        /\ buffer \in Sectors /\ cur \in Nat \X Nat /\ offset \in Nat \ {0, 1}
        /\ buffer = sect_buffer /\ cur = file[now.on].current
        /\ offset = file[now.on].offset /\ offset # End
    BY <1>1, <1>2, <1>3, <1>4, <2>1, <2>2, <2>3
  <2> HIDE DEF cur, offset, more, buffer, n
  <2> QED
    BY <2>1, <2>4, PutKeeps
<1>5. CASE /\ f.offset = End /\ link[1] # 0
           /\ file' = [file EXCEPT ![h].current = link]
           /\ call' = [call EXCEPT ![t].at = "advance"]
           /\ UNCHANGED <<disk, window, bam, history>>
  BY <1>1, <1>5, AdvanceKeeps DEF history
<1>6. CASE /\ f.offset = End /\ ~MayAllocate(f.current[1])
           /\ call' = [call EXCEPT ![t].at = "error"]
           /\ UNCHANGED <<disk, window, bam, file, history>>
  BY <1>1, <1>6, FullKeeps DEF history
<1>7. CASE /\ f.offset = End /\ link[1] = 0 /\ MayAllocate(f.current[1])
           /\ bam' = bam \ {new}
           /\ sect_buffer' = WriteInto(fresh, h, 2, m) /\ dirty' = TRUE
           /\ file' = [file EXCEPT ![h].current = new, ![h].offset = 2 + m]
           /\ call' = [call EXCEPT ![t].left = now.left - m,
                                   ![t].at = IF now.left = m THEN "ok" ELSE "copy"]
           /\ lost' = lost \cup {f.name}
           /\ UNCHANGED <<disk, current_sector, ops>>
  <2>1. new \in Free /\ new \in Nat \X Nat /\ new[1] # 0
    <3> DEFINE track == f.current[1]
    <3>1. track \in Nat \ {0} /\ MayAllocate(track) /\ bam \subseteq Free
      BY <1>1, <1>3, <1>7 DEF Shape
    <3> HIDE DEF track
    <3>2. LET taken == get_next_free_sector(track)
          IN  taken \in Free /\ taken \in Nat \X Nat /\ taken[1] # 0
      BY <3>1, AllocatedIs
    <3> QED
      BY <3>2 DEF track
  <2> DEFINE more == lost \cup {f.name}
             cur == new
             buffer == fresh
             offset == 2
  <2>2. buffer \in Sectors /\ buffer.link[1] = 0
    <3> DEFINE last == new[2]
    <3>1. last \in Nat
      BY <2>1
    <3>2. fresh = [link |-> <<0, last>>, data |-> sect_buffer.data]
      BY <1>2 DEF Sectors
    <3> HIDE DEF last, new, fresh
    <3> QED
      BY <1>2, <3>1, <3>2 DEF Sectors
  <2>3. Reaches(image, more, f.name, cur)
    BY <2>1 DEF Reaches
  <2>4. /\ sect_buffer' = WriteInto(buffer, now.on, offset, m) /\ dirty' = TRUE
        /\ file' = [file EXCEPT ![now.on].current = cur, ![now.on].offset = offset + m]
        /\ m = Transfer(End - offset, now.left) /\ offset \in Nat \ {0, 1}
    BY <1>7
  <2>6. call' = [call EXCEPT ![Task].left = now.left - m,
                             ![Task].at = IF now.left = m THEN "ok" ELSE "copy"]
    BY <1>1, <1>7
  <2>7. /\ lost' = more /\ lost \subseteq more /\ more \in SUBSET Files
        /\ file[now.on].name \in more
    BY <1>2, <1>7
  <2>8. /\ cur[1] # 0 /\ Reaches(image, more, file[now.on].name, cur) /\ cur \in Nat \X Nat
    BY <2>1, <2>3
  <2>9. UNCHANGED <<disk, current_sector, ops>> /\ bam' \subseteq bam
    <3> HIDE DEF new
    <3> QED
      BY <1>7
  <2>5. IF sect_buffer.link[1] # 0 THEN buffer.link = sect_buffer.link ELSE buffer.link[1] = 0
    BY <1>7, <2>2
  <2> HIDE DEF cur, offset, more, buffer, m
  <2> QED
    BY <2>2, <2>4, <2>5, <2>6, <2>7, <2>8, <2>9, PutKeeps
<1>8. \/ /\ f.offset # End
         /\ sect_buffer' = WriteInto(sect_buffer, h, f.offset, n) /\ dirty' = TRUE
         /\ file' = [file EXCEPT ![h].current = f.current, ![h].offset = f.offset + n]
         /\ call' = [call EXCEPT ![t].left = now.left - n,
                                 ![t].at = IF now.left = n THEN "ok" ELSE "copy"]
         /\ UNCHANGED <<disk, current_sector, bam, history>>
      \/ /\ f.offset = End /\ link[1] # 0
         /\ file' = [file EXCEPT ![h].current = link]
         /\ call' = [call EXCEPT ![t].at = "advance"]
         /\ UNCHANGED <<disk, window, bam, history>>
      \/ /\ f.offset = End /\ ~MayAllocate(f.current[1])
         /\ call' = [call EXCEPT ![t].at = "error"]
         /\ UNCHANGED <<disk, window, bam, file, history>>
      \/ /\ f.offset = End /\ link[1] = 0 /\ MayAllocate(f.current[1])
         /\ bam' = bam \ {new}
         /\ sect_buffer' = WriteInto(fresh, h, 2, m) /\ dirty' = TRUE
         /\ file' = [file EXCEPT ![h].current = new, ![h].offset = 2 + m]
         /\ call' = [call EXCEPT ![t].left = now.left - m,
                                 ![t].at = IF now.left = m THEN "ok" ELSE "copy"]
         /\ lost' = lost \cup {f.name}
         /\ UNCHANGED <<disk, current_sector, ops>>
  BY <1>1 DEF WriteCopy
<1> QED
  BY <1>4, <1>5, <1>6, <1>7, <1>8

(* A step in which nothing changes keeps the invariant. *)
LEMMA StutterKeeps ==
  ASSUME Careful, NEW image, Holds(image), UNCHANGED vars
  PROVE  Holds(image)'
<1>1. UNCHANGED <<disk, window>> /\ UNCHANGED bam /\ UNCHANGED file /\ UNCHANGED call /\ UNCHANGED <<ops, lost>>
  BY DEF vars, history
<1>2. Shape /\ Window /\ Calls(image, View, lost, current_sector, now, file) /\ ErrorsHaveReason
  BY DEF Holds
<1>3. View' = View /\ Window' /\ UNCHANGED <<disk, current_sector, sect_buffer, dirty>>
  BY <1>1, <1>2, StillKeeps
<1>4. Shape' /\ now' = now
  BY <1>1, <1>2, <1>3 DEF Shape, now
<1>5. Calls(image, View', lost', current_sector', now', file')
  BY <1>1, <1>2, <1>3, <1>4
<1>6. ErrorsHaveReason'
  <2>1. UNCHANGED vars
    OBVIOUS
  <2>2. \A n : Sound(n)' <=> Sound(n)
    BY <1>1, <1>3 DEF Chain, Sound
  <2>3. \A track : MayAllocate(track)' <=> MayAllocate(track)
    BY <1>1 DEF MayAllocate, FreeOn, FreeTracks
  <2>4. Listed' = Listed
    BY <1>3 DEF Listed, Chain
  <2> QED
    BY <1>1, <1>2, <2>2, <2>3, <2>4 DEF ErrorsHaveReason
<1> QED
  BY <1>1, <1>2, <1>3, <1>4, <1>5, <1>6, QuietStep

(* Positions inside of a file make a seek end at once. *)
LEMMA SeekNeverCopies ==
  ASSUME Careful, NEW image, Holds(image), now.at = "copy"
  PROVE  now.op \in {"read", "write", "open"}
<1>1. now.op # "none"
  <2>1. now.op = "none" => now = NoCall
    BY DEF Holds, Calls
  <2> QED
    BY <2>1 DEF NoCall
<1> QED
  BY <1>1, CallIs

(* A step that uses the sector in view keeps the invariant. *)
LEMMA CopyKeeps ==
  ASSUME Careful, NEW image, Holds(image), NEW t \in Tasks, Copy(t)
  PROVE  Holds(image)'
<1>1. now = call[t]
  BY TaskIs DEF now
<1>2. now.at = "copy"
  BY <1>1 DEF Copy
<1>3. now.op \in {"read", "write", "open"}
  BY <1>2, SeekNeverCopies
<1>4. CASE now.op = "read"
  <2>1. ReadCopy(t, now.on)
    BY <1>1, <1>4 DEF Copy
  <2> QED
    BY <1>2, <1>4, <2>1, ReadCopyKeeps
<1>5. CASE now.op = "write"
  <2>1. WriteCopy(t, now.on)
    BY <1>1, <1>5 DEF Copy
  <2> QED
    BY <1>2, <1>5, <2>1, WriteCopyKeeps
<1>6. CASE now.op = "open"
  <2>1. OpenCopy(t, now.on)
    BY <1>1, <1>6 DEF Copy
  <2> QED
    BY <1>2, <1>6, <2>1, OpenCopyKeeps
<1> QED
  BY <1>3, <1>4, <1>5, <1>6

(****************************************************************************)
(* The invariant: all steps, and what follows from it                       *)
(****************************************************************************)

(* Every step keeps the invariant. *)
LEMMA StepKeeps ==
  ASSUME Careful, NEW image, Holds(image), [Next]_vars
  PROVE  Holds(image)'
<1>1. ASSUME NEW t \in Tasks, Request(t) PROVE Holds(image)'
  <2>1. PICK h \in Handles :
          \/ \E name \in Files : StartOpen(t, h, name)
          \/ \E len \in Lengths : StartRead(t, h, len) \/ StartWrite(t, h, len)
          \/ \E pos \in Lengths : StartSeek(t, h, pos)
    BY <1>1 DEF Request
  <2>2. CASE \E name \in Files : StartOpen(t, h, name)
    BY <2>2, StartOpenKeeps
  <2>3. CASE \E len \in Lengths : StartRead(t, h, len)
    BY <2>3, StartReadKeeps
  <2>4. CASE \E len \in Lengths : StartWrite(t, h, len)
    BY <2>4, StartWriteKeeps
  <2>5. CASE \E pos \in Lengths : StartSeek(t, h, pos)
    BY <2>5, StartSeekKeeps
  <2> QED
    BY <2>1, <2>2, <2>3, <2>4, <2>5
<1>2. ASSUME NEW t \in Tasks, Step(t) PROVE Holds(image)'
  BY <1>2, MoveKeepsInv, MoveErrorKeeps, NextSectorKeeps, CopyKeeps, ReturnKeeps DEF Step
<1>3. ASSUME NEW h \in Handles, Close(h) PROVE Holds(image)'
  BY <1>3, CloseKeeps
<1>4. CASE UNCHANGED vars
  BY <1>4, StutterKeeps
<1> QED
  BY <1>1, <1>2, <1>3, <1>4 DEF Next

(* The invariant holds at first, for the image on the medium. *)
LEMMA InitHolds ==
  ASSUME Careful, Init
  PROVE  \E image \in Images : Holds(image)
<1>1. PICK image \in Images : disk = image
  BY DEF Init
<1>2. /\ current_sector = Nowhere /\ sect_buffer = Torn /\ dirty = FALSE /\ bam = Free
      /\ file = [h \in Handles |-> NoFile] /\ call = [t \in Tasks |-> NoCall]
      /\ ops = 0 /\ lost = {}
  BY DEF Init
<1>3. View = image /\ image \in [Positions -> Sectors]
  BY <1>1, <1>2, ImageIs DEF View
<1>4. Nowhere \notin Positions
  BY NoPosition DEF Nowhere
<1>5. now = NoCall
  BY <1>2, TaskIs DEF now
<1>6. Shape
  <2>1. Torn \in Sectors
    <3>1. [i \in 1 .. Cells |-> 0] \in [1 .. Cells -> Values]
      BY DEF Values
    <3>2. <<0, 1>> \in Nat \X Nat
      OBVIOUS
    <3> QED
      BY <3>1, <3>2 DEF Torn, Sectors
  <2> QED
    BY <1>1, <1>2, <1>3, <2>1, NoFileIs, NoCallIs DEF Shape
<1>7. Window
  BY <1>2, <1>4 DEF Window
<1>8. Links(image)
  BY <1>3, D64Assumption DEF Links, SameLinks
<1>9. \A h \in Handles : Fits(image, View, lost, file[h], AtOf(now, h))
  BY <1>2, NoFileIs
<1>10. Calls(image, View, lost, current_sector, now, file)
  BY <1>5 DEF Calls, NoCall
<1>11. ErrorsHaveReason
  <2>1. \A t \in Tasks : call[t].at # "error"
    BY <1>2 DEF NoCall
  <2> QED
    BY <2>1 DEF ErrorsHaveReason
<1> QED
  BY <1>6, <1>7, <1>8, <1>9, <1>10, <1>11 DEF Holds

(* The invariant implies what is wanted of it. *)
LEMMA TypesHold ==
  ASSUME Careful, IInv
  PROVE  TypeOK /\ ErrorsHaveReason
<1>1. PICK image \in Images : Holds(image)
  BY DEF IInv
<1>2. Shape /\ ErrorsHaveReason /\ \A h \in Handles : Fits(image, View, lost, file[h], AtOf(now, h))
  BY <1>1 DEF Holds
<1>3. ASSUME NEW h \in Handles
      PROVE  (file[h].offset \in 2 .. End \/ file[h].name \in lost) /\ file[h].visited \subseteq Positions
  <2>1. file[h] \in FileRecords
    BY <1>2 DEF Shape
  <2>2. Fits(image, View, lost, file[h], AtOf(now, h))
    BY <1>2
  <2> QED
    BY <2>1, <2>2 DEF Fits, FileRecords
<1>4. ASSUME NEW t \in Tasks
      PROVE  /\ call[t].op \in Ops /\ call[t].on \in Handles \cup {0}
             /\ call[t].at \in {"move", "advance", "next", "copy", "ok", "error"}
             /\ call[t].left \in 0 .. Max(Lengths) /\ call[t].idx \in -1 .. 2 * Cells
  <2>1. call[t] \in CallRecords
    BY <1>2 DEF Shape
  <2> QED
    BY <2>1 DEF CallRecords
<1> QED
  BY <1>2, <1>3, <1>4 DEF TypeOK, Shape

(* The invariant holds in every state. *)
LEMMA InvariantHolds ==
  ASSUME Careful
  PROVE  Spec => []IInv
<1>1. Init => IInv
  BY InitHolds DEF IInv
<1>2. IInv /\ [Next]_vars => IInv'
  <2> SUFFICES ASSUME IInv, [Next]_vars PROVE IInv'
    OBVIOUS
  <2>1. PICK image \in Images : Holds(image)
    BY DEF IInv
  <2>2. Holds(image)'
    BY <2>1, StepKeeps
  <2> QED
    BY <2>2 DEF IInv
<1> QED
  BY <1>1, <1>2, PTL DEF Spec

(* The variables keep their types for all images, tables and bounds: the *)
(* window shows a sector or none, offsets stay in the sector (unless the *)
(* file was given up), no request asks for more than the longest one     *)
(* (f_read, f_write, move_window).                                       *)
THEOREM TypeCorrect == Careful /\ Spec => []TypeOK
<1> SUFFICES ASSUME Careful PROVE Spec => []TypeOK
  OBVIOUS
<1>1. IInv => TypeOK
  BY TypesHold
<1> QED
  BY <1>1, InvariantHolds, PTL

(* For all images, a request fails only when the medium failed, the image *)
(* is damaged or full, the name is not listed, or the file was moved in   *)
(* before (the error paths of file_open, f_read, f_write and              *)
(* DirInD64::read).                                                       *)
THEOREM ErrorsOnlyForReason == Careful /\ Spec => []ErrorsHaveReason
<1> SUFFICES ASSUME Careful PROVE Spec => []ErrorsHaveReason
  OBVIOUS
<1>1. IInv => ErrorsHaveReason
  BY TypesHold
<1> QED
  BY <1>1, InvariantHolds, PTL

(****************************************************************************)
(* What the files promise, by the image they come from                      *)
(****************************************************************************)

(* The position of a handle in the chain of its file *)
PosIn(image, f, at) ==
  LET chain == ChainIn(image, StartOf[f.name])
      offset == IF at = "advance" THEN 2 ELSE f.offset
      k == CHOOSE i \in DOMAIN chain : chain[i] = f.current
  IN  IF f.current \in Range(chain) THEN (k - 1) * Cells + offset - 2 ELSE -1

(* Promise(h), by the original image, the files given up, the handle and *)
(* the request on it; none of the variables occurs in it.                *)
Promised(image, gone, f, c) ==
  LET transfer == c.op \in {"read", "write"}
  IN  IF f.name = 0 THEN NoPromise("closed")
      ELSE IF ~(SoundIn(image, f.name) /\ f.name \notin gone) \/ f.failed \/ c.at = "error"
      THEN NoPromise("failed")
      ELSE [file |-> f.name, pos |-> PosIn(image, f, c.at), got |-> f.got,
            left |-> IF transfer THEN c.left ELSE 0,
            doing |-> IF transfer THEN c.op ELSE "idle"]

(* Contents(f), in the same way *)
Stored(image, view, gone, f) ==
  IF SoundIn(image, f) /\ f \notin gone THEN Content(view, ChainIn(image, StartOf[f])) ELSE <<>>

(* The request on a handle *)
OnOf(c, h) == IF c.on = h THEN c ELSE NoCall

(* The request on a handle, without a choice *)
LEMMA CallOnIs ==
  ASSUME Careful, NEW h \in Handles
  PROVE  CallOn(h) = OnOf(now, h)
<1>1. Tasks = {Task} /\ \A t \in Tasks : call[t] = now
  BY TaskIs DEF now
<1>2. Idle(h) <=> now.on # h
  BY IdleIs
<1>3. CASE Idle(h)
  BY <1>2, <1>3 DEF CallOn, OnOf
<1>4. CASE ~Idle(h)
  <2>1. \E t \in Tasks : call[t].on = h
    BY <1>4 DEF Idle
  <2>2. (CHOOSE t \in Tasks : call[t].on = h) \in Tasks
    BY <2>1
  <2> QED
    BY <1>1, <1>2, <1>4, <2>2 DEF CallOn, OnOf
<1> QED
  BY <1>3, <1>4

(* A handle promises what its record and the request say. *)
LEMMA PromiseIs ==
  ASSUME Careful, NEW image, Holds(image), NEW h \in Handles
  PROVE  Promise(h) = Promised(image, lost, file[h], OnOf(now, h))
<1> DEFINE f == file[h]
           c == OnOf(now, h)
<1>1. SameLinks(image, View) /\ f.name \in Files \cup {0}
  BY DEF Holds, Links, Shape, FileRecords
<1>2. CallOn(h) = c
  BY CallOnIs
<1>3. Chain(StartOf[f.name]) = ChainIn(image, StartOf[f.name])
  <2> DEFINE view == View
             start == StartOf[f.name]
  <2>1. SameLinks(image, view)
    BY <1>1
  <2> HIDE DEF view, start
  <2>2. ChainIn(view, start) = ChainIn(image, start)
    BY <2>1, ChainRigid
  <2> QED
    BY <2>2 DEF Chain, view, start
<1>4. Pos(h) = PosIn(image, f, c.at)
  BY <1>2, <1>3 DEF Pos, PosIn
<1>5. f.name # 0 => (Sound(f.name) <=> SoundIn(image, f.name) /\ f.name \notin lost)
  BY <1>1, SoundIs
<1> HIDE DEF c
<1> QED
  BY <1>2, <1>4, <1>5 DEF Promise, Promised, c

(* The same for records that do not change, so that it can be primed *)
LEMMA PromisesAre ==
  \A im, g, f, c, gone :
    Careful /\ Holds(im) /\ g \in Handles /\ f = file[g] /\ c = now /\ gone = lost =>
      Promise(g) = Promised(im, gone, f, OnOf(c, g))
BY PromiseIs

(* A file holds what the original chain leads to. *)
LEMMA ContentsIs ==
  ASSUME Careful, NEW image, Holds(image), NEW f \in Files
  PROVE  /\ Contents(f) = Stored(image, View, lost, f)
         /\ Sound(f) <=> SoundIn(image, f) /\ f \notin lost
<1>1. SameLinks(image, View)
  BY DEF Holds, Links
<1>2. Sound(f) <=> SoundIn(image, f) /\ f \notin lost
  BY <1>1, SoundIs
<1>3. Chain(StartOf[f]) = ChainIn(image, StartOf[f])
  <2> DEFINE view == View
             start == StartOf[f]
  <2>1. SameLinks(image, view)
    BY <1>1
  <2> HIDE DEF view, start
  <2>2. ChainIn(view, start) = ChainIn(image, start)
    BY <2>1, ChainRigid
  <2> QED
    BY <2>2 DEF Chain, view, start
<1> QED
  BY <1>2, <1>3 DEF Contents, Stored

(* The variables of the abstract store *)
contents == [f \in Files |-> Contents(f)]
(* The files that are sound *)
sound == {f \in Files : Sound(f)}
(* The handles, by what they promise *)
handles == [h \in Handles |-> Promise(h)]
(* Only the handle h changes, to q. *)
Becomes(h, q) == handles' = [handles EXCEPT ![h] = q]

(* A step that concerns one handle *)
LEMMA HandleChanges ==
  ASSUME Careful, NEW image, Holds(image), Holds(image)', lost' = lost,
         NEW h \in Handles, \A g \in Handles : g # h => file'[g] = file[g],
         (now.on \in {h, 0} /\ now'.on \in {h, 0}) \/ now' = now
  PROVE  /\ handles[h] = Promised(image, lost, file[h], OnOf(now, h))
         /\ Becomes(h, Promised(image, lost, file'[h], OnOf(now', h)))
<1>1. \A g \in Handles : Promise(g) = Promised(image, lost, file[g], OnOf(now, g))
  BY PromiseIs
<1>2. \A g \in Handles : Promise(g)' = Promised(image, lost', file'[g], OnOf(now', g))
  <2>1. (\A im, g, f, c, gone :
           Careful /\ Holds(im) /\ g \in Handles /\ f = file[g] /\ c = now /\ gone = lost =>
             Promise(g) = Promised(im, gone, f, OnOf(c, g)))'
    BY PromisesAre, PTL
  <2> QED
    BY <2>1
<1>3. \A g \in Handles : g # h => OnOf(now', g) = OnOf(now, g)
  <2>1. CASE now' = now
    BY <2>1 DEF OnOf
  <2>2. CASE now.on \in {h, 0} /\ now'.on \in {h, 0}
    BY <2>2, CellsIs DEF OnOf
  <2> QED
    BY <2>1, <2>2
<1>4. \A g \in Handles : g # h => Promise(g)' = Promise(g)
  BY <1>1, <1>2, <1>3
<1> QED
  BY <1>1, <1>2, <1>4 DEF handles, Becomes

(* A step that concerns one handle, and none of the contents *)
LEMMA OneHandle ==
  ASSUME Careful, NEW image, Holds(image), Holds(image)', View' = View, lost' = lost,
         NEW h \in Handles, \A g \in Handles : g # h => file'[g] = file[g],
         (now.on \in {h, 0} /\ now'.on \in {h, 0}) \/ now' = now
  PROVE  /\ contents' = contents /\ sound' = sound
         /\ handles[h] = Promised(image, lost, file[h], OnOf(now, h))
         /\ Becomes(h, Promised(image, lost, file'[h], OnOf(now', h)))
<1>1. \A f \in Files : Contents(f)' = Contents(f) /\ (Sound(f)' <=> Sound(f))
  BY DEF Contents, Sound, Chain
<1> QED
  BY <1>1, HandleChanges DEF contents, sound

(****************************************************************************)
(* Steps of the abstract store                                              *)
(****************************************************************************)

(* A promise of an open file *)
Promise5(name, pos, got, left, doing) ==
  [file |-> name, pos |-> pos, got |-> got, left |-> left, doing |-> doing]


(* The handles are a function on the handles. *)
LEMMA HandlesAre ==
  handles \in [Handles -> {Promise(h) : h \in Handles}]
BY DEF handles

(* The steps of the store on one handle that change no contents *)
LEMMA StoreStutters ==
  ASSUME contents' = contents, sound' = sound, NEW h \in Handles,
         Becomes(h, handles[h])
  PROVE  UNCHANGED Store!vars
<1>1. handles' = handles
  BY DEF handles, Becomes
<1> QED
  BY <1>1 DEF Store!vars, contents, sound, handles

(* A handle that opens is a step of the store. *)
LEMMA StoreOpens ==
  ASSUME contents' = contents, sound' = sound, NEW h \in Handles, NEW f \in Files, NEW q,
         Becomes(h, q), handles[h] = NoPromise("closed"),
         q = IF Sound(f) THEN Promise5(f, 0, <<>>, 0, "idle") ELSE NoPromise("failed")
  PROVE  Store!Next
<1>1. handles[h].doing = "closed"
  BY DEF NoPromise
<1>2. q = IF f \in sound THEN [Store!Closed EXCEPT !.file = f, !.doing = "idle"] ELSE Store!Failed
  BY DEF sound, Store!Closed, Store!Failed, Promise5, NoPromise
<1>3. Store!Open(h, f)
  BY <1>1, <1>2 DEF Store!Open, contents, sound, handles, Becomes
<1> QED
  BY <1>1, <1>3 DEF Store!Next, handles

(* A handle that closes is a step of the store. *)
LEMMA StoreCloses ==
  ASSUME contents' = contents, sound' = sound, NEW h \in Handles,
         Becomes(h, NoPromise("closed")),
         handles[h].doing \in {"idle", "failed"}
  PROVE  Store!Next
<1>1. NoPromise("closed") = Store!Closed
  BY DEF Store!Closed, NoPromise
<1>2. Store!Close(h)
  BY <1>1 DEF Store!Close, contents, sound, handles, Becomes
<1> QED
  BY <1>2 DEF Store!Next

(* A handle that fails is a step of the store. *)
LEMMA StoreFails ==
  ASSUME contents' = contents, sound' = sound, NEW h \in Handles,
         Becomes(h, NoPromise("failed")),
         handles[h].doing \in {"idle", "read", "write"}
  PROVE  Store!Next
<1>1. NoPromise("failed") = Store!Failed
  BY DEF Store!Closed, Store!Failed, NoPromise
<1>2. Store!Fail(h)
  BY <1>1 DEF Store!Fail, contents, sound, handles, Becomes
<1> QED
  BY <1>2 DEF Store!Next

(* The start of a read or write is a step of the store. *)
LEMMA StoreStarts ==
  ASSUME contents' = contents, sound' = sound, NEW h \in Handles, NEW what \in {"read", "write"},
         NEW n \in 0 .. Max(Lengths), NEW f, NEW pos, NEW got, NEW left,
         handles[h] = Promise5(f, pos, got, left, "idle"),
         Becomes(h, Promise5(f, pos, <<>>, n, what))
  PROVE  Store!Next
<1>1. handles[h].doing = "idle"
  BY DEF Promise5
<1>2. handles' = [handles EXCEPT ![h].doing = what, ![h].left = n, ![h].got = <<>>]
  <2> DEFINE r0 == Promise5(f, pos, got, left, "idle")
             r1 == Promise5(f, pos, got, left, what)
             r2 == Promise5(f, pos, got, n, what)
             r3 == Promise5(f, pos, <<>>, n, what)
  <2>1. [r0 EXCEPT !.doing = what] = r1
    BY DEF Promise5
  <2>2. [r1 EXCEPT !.left = n] = r2
    BY DEF Promise5
  <2>3. [r2 EXCEPT !.got = <<>>] = r3
    BY DEF Promise5
  <2>4. handles[h] = r0 /\ handles' = [handles EXCEPT ![h] = r3]
    BY DEF Becomes
  <2> HIDE DEF r0, r1, r2, r3
  <2>5. handles' = [handles EXCEPT ![h].doing = what, ![h].left = n, ![h].got = <<>>]
    BY HandlesAre, <2>1, <2>2, <2>3, <2>4
  <2> QED
    BY <2>5
<1>3. Store!Start(h, what, n)
  BY <1>1, <1>2 DEF Store!Start, contents, sound, handles
<1> QED
  BY <1>1, <1>3 DEF Store!Next, handles

(* A new position is a step of the store. *)
LEMMA StoreSeeks ==
  ASSUME contents' = contents, sound' = sound, NEW h \in Handles,
         NEW n \in 0 .. Max(Lengths), NEW f, NEW pos, NEW got, NEW left,
         handles[h] = Promise5(f, pos, got, left, "idle"),
         Becomes(h, Promise5(f, n, <<>>, left, "idle"))
  PROVE  Store!Next
<1>1. handles[h].doing = "idle"
  BY DEF Promise5
<1>2. handles' = [handles EXCEPT ![h].pos = n, ![h].got = <<>>]
  <2> DEFINE r0 == Promise5(f, pos, got, left, "idle")
             r1 == Promise5(f, n, got, left, "idle")
             r2 == Promise5(f, n, <<>>, left, "idle")
  <2>1. [r0 EXCEPT !.pos = n] = r1
    BY DEF Promise5
  <2>2. [r1 EXCEPT !.got = <<>>] = r2
    BY DEF Promise5
  <2>3. handles[h] = r0 /\ handles' = [handles EXCEPT ![h] = r2]
    BY DEF Becomes
  <2> HIDE DEF r0, r1, r2
  <2>4. handles' = [handles EXCEPT ![h].pos = n, ![h].got = <<>>]
    BY HandlesAre, <2>1, <2>2, <2>3
  <2> QED
    BY <2>4
<1>3. Store!Seek(h, n)
  BY <1>1, <1>2 DEF Store!Seek, contents, sound, handles
<1> QED
  BY <1>1, <1>3 DEF Store!Next, handles

(* The store's view of the bytes that a read got *)
Gets(h, then, less, up) ==
  handles' = [handles EXCEPT ![h].pos = then, ![h].left = less, ![h].got = up]

(* A handle that becomes what a read makes of it is changed in these *)
(* fields.                                                           *)
LEMMA GetUpdates ==
  ASSUME NEW h \in Handles, NEW f, NEW pos, NEW got, NEW left, NEW then, NEW less, NEW up,
         handles[h] = Promise5(f, pos, got, left, "read"),
         Becomes(h, Promise5(f, then, up, less, "read"))
  PROVE  Gets(h, then, less, up)
<1> DEFINE r0 == Promise5(f, pos, got, left, "read")
           r1 == Promise5(f, then, got, left, "read")
           r2 == Promise5(f, then, got, less, "read")
           r3 == Promise5(f, then, up, less, "read")
<1>1. [r0 EXCEPT !.pos = then] = r1
  BY DEF Promise5
<1>2. [r1 EXCEPT !.left = less] = r2
  BY DEF Promise5
<1>3. [r2 EXCEPT !.got = up] = r3
  BY DEF Promise5
<1>4. handles[h] = r0 /\ handles' = [handles EXCEPT ![h] = r3]
  BY DEF Becomes
<1> HIDE DEF r0, r1, r2, r3
<1>5. handles' = [handles EXCEPT ![h].pos = then, ![h].left = less, ![h].got = up]
  BY HandlesAre, <1>1, <1>2, <1>3, <1>4
<1> QED
  BY <1>5 DEF Gets

(* Taking the next bytes of the file is a step of the store. *)
LEMMA StoreGets ==
  ASSUME contents' = contents, sound' = sound, NEW h \in Handles,
         NEW n \in 0 .. Max(Lengths), NEW f \in Files, NEW pos, NEW got, NEW left, NEW then, NEW less, NEW up,
         handles[h] = Promise5(f, pos, got, left, "read"), n <= left, pos + n <= Len(Contents(f)),
         Becomes(h, Promise5(f, then, up, less, "read")),
         then = pos + n, less = left - n, up = got \o SubSeq(Contents(f), pos + 1, pos + n)
  PROVE  Store!Next
<1>1. handles[h].doing = "read" /\ handles[h].left = left /\ handles[h].pos = pos
      /\ handles[h].file = f /\ handles[h].got = got
  BY DEF Promise5
<1>2. contents[f] = Contents(f)
  BY DEF contents
<1>3. handles' = [handles EXCEPT ![h].pos = then, ![h].left = less, ![h].got = up]
  <2>1. Gets(h, then, less, up)
    BY GetUpdates
  <2> QED
    BY <2>1 DEF Gets
<1>4. handles' = [handles EXCEPT ![h].pos = @ + n, ![h].left = @ - n,
                     ![h].got = @ \o SubSeq(contents[handles[h].file], handles[h].pos + 1,
                                            handles[h].pos + n)]
  BY <1>1, <1>2, <1>3 DEF handles
<1>5. Store!Get(h, n)
  BY <1>1, <1>2, <1>4 DEF Store!Get, Store!Of, contents, sound, handles
<1> QED
  BY <1>1, <1>5 DEF Store!Next, handles

(* The return of a read or write that is done is a step of the store. *)
LEMMA StoreReturns ==
  ASSUME contents' = contents, sound' = sound, NEW h \in Handles, NEW what \in {"read", "write"},
         NEW f \in Files, NEW pos, NEW got, NEW left,
         handles[h] = Promise5(f, pos, got, left, what),
         left = 0 \/ (what = "read" /\ pos = Len(Contents(f))),
         Becomes(h, Promise5(f, pos, got, 0, "idle"))
  PROVE  Store!Next
<1>1. handles[h].doing = what /\ handles[h].left = left /\ handles[h].pos = pos
      /\ handles[h].file = f
  BY DEF Promise5
<1>2. contents[f] = Contents(f)
  BY DEF contents
<1>3. handles' = [handles EXCEPT ![h].doing = "idle", ![h].left = 0]
  <2> DEFINE r0 == Promise5(f, pos, got, left, what)
             r1 == Promise5(f, pos, got, left, "idle")
             r2 == Promise5(f, pos, got, 0, "idle")
  <2>1. [r0 EXCEPT !.doing = "idle"] = r1
    BY DEF Promise5
  <2>2. [r1 EXCEPT !.left = 0] = r2
    BY DEF Promise5
  <2>3. handles[h] = r0 /\ handles' = [handles EXCEPT ![h] = r2]
    BY DEF Becomes
  <2> HIDE DEF r0, r1, r2
  <2>4. handles' = [handles EXCEPT ![h].doing = "idle", ![h].left = 0]
    BY HandlesAre, <2>1, <2>2, <2>3
  <2> QED
    BY <2>4
<1>4. Store!Return(h)
  BY <1>1, <1>2, <1>3 DEF Store!Return, Store!Of, contents, sound, handles
<1> QED
  BY <1>4 DEF Store!Next

(* The bytes of a file after n of them from pos on were written by h *)
Overlaid(was, size, pos, n, h) == [i \in 1 .. size |-> IF i \in pos + 1 .. pos + n THEN h ELSE was[i]]
(* Only the file f changes. *)
Rewrites(f, bytes) == contents' = [contents EXCEPT ![f] = bytes]

(* Putting bytes at the position of the handle is a step of the store. *)
LEMMA StorePuts ==
  ASSUME sound' = sound, NEW h \in Handles, NEW n \in 0 .. Max(Lengths), NEW f \in Files,
         NEW pos, NEW got, NEW left, NEW then, NEW less, NEW size, NEW more,
         handles[h] = Promise5(f, pos, got, left, "write"), n <= left,
         Becomes(h, Promise5(f, then, got, less, "write")),
         then = pos + n, less = left - n,
         size = IF then > Len(Contents(f)) THEN then ELSE Len(Contents(f)),
         more = Overlaid(Contents(f), size, pos, n, h), Rewrites(f, more)
  PROVE  Store!Next
<1>1. handles[h].doing = "write" /\ handles[h].left = left /\ handles[h].pos = pos
      /\ handles[h].file = f
  BY DEF Promise5
<1>2. contents[f] = Contents(f)
  BY DEF contents
<1>3. handles' = [handles EXCEPT ![h].pos = then, ![h].left = less]
  <2> DEFINE r0 == Promise5(f, pos, got, left, "write")
             r1 == Promise5(f, then, got, left, "write")
             r2 == Promise5(f, then, got, less, "write")
  <2>1. [r0 EXCEPT !.pos = then] = r1
    BY DEF Promise5
  <2>2. [r1 EXCEPT !.left = less] = r2
    BY DEF Promise5
  <2>3. handles[h] = r0 /\ handles' = [handles EXCEPT ![h] = r2]
    BY DEF Becomes
  <2> HIDE DEF r0, r1, r2
  <2>4. handles' = [handles EXCEPT ![h].pos = then, ![h].left = less]
    BY HandlesAre, <2>1, <2>2, <2>3
  <2> QED
    BY <2>4
<1>4. handles' = [handles EXCEPT ![h].pos = @ + n, ![h].left = @ - n]
  BY <1>1, <1>3 DEF handles
<1>5. Store!Put(h, n)
  <2>1. contents' = [contents EXCEPT ![handles[h].file] =
          [i \in 1 .. (IF handles[h].pos + n > Len(contents[handles[h].file])
                       THEN handles[h].pos + n ELSE Len(contents[handles[h].file])) |->
             IF i \in handles[h].pos + 1 .. handles[h].pos + n THEN h ELSE @[i]]]
    BY <1>1, <1>2 DEF contents, Overlaid, Rewrites
  <2> QED
    BY <1>1, <1>2, <1>4, <2>1 DEF Store!Put, Store!Of, contents, sound, handles
<1> QED
  BY <1>1, <1>5 DEF Store!Next, handles

(* Giving up the file that a write is on is a step of the store. *)
LEMMA StoreSpoils ==
  ASSUME Lossy, NEW h \in Handles, NEW f \in Files,
         handles[h].doing = "write", handles[h].file = f,
         sound' = sound \ {f}, contents' = [contents EXCEPT ![f] = <<>>],
         handles' = [g \in Handles |-> IF handles[g].file = f THEN NoPromise("failed") ELSE handles[g]]
  PROVE  Store!Next
<1>1. NoPromise("failed") = Store!Failed
  BY DEF Store!Closed, Store!Failed, NoPromise
<1>2. Store!Spoil(h)
  BY <1>1 DEF Store!Spoil, contents, sound, handles
<1> QED
  BY <1>2 DEF Store!Next

(* A request on a handle of a sound file, which still can succeed *)
Kept(image, gone, f, c) ==
  SoundIn(image, f.name) /\ f.name \notin gone /\ ~f.failed /\ c.at # "error"

(* The cases of a promise *)
LEMMA PromisedIs ==
  ASSUME NEW image, NEW gone, NEW f, NEW c
  PROVE  /\ f.name = 0 => Promised(image, gone, f, c) = NoPromise("closed")
         /\ f.name # 0 /\ ~Kept(image, gone, f, c) =>
              Promised(image, gone, f, c) = NoPromise("failed")
         /\ f.name # 0 /\ Kept(image, gone, f, c) /\ c.op \notin {"read", "write"} =>
              Promised(image, gone, f, c) = Promise5(f.name, PosIn(image, f, c.at), f.got, 0, "idle")
         /\ f.name # 0 /\ Kept(image, gone, f, c) /\ c.op \in {"read", "write"} =>
              Promised(image, gone, f, c) = Promise5(f.name, PosIn(image, f, c.at), f.got, c.left, c.op)
BY DEF Promised, Kept, Promise5

(* The position of a handle that is at the k-th sector of its file *)
LEMMA PosIs ==
  ASSUME NEW image, NEW f, StartOf[f.name] \in Positions, NEW at,
         NEW k \in 1 .. Len(ChainIn(image, StartOf[f.name])),
         f.current = ChainIn(image, StartOf[f.name])[k]
  PROVE  PosIn(image, f, at) = (k - 1) * Cells + (IF at = "advance" THEN 2 ELSE f.offset) - 2
<1> DEFINE start == StartOf[f.name]
           chain == ChainIn(image, start)
<1>1. /\ DOMAIN chain = 1 .. Len(chain) /\ Range(chain) = {chain[i] : i \in 1 .. Len(chain)}
      /\ \A i, j \in 1 .. Len(chain) : chain[i] = chain[j] => i = j
  BY ChainFacts
<1>2. k \in 1 .. Len(chain) /\ f.current = chain[k]
  OBVIOUS
<1>3. PosIn(image, f, at) =
        IF f.current \in Range(chain)
        THEN ((CHOOSE i \in DOMAIN chain : chain[i] = f.current) - 1) * Cells
             + (IF at = "advance" THEN 2 ELSE f.offset) - 2
        ELSE -1
  BY DEF PosIn
<1> HIDE DEF chain
<1>4. f.current \in Range(chain)
  BY <1>1, <1>2
<1>5. (CHOOSE i \in DOMAIN chain : chain[i] = f.current) = k
  BY <1>1, <1>2
<1> QED
  BY <1>3, <1>4, <1>5

(* Where a sound file is read or written next *)
LEMMA PlaceIs ==
  ASSUME Careful, NEW image, Holds(image), NEW h \in Handles, file[h].name # 0,
         Kept(image, lost, file[h], OnOf(now, h))
  PROVE  LET f == file[h]
             chain == ChainIn(image, StartOf[f.name])
             at == OnOf(now, h).at
         IN  /\ f.name \in Files /\ StartOf[f.name] \in Positions
             /\ \E k \in 1 .. Len(chain) :
                  /\ f.current = chain[k]
                  /\ PosIn(image, f, at) = (k - 1) * Cells + (IF at = "advance" THEN 2 ELSE f.offset) - 2
<1> DEFINE f == file[h]
           chain == ChainIn(image, StartOf[f.name])
<1>1. f \in FileRecords /\ Fits(image, View, lost, f, AtOf(now, h))
  BY DEF Holds, Shape
<1>2. f.name \in Files /\ StartOf[f.name] \in Positions
  BY <1>1 DEF FileRecords, Fits
<1>3. AtOf(now, h) # "error"
  BY DEF Kept, OnOf, AtOf
<1>4. Placed(image, View, lost, f, AtOf(now, h)) /\ SoundIn(image, f.name) /\ f.name \notin lost
  BY <1>1, <1>3 DEF Fits, Kept
<1>5. PICK k \in 1 .. Len(chain) : f.current = chain[k]
  BY <1>4 DEF Placed
<1> QED
  BY <1>2, <1>5, PosIs

(****************************************************************************)
(* Steps of handles that are not open, or of their requests                 *)
(****************************************************************************)

(* A step of a request on a handle that is not open changes no promise. *)
LEMMA ClosedStep ==
  ASSUME Careful, NEW image, Holds(image), Holds(image)', View' = View, lost' = lost, file' = file,
         NEW h \in Handles, now.on \in {h, 0}, now'.on \in {h, 0}, file[h].name = 0
  PROVE  UNCHANGED Store!vars
<1>1. /\ contents' = contents /\ sound' = sound
      /\ handles[h] = Promised(image, lost, file[h], OnOf(now, h))
      /\ Becomes(h, Promised(image, lost, file'[h], OnOf(now', h)))
  BY OneHandle
<1>2. /\ Promised(image, lost, file[h], OnOf(now, h)) = NoPromise("closed")
      /\ Promised(image, lost, file[h], OnOf(now', h)) = NoPromise("closed")
  BY PromisedIs
<1>3. Becomes(h, handles[h])
  BY <1>1, <1>2
<1> QED
  BY <1>1, <1>3, StoreStutters

(* When medium and window stay, so does what they hold. *)
LEMMA StillView ==
  ASSUME Careful, NEW image, Holds(image), UNCHANGED <<disk, window>>
  PROVE  View' = View
BY StillKeeps DEF Holds

(* The request of the task, after a change of its record *)
LEMMA NowBecomes ==
  ASSUME Careful, NEW r, NEW t \in Tasks, call \in [Tasks -> CallRecords], call' = [call EXCEPT ![t] = r]
  PROVE  now' = r /\ t = Task /\ now = call[t]
BY TaskIs DEF now

(* The start of an open changes nothing that the files promise. *)
LEMMA OpenStarts ==
  ASSUME Careful, NEW image, Holds(image), Holds(image)', NEW t \in Tasks, NEW h \in Handles,
         NEW name \in Files, StartOpen(t, h, name)
  PROVE  UNCHANGED Store!vars
<1> DEFINE r == [NoCall EXCEPT !.op = "open", !.on = h, !.name = name, !.at = "move",
                               !.current = RootSector]
<1>1. /\ file[h].name = 0 /\ call' = [call EXCEPT ![t] = r] /\ call[t].op = "none"
      /\ lost' = lost /\ UNCHANGED <<disk, window>> /\ file' = file
  BY DEF StartOpen, Ask
<1>2. View' = View
  BY <1>1, StillView
<1>3. call \in [Tasks -> CallRecords]
  BY DEF Holds, Shape
<1>4. r.on = h
  BY DEF NoCall
<1> HIDE DEF r
<1>5. now' = r /\ now = call[t]
  BY <1>1, <1>3, NowBecomes
<1>6. now.on = 0
  BY <1>1, <1>5 DEF Holds, Calls, NoCall
<1> QED
  BY <1>1, <1>2, <1>4, <1>5, <1>6, ClosedStep

(* The next sector of the directory changes nothing that the files promise. *)
LEMMA NextSectorStutters ==
  ASSUME Careful, NEW image, Holds(image), Holds(image)', NEW t \in Tasks, NextSector(t)
  PROVE  UNCHANGED Store!vars
<1>1. now = call[t] /\ t = Task
  BY TaskIs DEF now
<1>2. /\ now.op = "open" /\ now.at = "next" /\ lost' = lost /\ UNCHANGED <<disk, window>> /\ file' = file
  BY <1>1 DEF NextSector, history
<1>3. now.on \in Handles /\ file[now.on].name = 0 /\ now \in CallRecords
  BY <1>2, CallIs
<1>4. View' = View
  BY <1>2, StillView
<1>5. now'.on = now.on
  <2> DEFINE link == IF call[t].idx = 0 THEN FirstDirectory ELSE sect_buffer.link
             found == [now EXCEPT !.current = link, !.visited = @ \cup {link}, !.at = "move"]
             none == [now EXCEPT !.at = "error"]
  <2>1. call \in [Tasks -> CallRecords]
    BY DEF Holds, Shape
  <2>2. call' = [call EXCEPT ![t] = found] \/ call' = [call EXCEPT ![t] = none]
    BY <1>1, <2>1 DEF NextSector
  <2>3. found.on = now.on /\ none.on = now.on
    <3> HIDE DEF link
    <3> QED
      BY <1>3 DEF CallRecords
  <2> HIDE DEF found, none
  <2> QED
    BY <2>1, <2>2, <2>3, NowBecomes
<1> QED
  BY <1>2, <1>3, <1>4, <1>5, ClosedStep

(* Handles at the same place have the same position. *)
LEMMA PosAlike ==
  ASSUME NEW image, NEW f, NEW g, NEW at, NEW then, g.name = f.name, g.current = f.current,
         at = "advance" => then = "advance" \/ g.offset = 2,
         at # "advance" => IF then = "advance" THEN f.offset = 2 ELSE g.offset = f.offset
  PROVE  PosIn(image, g, then) = PosIn(image, f, at)
BY DEF PosIn

(* A handle about which no more is promised *)
LEMMA HandleFails ==
  ASSUME Careful, NEW image, Holds(image), Holds(image)', lost' = lost,
         contents' = contents, sound' = sound,
         NEW h \in Handles, \A g \in Handles : g # h => file'[g] = file[g],
         (now.on \in {h, 0} /\ now'.on \in {h, 0}) \/ now' = now,
         file[h].name # 0, file'[h].name # 0,
         ~Kept(image, lost, file'[h], OnOf(now', h)),
         OnOf(now, h).op \in {"none", "open", "seek", "read", "write"}
  PROVE  Store!Next \/ UNCHANGED Store!vars
<1> DEFINE f == file[h]
           c == OnOf(now, h)
<1>1. /\ handles[h] = Promised(image, lost, f, c)
      /\ Becomes(h, Promised(image, lost, file'[h], OnOf(now', h)))
  BY HandleChanges
<1>2. Promised(image, lost, file'[h], OnOf(now', h)) = NoPromise("failed")
  BY PromisedIs
<1>3. Becomes(h, NoPromise("failed"))
  BY <1>1, <1>2
<1>4. CASE Kept(image, lost, f, c)
  <2>1. handles[h].doing \in {"idle", "read", "write"}
    BY <1>1, <1>4 DEF Promised, Kept
  <2>2. Store!Next
    BY <1>3, <2>1, StoreFails
  <2> QED
    BY <2>2
<1>5. CASE ~Kept(image, lost, f, c)
  <2>1. handles[h] = NoPromise("failed")
    BY <1>1, <1>5, PromisedIs
  <2>2. Becomes(h, handles[h])
    BY <1>3, <2>1
  <2> QED
    BY <2>2, StoreStutters
<1> QED
  BY <1>4, <1>5

(* A step after which a handle promises nothing more fails it. *)
LEMMA FailedStep ==
  ASSUME Careful, NEW image, Holds(image), Holds(image)', View' = View, lost' = lost,
         NEW h \in Handles, \A g \in Handles : g # h => file'[g] = file[g],
         (now.on \in {h, 0} /\ now'.on \in {h, 0}) \/ now' = now,
         file[h].name # 0, file'[h].name # 0,
         ~Kept(image, lost, file'[h], OnOf(now', h)),
         OnOf(now, h).op \in {"none", "open", "seek", "read", "write"}
  PROVE  Store!Next \/ UNCHANGED Store!vars
<1>1. contents' = contents /\ sound' = sound
  BY OneHandle
<1> QED
  BY <1>1, HandleFails

(* The start of a read or write is one of the store. *)
LEMMA TransferStarts ==
  ASSUME Careful, NEW image, Holds(image), Holds(image)', NEW t \in Tasks, NEW h \in Handles,
         NEW len \in Lengths, NEW what \in {"read", "write"}, Usable(h),
         Ask(t, [NoCall EXCEPT !.op = what, !.on = h, !.left = len, !.at = "move"]),
         file' = [file EXCEPT ![h].got = <<>>],
         UNCHANGED <<disk, window>>
  PROVE  Store!Next \/ UNCHANGED Store!vars
<1> DEFINE r == [NoCall EXCEPT !.op = what, !.on = h, !.left = len, !.at = "move"]
           f == file[h]
           g == [file[h] EXCEPT !.got = <<>>]
<1>1. call' = [call EXCEPT ![t] = r] /\ UNCHANGED lost /\ call[t].op = "none"
  BY DEF Ask
<1>2. f.name \in Files /\ f.name # 0 /\ f \in FileRecords
  BY UsableIs, CellsIs
<1>3. r.op = what /\ r.on = h /\ r.left = len /\ r.at = "move"
  BY DEF NoCall
<1>4. call \in [Tasks -> CallRecords] /\ file \in [Handles -> FileRecords]
  BY DEF Holds, Shape
<1>5. g.name = f.name /\ g.current = f.current /\ g.offset = f.offset /\ g.failed = f.failed
      /\ g.got = <<>>
  BY <1>2 DEF FileRecords
<1>6. file'[h] = g /\ \A k \in Handles : k # h => file'[k] = file[k]
  BY <1>4
<1> HIDE DEF r, g
<1>7. now' = r /\ now = call[t]
  BY <1>1, <1>4, NowBecomes
<1>8. now = NoCall /\ NoCall.on = 0 /\ NoCall.op = "none" /\ NoCall.at = "ok"
  BY <1>1, <1>7 DEF Holds, Calls, NoCall
<1>9. OnOf(now, h) = NoCall /\ OnOf(now', h) = r
  BY <1>3, <1>7, <1>8 DEF OnOf
<1>10. View' = View
  BY StillView
<1>11. CASE ~Kept(image, lost, f, NoCall)
  <2>1. ~Kept(image, lost, g, r)
    BY <1>3, <1>5, <1>8, <1>11 DEF Kept
  <2> QED
    BY <1>1, <1>2, <1>3, <1>5, <1>6, <1>7, <1>8, <1>9, <1>10, <2>1, FailedStep
<1>12. CASE Kept(image, lost, f, NoCall)
  <2> DEFINE pos == PosIn(image, f, "ok")
  <2>1. /\ contents' = contents /\ sound' = sound
        /\ handles[h] = Promised(image, lost, f, NoCall)
        /\ Becomes(h, Promised(image, lost, g, r))
    BY <1>1, <1>3, <1>6, <1>7, <1>8, <1>9, <1>10, OneHandle
  <2>2. handles[h] = Promise5(f.name, pos, f.got, 0, "idle")
    BY <1>2, <1>8, <1>12, <2>1, PromisedIs
  <2>3. Kept(image, lost, g, r)
    BY <1>3, <1>5, <1>8, <1>12 DEF Kept
  <2>4. Promised(image, lost, g, r) = Promise5(g.name, PosIn(image, g, "move"), g.got, len, what)
    BY <1>2, <1>3, <1>5, <2>3, PromisedIs
  <2>5. PosIn(image, g, "move") = pos
    BY <1>5, PosAlike
  <2>6. Becomes(h, Promise5(f.name, pos, <<>>, len, what))
    BY <1>5, <2>1, <2>4, <2>5
  <2>7. len \in 0 .. Max(Lengths)
    BY LongestIs
  <2>8. Store!Next
    BY <2>1, <2>2, <2>6, <2>7, StoreStarts
  <2> QED
    BY <2>8
<1> QED
  BY <1>11, <1>12

(* StartRead starts a read of the store. *)
LEMMA ReadStarts ==
  ASSUME Careful, NEW image, Holds(image), Holds(image)', NEW t \in Tasks, NEW h \in Handles,
         NEW len \in Lengths, StartRead(t, h, len)
  PROVE  Store!Next \/ UNCHANGED Store!vars
<1>1. /\ Usable(h) /\ Ask(t, [NoCall EXCEPT !.op = "read", !.on = h, !.left = len, !.at = "move"])
      /\ file' = [file EXCEPT ![h].got = <<>>]
      /\ UNCHANGED <<disk, window>>
  BY DEF StartRead
<1> QED
  BY <1>1, TransferStarts

(* StartWrite starts a write of the store. *)
LEMMA WriteStarts ==
  ASSUME Careful, NEW image, Holds(image), Holds(image)', NEW t \in Tasks, NEW h \in Handles,
         NEW len \in Lengths, StartWrite(t, h, len)
  PROVE  Store!Next \/ UNCHANGED Store!vars
<1>1. Usable(h)
  BY DEF StartWrite
<1>2. file[h].current[1] # 0
  BY <1>1, UsableIs
<1>3. /\ Ask(t, [NoCall EXCEPT !.op = "write", !.on = h, !.left = len, !.at = "move"])
      /\ file' = [file EXCEPT ![h].got = <<>>]
      /\ UNCHANGED <<disk, window>>
  BY <1>2 DEF StartWrite, window
<1> QED
  BY <1>1, <1>3, TransferStarts

(* Close closes a handle of the store. *)
LEMMA CloseImplemented ==
  ASSUME Careful, NEW image, Holds(image), Holds(image)', NEW h \in Handles, Close(h)
  PROVE  Store!Next
<1>1. /\ now.on # h /\ file[h].name # 0 /\ file' = [file EXCEPT ![h] = NoFile]
      /\ UNCHANGED <<disk, window>> /\ call' = call /\ lost' = lost
  BY IdleIs DEF Close, history
<1>2. View' = View
  BY <1>1, StillView
<1>3. now' = now
  BY <1>1 DEF now
<1>4. file'[h] = NoFile /\ \A g \in Handles : g # h => file'[g] = file[g]
  BY <1>1 DEF Holds, Shape
<1>5. OnOf(now, h) = NoCall /\ OnOf(now', h) = NoCall /\ NoCall.op = "none"
  BY <1>1, <1>3 DEF OnOf, NoCall
<1>6. /\ contents' = contents /\ sound' = sound
      /\ handles[h] = Promised(image, lost, file[h], NoCall)
      /\ Becomes(h, Promised(image, lost, NoFile, NoCall))
  BY <1>1, <1>2, <1>3, <1>4, <1>5, OneHandle
<1>7. Promised(image, lost, NoFile, NoCall) = NoPromise("closed")
  BY PromisedIs DEF NoFile
<1>8. Becomes(h, NoPromise("closed"))
  BY <1>6, <1>7
<1>9. handles[h].doing \in {"idle", "failed"}
  BY <1>1, <1>5, <1>6 DEF Promised, NoPromise
<1> QED
  BY <1>6, <1>8, <1>9, StoreCloses

(* The links of a sound file lead along its chain; only the last one ends *)
(* it.                                                                    *)
LEMMA LinksOfSound ==
  ASSUME Careful, NEW image, Holds(image), NEW f \in Files, StartOf[f] \in Positions, SoundIn(image, f)
  PROVE  LET chain == ChainIn(image, StartOf[f])
         IN  \A k \in 1 .. Len(chain) :
               /\ chain[k] \in Positions
               /\ k = Len(chain) => View[chain[k]].link[1] = 0
               /\ k # Len(chain) => /\ k + 1 \in 1 .. Len(chain) /\ View[chain[k]].link = chain[k + 1]
                                    /\ View[chain[k]].link[1] # 0
<1> DEFINE chain == ChainIn(image, StartOf[f])
           view == View
<1>1. SameLinks(image, View)
  BY DEF Holds, Links
<1>2. /\ Len(chain) \in Nat \ {0} /\ \A i \in 1 .. Len(chain) : chain[i] \in Positions
      /\ \A i \in 1 .. Len(chain) - 1 : image[chain[i]].link = chain[i + 1] /\ i + 1 \in 1 .. Len(chain)
  BY ChainFacts
<1>3. image[chain[Len(chain)]].link[1] = 0
  BY TrailIs
<1>4. \A p \in Positions : (image[p].link[1] = 0 => view[p].link[1] = 0)
                           /\ (image[p].link[1] # 0 => view[p].link = image[p].link)
  BY <1>1 DEF SameLinks
<1> HIDE DEF chain, view
<1>5. ASSUME NEW k \in 1 .. Len(chain)
      PROVE  /\ chain[k] \in Positions
             /\ k = Len(chain) => view[chain[k]].link[1] = 0
             /\ k # Len(chain) => /\ k + 1 \in 1 .. Len(chain) /\ view[chain[k]].link = chain[k + 1]
                                  /\ view[chain[k]].link[1] # 0
  <2>1. chain[k] \in Positions
    BY <1>2
  <2>2. k = Len(chain) => view[chain[k]].link[1] = 0
    BY <1>3, <1>4, <2>1
  <2>3. ASSUME k # Len(chain)
        PROVE  /\ k + 1 \in 1 .. Len(chain) /\ view[chain[k]].link = chain[k + 1]
               /\ view[chain[k]].link[1] # 0
    <3>1. k \in 1 .. Len(chain) - 1
      BY <1>2, <2>3
    <3>2. image[chain[k]].link = chain[k + 1] /\ k + 1 \in 1 .. Len(chain) /\ chain[k + 1] \in Positions
      BY <1>2, <3>1
    <3>3. image[chain[k]].link[1] # 0
      BY <3>2, NoPosition
    <3> QED
      BY <1>4, <2>1, <3>2, <3>3
  <2> QED
    BY <2>1, <2>2, <2>3
<1> QED
  BY <1>5 DEF chain, view

(* The bytes of a sound file *)
LEMMA ContentsOfSound ==
  ASSUME Careful, NEW image, Holds(image), NEW f \in Files, StartOf[f] \in Positions,
         SoundIn(image, f), f \notin lost
  PROVE  LET chain == ChainIn(image, StartOf[f])
             last == View[chain[Len(chain)]].link[2]
             size == (Len(chain) - 1) * Cells + last - 1
         IN  /\ last \in 1 .. End - 1 /\ size \in Nat /\ Len(Contents(f)) = size
             /\ Contents(f) =
                  [i \in 1 .. size |-> View[chain[(i - 1) \div Cells + 1]].data[((i - 1) % Cells) + 1]]
<1> DEFINE chain == ChainIn(image, StartOf[f])
           last == View[chain[Len(chain)]].link[2]
           n == Len(chain) - 1
           size == (Len(chain) - 1) * Cells + last - 1
<1>1. Len(chain) \in Nat \ {0} /\ Len(chain) \in 1 .. Len(chain) /\ Last(chain) = chain[Len(chain)]
      /\ \A i \in 1 .. Len(chain) : chain[i] \in Positions
  BY ChainFacts
<1>2. View[chain[Len(chain)]].link[1] = 0
  BY <1>1, LinksOfSound
<1>3. chain[Len(chain)] \in Trail(image, f)
  BY <1>1, TrailIs
<1>4. last \in 1 .. End - 1
  BY <1>1, <1>2, <1>3, StartFits DEF Reaches
<1>5. Contents(f) = Content(View, chain)
  BY ContentsIs DEF Stored
<1>6. size \in Nat
  <2>1. n \in Nat /\ n * Cells \in Nat /\ last - 1 \in Nat
    BY <1>1, <1>4, CellsIs
  <2>2. size = n * Cells + (last - 1)
    <3> DEFINE m == n * Cells
    <3>1. size = m + last - 1 /\ m \in Nat
      BY <2>1
    <3> HIDE DEF m, n, last, size
    <3>2. last \in Int
      BY <1>4, CellsIs
    <3>3. m + (last - 1) = m + last - 1
      BY <3>1, <3>2
    <3>4. m = n * Cells
      BY DEF m
    <3> QED
      BY <3>1, <3>3, <3>4
  <2> HIDE DEF n, last, size
  <2> QED
    BY <2>1, <2>2
<1>7. Size(View, chain) = size
  BY <1>1 DEF Size
<1>8. Contents(f) =
        [i \in 1 .. size |-> View[chain[(i - 1) \div Cells + 1]].data[((i - 1) % Cells) + 1]]
  BY <1>5, <1>7 DEF Content
<1> HIDE DEF size, last, chain
<1>9. Len(Contents(f)) = size
  BY <1>6, <1>8
<1> QED
  BY <1>4, <1>6, <1>8, <1>9 DEF size, last, chain

(* The contents of a file are a sequence. *)
LEMMA ContentsAreBytes ==
  ASSUME Careful, NEW image, Holds(image), NEW f \in Files, StartOf[f] \in Positions,
         SoundIn(image, f), f \notin lost
  PROVE  Contents(f) \in Seq({Contents(f)[i] : i \in 1 .. Len(Contents(f))})
<1> DEFINE chain == ChainIn(image, StartOf[f])
           c == Contents(f)
           size == (Len(chain) - 1) * Cells + View[chain[Len(chain)]].link[2] - 1
           e(i) == View[chain[(i - 1) \div Cells + 1]].data[((i - 1) % Cells) + 1]
<1>1. size \in Nat /\ Len(c) = size /\ c = [i \in 1 .. size |-> e(i)]
  BY ContentsOfSound
<1> HIDE DEF size, e, c
<1>2. c \in Seq({c[i] : i \in 1 .. Len(c)})
  BY <1>1
<1> QED
  BY <1>2 DEF c

(* StartSeek moves a handle of the store, or fails it. *)
LEMMA SeekImplemented ==
  ASSUME Careful, NEW image, Holds(image), Holds(image)', NEW t \in Tasks, NEW h \in Handles,
         NEW pos \in Lengths, StartSeek(t, h, pos)
  PROVE  Store!Next \/ UNCHANGED Store!vars
<1> DEFINE request == [NoCall EXCEPT !.op = "seek", !.on = h]
           start == StartOf[file[h].name]
           f == file[h]
           back == file[h].moved \/ file[h].visited # {start}
           done == [request EXCEPT !.left = pos, !.at = "ok"]
           wrong == [request EXCEPT !.left = pos, !.at = "error"]
           moved == [file[h] EXCEPT !.current = start, !.offset = pos + 2, !.got = <<>>, !.moved = back]
           stray == [file[h] EXCEPT !.current = start]
           chain == ChainIn(image, start)
<1>1. call \in [Tasks -> CallRecords] /\ file \in [Handles -> FileRecords] /\ Usable(h)
  BY DEF Holds, Shape, StartSeek
<1>2. /\ f.name \in Files /\ f.name # 0 /\ f \in FileRecords /\ Fits(image, View, lost, f, "ok")
      /\ ~f.failed
  BY <1>1, UsableIs, CellsIs
<1>3. start \in Positions /\ start \in f.visited
  BY <1>2 DEF Fits
<1>4. TrackSectorOf(start, f.current) = start
  BY D64Assumption DEF StartSeek, Careful, TrackSectorOf
<1>5. ~MayVisit(f, start)
  BY <1>3 DEF MayVisit
<1>6. /\ UNCHANGED <<disk, window>> /\ UNCHANGED lost
      /\ SeekFrom(t, h, request, start, pos) /\ call[t].op = "none"
  BY <1>4 DEF StartSeek
<1>7. \/ call' = [call EXCEPT ![t] = done] /\ file' = [file EXCEPT ![h] = moved]
      \/ call' = [call EXCEPT ![t] = wrong] /\ file' = [file EXCEPT ![h] = stray]
  BY <1>1, <1>5, <1>6 DEF SeekFrom
<1>8. pos \in Nat /\ pos \in 0 .. Max(Lengths)
  BY LongestIs
<1>9. /\ done.op = "seek" /\ done.on = h /\ done.at = "ok"
      /\ wrong.op = "seek" /\ wrong.on = h /\ wrong.at = "error"
  BY DEF NoCall
<1>10. /\ moved.name = f.name /\ moved.current = start /\ moved.offset = pos + 2
       /\ moved.failed = f.failed /\ moved.got = <<>>
       /\ stray.name = f.name
  BY <1>2 DEF FileRecords
<1>11. View' = View
  BY <1>6, StillView
<1> HIDE DEF done, wrong, moved, stray
<1>12. now = call[t]
  BY TaskIs DEF now
<1>13. now = NoCall /\ NoCall.on = 0 /\ NoCall.op = "none" /\ NoCall.at = "ok"
  BY <1>6, <1>12 DEF Holds, Calls, NoCall
<1>14. OnOf(now, h) = NoCall
  BY <1>13 DEF OnOf
<1>15. CASE call' = [call EXCEPT ![t] = done] /\ file' = [file EXCEPT ![h] = moved]
  <2>1. now' = done
    BY <1>1, <1>15, NowBecomes
  <2>2. file'[h] = moved /\ \A g \in Handles : g # h => file'[g] = file[g]
    BY <1>1, <1>15
  <2>3. OnOf(now', h) = done /\ now'.on = h
    BY <1>9, <2>1 DEF OnOf
  <2>4. CASE ~Kept(image, lost, f, NoCall)
    <3>1. ~Kept(image, lost, moved, done)
      BY <1>9, <1>10, <1>13, <2>4 DEF Kept
    <3> QED
      BY <1>2, <1>6, <1>10, <1>11, <1>13, <1>14, <2>2, <2>3, <3>1, FailedStep
  <2>5. CASE Kept(image, lost, f, NoCall)
    <3> DEFINE was == PosIn(image, f, "ok")
    <3>1. /\ contents' = contents /\ sound' = sound
          /\ handles[h] = Promised(image, lost, f, NoCall)
          /\ Becomes(h, Promised(image, lost, moved, done))
      BY <1>6, <1>11, <1>13, <1>14, <2>2, <2>3, OneHandle
    <3>2. handles[h] = Promise5(f.name, was, f.got, 0, "idle")
      BY <1>2, <1>13, <2>5, <3>1, PromisedIs
    <3>3. Kept(image, lost, moved, done)
      BY <1>9, <1>10, <1>13, <2>5 DEF Kept
    <3>4. Promised(image, lost, moved, done)
            = Promise5(moved.name, PosIn(image, moved, "ok"), moved.got, 0, "idle")
      BY <1>2, <1>9, <1>10, <3>3, PromisedIs
    <3>5. PosIn(image, moved, "ok") = pos
      <4>1. chain[1] = start /\ 1 \in 1 .. Len(chain) /\ StartOf[moved.name] = start
        BY <1>3, <1>10, ChainFacts
      <4>2. PosIn(image, moved, "ok") = (1 - 1) * Cells + moved.offset - 2
        <5>1. /\ StartOf[moved.name] \in Positions
              /\ 1 \in 1 .. Len(ChainIn(image, StartOf[moved.name]))
              /\ moved.current = ChainIn(image, StartOf[moved.name])[1]
          BY <1>3, <1>10, <4>1
        <5> HIDE DEF chain, start
        <5> QED
          BY <5>1, PosIs
      <4>3. (1 - 1) * Cells = 0
        BY CellsIs
      <4>4. PosIn(image, moved, "ok") = 0 + (pos + 2) - 2
        BY <1>10, <4>2, <4>3
      <4> QED
        BY <1>8, <4>4
    <3>6. Becomes(h, Promise5(f.name, pos, <<>>, 0, "idle"))
      BY <1>10, <3>1, <3>4, <3>5
    <3>7. Store!Next
      BY <1>8, <3>1, <3>2, <3>6, StoreSeeks
    <3> QED
      BY <3>7
  <2> QED
    BY <2>4, <2>5
<1>16. CASE call' = [call EXCEPT ![t] = wrong] /\ file' = [file EXCEPT ![h] = stray]
  <2>1. now' = wrong
    BY <1>1, <1>16, NowBecomes
  <2>2. file'[h] = stray /\ \A g \in Handles : g # h => file'[g] = file[g]
    BY <1>1, <1>16
  <2>3. OnOf(now', h) = wrong /\ now'.on = h
    BY <1>9, <2>1 DEF OnOf
  <2>4. ~Kept(image, lost, stray, wrong)
    BY <1>9 DEF Kept
  <2> QED
    BY <1>2, <1>6, <1>10, <1>11, <1>13, <1>14, <2>2, <2>3, <2>4, FailedStep
<1> QED
  BY <1>7, <1>15, <1>16

(* A read that returns less than was asked for is at the end of its file. *)
LEMMA AtTheEnd ==
  ASSUME Careful, NEW image, Holds(image), now.op \in {"read", "write"}, now.at = "ok", now.left # 0,
         Kept(image, lost, file[now.on], now)
  PROVE  now.op = "read" /\ PosIn(image, file[now.on], "ok") = Len(Contents(file[now.on].name))
<1> DEFINE h == now.on
           f == file[h]
           chain == ChainIn(image, StartOf[f.name])
           p == PosIn(image, f, "ok")
           last == View[chain[Len(chain)]].link[2]
<1>1. /\ h \in Handles /\ f \in FileRecords /\ f.name \in Files /\ f.name # 0
      /\ Transfers(image, View, lost, current_sector, now, f)
  BY CallIs, CellsIs
<1>2. f.name \notin lost /\ SoundIn(image, f.name)
  BY DEF Kept
<1>3. now.op = "read" /\ f.current \in Positions
      /\ View[f.current].link[1] = 0 /\ f.offset = View[f.current].link[2] + 1
  BY <1>1, <1>2 DEF Transfers
<1>4. OnOf(now, h) = now
  BY DEF OnOf
<1>5. StartOf[f.name] \in Positions
      /\ \E k \in 1 .. Len(chain) : f.current = chain[k] /\ p = (k - 1) * Cells + f.offset - 2
  BY <1>1, <1>4, PlaceIs
<1>6. PICK k \in 1 .. Len(chain) : f.current = chain[k] /\ p = (k - 1) * Cells + f.offset - 2
  BY <1>5
<1>7. k = Len(chain)
  BY <1>1, <1>2, <1>3, <1>5, <1>6, LinksOfSound
<1>8. last \in 1 .. End - 1 /\ Len(Contents(f.name)) = (Len(chain) - 1) * Cells + last - 1
  BY <1>1, <1>2, <1>5, ContentsOfSound
<1>9. f.offset = last + 1
  BY <1>3, <1>6, <1>7
<1> DEFINE m == (k - 1) * Cells
<1>10. m \in Int /\ last \in Int
  <2>1. Len(chain) \in Nat
    BY <1>5, ChainFacts
  <2> HIDE DEF last, chain
  <2>2. last \in Int
    BY <1>8, CellsIs
  <2>3. k - 1 \in Int
    BY <1>7, <2>1
  <2> QED
    BY <2>2, <2>3, CellsIs
<1>11. p = m + f.offset - 2 /\ Len(Contents(f.name)) = m + last - 1
  BY <1>6, <1>7, <1>8
<1> HIDE DEF m, p, last, f
<1> QED
  BY <1>3, <1>9, <1>10, <1>11 DEF p, f

(* Return returns from a request of the store, or changes nothing there. *)
LEMMA ReturnImplemented ==
  ASSUME Careful, NEW image, Holds(image), Holds(image)', NEW t \in Tasks, Return(t)
  PROVE  Store!Next \/ UNCHANGED Store!vars
<1> DEFINE h == now.on
           f == file[h]
           g == [file[h] EXCEPT !.failed = now.at = "error"]
<1>1. call \in [Tasks -> CallRecords] /\ file \in [Handles -> FileRecords]
  BY DEF Holds, Shape
<1>2. /\ now = call[t] /\ now.op # "none" /\ now.at \in {"ok", "error"}
      /\ call' = [call EXCEPT ![t] = NoCall]
      /\ file' = IF now.op = "open" THEN file ELSE [file EXCEPT ![h].failed = now.at = "error"]
      /\ UNCHANGED <<disk, window>> /\ UNCHANGED lost
  <2>1. t = Task
    BY TaskIs
  <2> QED
    BY <2>1 DEF Return, history, now
<1>3. View' = View
  BY <1>2, StillView
<1>4. now' = NoCall /\ NoCall.on = 0 /\ NoCall.op = "none" /\ NoCall.at = "ok"
  BY <1>1, <1>2, NowBecomes DEF NoCall
<1>5. /\ h \in Handles /\ f \in FileRecords
      /\ now.op \in {"open", "read", "write", "seek"}
      /\ now.op = "open" => (now.at # "ok" => f.name = 0)
      /\ now.op # "open" => f.name # 0 /\ f.name \in Files /\ ~f.failed
  BY <1>2, CallIs, CellsIs
<1>6. OnOf(now, h) = now /\ OnOf(now', h) = NoCall
  BY <1>4, <1>5, CellsIs DEF OnOf
<1>7. g.failed = (now.at = "error") /\ g.name = f.name
      /\ g.current = f.current /\ g.offset = f.offset /\ g.got = f.got
  BY <1>5 DEF FileRecords
<1>8. now.op # "open" => file'[h] = g /\ \A k \in Handles : k # h => file'[k] = file[k]
  BY <1>1, <1>2, <1>5
<1> HIDE DEF g
<1>9. CASE now.op = "open" /\ f.name = 0
  BY <1>2, <1>3, <1>4, <1>5, <1>9, ClosedStep
<1>10. CASE now.op = "open" /\ f.name # 0
  <2>1. now.at = "ok" /\ file' = file
    BY <1>2, <1>5, <1>10
  <2>2. CASE ~Kept(image, lost, f, now)
    <3>1. ~Kept(image, lost, f, NoCall)
      BY <1>4, <2>1, <2>2 DEF Kept
    <3> QED
      BY <1>2, <1>3, <1>4, <1>5, <1>6, <1>10, <2>1, <3>1, FailedStep
  <2>3. CASE Kept(image, lost, f, now)
    <3>1. /\ contents' = contents /\ sound' = sound
          /\ handles[h] = Promised(image, lost, f, now)
          /\ Becomes(h, Promised(image, lost, f, NoCall))
      BY <1>2, <1>3, <1>4, <1>5, <1>6, <2>1, OneHandle
    <3>2. Kept(image, lost, f, NoCall)
      BY <1>4, <2>1, <2>3 DEF Kept
    <3>3. Promised(image, lost, f, now) = Promised(image, lost, f, NoCall)
      BY <1>4, <1>10, <2>1, <2>3, <3>2, PromisedIs
    <3>4. Becomes(h, handles[h])
      BY <3>1, <3>3
    <3> QED
      BY <1>5, <3>1, <3>4, StoreStutters
  <2> QED
    BY <2>2, <2>3
<1>11. CASE now.op # "open" /\ ~Kept(image, lost, f, now)
  <2>1. ~Kept(image, lost, g, NoCall)
    BY <1>5, <1>7, <1>11 DEF Kept
  <2> QED
    BY <1>2, <1>3, <1>4, <1>5, <1>6, <1>7, <1>8, <1>11, <2>1, FailedStep
<1>12. CASE now.op # "open" /\ Kept(image, lost, f, now)
  <2> DEFINE p == PosIn(image, f, "ok")
  <2>1. now.at = "ok"
    BY <1>2, <1>12 DEF Kept
  <2>2. /\ contents' = contents /\ sound' = sound
        /\ handles[h] = Promised(image, lost, f, now)
        /\ Becomes(h, Promised(image, lost, g, NoCall))
    BY <1>2, <1>3, <1>4, <1>5, <1>6, <1>8, <1>12, OneHandle
  <2>3. Kept(image, lost, g, NoCall)
    BY <1>4, <1>7, <1>12, <2>1 DEF Kept
  <2>4. Promised(image, lost, g, NoCall) = Promise5(g.name, PosIn(image, g, "ok"), g.got, 0, "idle")
    BY <1>4, <1>5, <1>7, <1>12, <2>3, PromisedIs
  <2>5. PosIn(image, g, "ok") = p
    BY <1>7, PosAlike
  <2>6. Becomes(h, Promise5(f.name, p, f.got, 0, "idle"))
    BY <1>7, <2>2, <2>4, <2>5
  <2>7. CASE now.op = "seek"
    <3>1. handles[h] = Promise5(f.name, p, f.got, 0, "idle")
      BY <1>5, <1>12, <2>1, <2>2, <2>7, PromisedIs
    <3>2. Becomes(h, handles[h])
      BY <2>6, <3>1
    <3> QED
      BY <1>5, <2>2, <3>2, StoreStutters
  <2>8. CASE now.op \in {"read", "write"}
    <3>1. handles[h] = Promise5(f.name, p, f.got, now.left, now.op)
      BY <1>5, <1>12, <2>1, <2>2, <2>8, PromisedIs
    <3>2. now.left = 0 \/ (now.op = "read" /\ p = Len(Contents(f.name)))
      BY <1>12, <2>1, <2>8, AtTheEnd
    <3>3. Store!Next
      BY <1>5, <1>12, <2>2, <2>6, <2>8, <3>1, <3>2, StoreReturns
    <3> QED
      BY <3>3
  <2> QED
    BY <1>5, <1>12, <2>7, <2>8
<1> QED
  BY <1>9, <1>10, <1>11, <1>12

(* Move changes nothing that the files promise. *)
LEMMA MoveImplemented ==
  ASSUME Careful, NEW image, Holds(image), Holds(image)', NEW t \in Tasks, Move(t)
  PROVE  UNCHANGED Store!vars
<1> DEFINE h == now.on
           r == [now EXCEPT !.at = "copy"]
           f == file[h]
           g == file'[h]
<1>1. /\ Shape /\ Window /\ call \in [Tasks -> CallRecords] /\ file \in [Handles -> FileRecords]
  BY DEF Holds, Shape
<1>2. t = Task /\ now = call[t]
  BY TaskIs DEF now
<1>3. /\ now.at \in {"move", "advance"} /\ Target(t) \in Positions /\ move_window(Target(t))
      /\ call' = [call EXCEPT ![t].at = "copy"]
      /\ file' = IF now.at = "advance" THEN [file EXCEPT ![h].offset = 2] ELSE file
      /\ UNCHANGED lost
  BY <1>2 DEF Move, history
<1>4. now.op # "none"
  <2>1. now.op = "none" => now = NoCall
    BY DEF Holds, Calls
  <2> QED
    BY <1>3, <2>1 DEF NoCall
<1>5. /\ h \in Handles /\ now \in CallRecords /\ f \in FileRecords
      /\ now.op \in {"open", "read", "write"}
      /\ now.op = "open" => now.at # "advance" /\ f.name = 0
      /\ now.op # "open" => f.name \in Files /\ f.name # 0
  BY <1>3, <1>4, CallIs, CellsIs DEF Searches
<1>6. View' = View
  BY <1>1, <1>3, MoveKeeps
<1>7. now' = r
  <2>1. call' = [call EXCEPT ![t] = r]
    BY <1>1, <1>2, <1>3
  <2> QED
    BY <1>1, <2>1, NowBecomes
<1>8. r.op = now.op /\ r.on = h /\ r.left = now.left /\ r.at = "copy"
  BY <1>5 DEF CallRecords
<1>9. /\ g.name = f.name /\ g.current = f.current /\ g.failed = f.failed /\ g.got = f.got
      /\ IF now.at = "advance" THEN g.offset = 2 ELSE g.offset = f.offset
      /\ \A k \in Handles : k # h => file'[k] = file[k]
  BY <1>1, <1>3, <1>5 DEF FileRecords
<1> HIDE DEF r
<1>10. OnOf(now, h) = now /\ OnOf(now', h) = r
  BY <1>7, <1>8 DEF OnOf
<1>11. CASE now.op = "open"
  BY <1>3, <1>5, <1>6, <1>7, <1>8, <1>11, ClosedStep
<1>12. CASE now.op \in {"read", "write"}
  <2> DEFINE was == Promised(image, lost, f, now)
             then == Promised(image, lost, g, r)
  <2>1. contents' = contents /\ sound' = sound /\ handles[h] = was /\ Becomes(h, then)
    BY <1>3, <1>5, <1>6, <1>7, <1>8, <1>9, <1>10, OneHandle
  <2>2. was = then
    <3>1. Kept(image, lost, f, now) <=> Kept(image, lost, g, r)
      BY <1>3, <1>8, <1>9 DEF Kept
    <3>2. PosIn(image, g, "copy") = PosIn(image, f, now.at)
      <4> DEFINE at == now.at
      <4>1. /\ g.name = f.name /\ g.current = f.current
            /\ IF at = "advance" THEN g.offset = 2 ELSE g.offset = f.offset
        BY <1>9
      <4> HIDE DEF f, g, at
      <4>2. ASSUME at = "advance" PROVE PosIn(image, g, "copy") = PosIn(image, f, at)
        BY <4>1, <4>2, PosAlike
      <4>3. ASSUME at # "advance" PROVE PosIn(image, g, "copy") = PosIn(image, f, at)
        BY <4>1, <4>3, PosAlike
      <4>4. PosIn(image, g, "copy") = PosIn(image, f, at)
        BY <4>2, <4>3
      <4> QED
        BY <4>4 DEF at
    <3>3. f.name # 0 /\ g.name # 0
      BY <1>5, <1>9, <1>12
    <3> HIDE DEF f, g
    <3>4. CASE Kept(image, lost, f, now)
      <4>1. was = Promise5(f.name, PosIn(image, f, now.at), f.got, now.left, now.op)
        BY <1>12, <3>3, <3>4, PromisedIs
      <4>2. then = Promise5(g.name, PosIn(image, g, "copy"), g.got, now.left, now.op)
        BY <1>8, <1>12, <3>1, <3>3, <3>4, PromisedIs
      <4> QED
        BY <1>9, <3>2, <4>1, <4>2
    <3>5. CASE ~Kept(image, lost, f, now)
      BY <3>1, <3>3, <3>5, PromisedIs
    <3> QED
      BY <3>4, <3>5
  <2>3. Becomes(h, handles[h])
    BY <2>1, <2>2
  <2> QED
    BY <1>5, <2>1, <2>3, StoreStutters
<1> QED
  BY <1>5, <1>11, <1>12

(* MoveError fails a handle of the store, or changes nothing there. *)
LEMMA MoveErrorImplemented ==
  ASSUME Careful, NEW image, Holds(image), Holds(image)', NEW t \in Tasks, MoveError(t)
  PROVE  Store!Next \/ UNCHANGED Store!vars
<1> DEFINE h == now.on
           io == Target(t) \in Positions
           r == [now EXCEPT !.at = "error", !.io = io]
<1>1. /\ Shape /\ Window /\ call \in [Tasks -> CallRecords] /\ file \in [Handles -> FileRecords]
  BY DEF Holds, Shape
<1>2. t = Task /\ now = call[t]
  BY TaskIs DEF now
<1>3. /\ now.at \in {"move", "advance"}
      /\ \/ Target(t) \notin Positions /\ UNCHANGED <<disk, window>>
         \/ Target(t) \in Positions /\ MoveFails(Target(t))
      /\ call' = [call EXCEPT ![t].at = "error", ![t].io = io]
      /\ file' = file /\ UNCHANGED lost
  BY <1>2 DEF MoveError, history
<1>4. now.op # "none"
  <2>1. now.op = "none" => now = NoCall
    BY DEF Holds, Calls
  <2> QED
    BY <1>3, <2>1 DEF NoCall
<1>5. /\ h \in Handles /\ now \in CallRecords
      /\ now.op \in {"open", "read", "write"}
      /\ now.op = "open" => file[h].name = 0
      /\ now.op # "open" => file[h].name # 0
  BY <1>3, <1>4, CallIs, CellsIs
<1>6. View' = View
  BY <1>1, <1>3, FailKeeps, StillView
<1>7. now' = r
  <2> HIDE DEF io
  <2>1. call' = [call EXCEPT ![t] = r]
    BY <1>1, <1>2, <1>3
  <2> HIDE DEF r
  <2> QED
    BY <1>1, <2>1, NowBecomes
<1>8. r.on = h /\ r.at = "error"
  <2> HIDE DEF io
  <2> QED
    BY <1>5 DEF CallRecords
<1> HIDE DEF r
<1>9. OnOf(now, h) = now /\ OnOf(now', h) = r
  BY <1>7, <1>8 DEF OnOf
<1>10. CASE now.op = "open"
  BY <1>3, <1>5, <1>6, <1>7, <1>8, <1>10, ClosedStep
<1>11. CASE now.op # "open"
  <2>1. ~Kept(image, lost, file'[h], r)
    BY <1>8 DEF Kept
  <2> QED
    BY <1>3, <1>5, <1>6, <1>7, <1>8, <1>9, <1>11, <2>1, FailedStep
<1> QED
  BY <1>10, <1>11

(* OpenCopy opens a handle of the store, or changes nothing there. *)
LEMMA OpenImplemented ==
  ASSUME Careful, NEW image, Holds(image), Holds(image)', NEW t \in Tasks, now.op = "open",
         now.at = "copy", OpenCopy(t, now.on)
  PROVE  Store!Next \/ UNCHANGED Store!vars
<1> DEFINE h == now.on
           idx == now.idx
           name == sect_buffer.data[(idx % Cells) + 1]
           next == IF idx = 2 * Cells THEN Cells + 1 ELSE idx + 1
           found == [now EXCEPT !.at = "ok"]
           none == [now EXCEPT !.at = "error"]
           on == [now EXCEPT !.idx = next, !.at = IF SectorDone(next) THEN "next" ELSE "copy"]
           f == OpenedAt(now.name)
           start == StartOf[now.name]
<1>1. call \in [Tasks -> CallRecords] /\ file \in [Handles -> FileRecords]
  BY DEF Holds, Shape
<1>2. t = Task /\ now = call[t]
  BY TaskIs DEF now
<1>3. /\ UNCHANGED <<disk, window>> /\ UNCHANGED lost
      /\ \/ /\ name = now.name /\ StartOf[name] \in Positions
            /\ file' = [file EXCEPT ![h] = OpenedAt(name)]
            /\ call' = [call EXCEPT ![t].at = "ok"]
         \/ call' = [call EXCEPT ![t].at = "error"] /\ UNCHANGED file
         \/ /\ call' = [call EXCEPT ![t].idx = next,
                                    ![t].at = IF SectorDone(next) THEN "next" ELSE "copy"]
            /\ UNCHANGED file
  BY <1>2 DEF OpenCopy, history, OpenedAt
<1>4. /\ h \in Handles /\ now \in CallRecords /\ file[h].name = 0 /\ now.name \in Files
      /\ now.name # 0
  BY CallIs, CellsIs DEF Searches
<1>5. View' = View
  BY <1>3, StillView
<1>6. found.on = h /\ none.on = h /\ on.on = h /\ found.op = "open" /\ found.at = "ok"
  <2> HIDE DEF next
  <2> QED
    BY <1>4 DEF CallRecords
<1>7. \/ /\ start \in Positions /\ file' = [file EXCEPT ![h] = f] /\ call' = [call EXCEPT ![t] = found]
      \/ file' = file /\ call' = [call EXCEPT ![t] = none]
      \/ file' = file /\ call' = [call EXCEPT ![t] = on]
  <2> HIDE DEF next
  <2> QED
    BY <1>1, <1>2, <1>3
<1> HIDE DEF found, none, on, f, start
<1>8. CASE /\ start \in Positions /\ file' = [file EXCEPT ![h] = f] /\ call' = [call EXCEPT ![t] = found]
  <2>1. now' = found
    BY <1>1, <1>8, NowBecomes
  <2>2. file'[h] = f /\ \A k \in Handles : k # h => file'[k] = file[k]
    BY <1>1, <1>4, <1>8
  <2>3. OnOf(now, h) = now /\ OnOf(now', h) = found
    BY <1>6, <2>1 DEF OnOf
  <2>4. /\ f.name = now.name /\ f.current = start /\ f.offset = 2 /\ ~f.failed /\ f.got = <<>>
    BY DEF f, start, OpenedAt, NoFile
  <2>5. /\ contents' = contents /\ sound' = sound
        /\ handles[h] = Promised(image, lost, file[h], now)
        /\ Becomes(h, Promised(image, lost, f, found))
    BY <1>3, <1>4, <1>5, <1>6, <2>1, <2>2, <2>3, OneHandle
  <2>6. handles[h] = NoPromise("closed")
    BY <1>4, <2>5, PromisedIs
  <2>7. Sound(now.name) <=> SoundIn(image, now.name) /\ now.name \notin lost
    BY <1>4, ContentsIs
  <2>8. Kept(image, lost, f, found) <=> Sound(now.name)
    BY <1>6, <2>4, <2>7 DEF Kept
  <2>9. PosIn(image, f, "ok") = 0
    <3>1. /\ StartOf[f.name] \in Positions
          /\ 1 \in 1 .. Len(ChainIn(image, StartOf[f.name]))
          /\ f.current = ChainIn(image, StartOf[f.name])[1]
      BY <1>8, <2>4, ChainFacts DEF start
    <3>2. PosIn(image, f, "ok") = (1 - 1) * Cells + f.offset - 2
      BY <3>1, PosIs
    <3>3. (1 - 1) * Cells = 0
      BY CellsIs
    <3> QED
      BY <2>4, <3>2, <3>3
  <2>10. Promised(image, lost, f, found) =
           IF Sound(now.name) THEN Promise5(now.name, 0, <<>>, 0, "idle") ELSE NoPromise("failed")
    BY <1>4, <1>6, <2>4, <2>8, <2>9, PromisedIs
  <2>11. Store!Next
    BY <1>4, <2>5, <2>6, <2>10, StoreOpens
  <2> QED
    BY <2>11
<1>9. CASE file' = file /\ call' = [call EXCEPT ![t] = none]
  <2>1. now' = none
    BY <1>1, <1>9, NowBecomes
  <2> QED
    BY <1>3, <1>4, <1>5, <1>6, <1>9, <2>1, ClosedStep
<1>10. CASE file' = file /\ call' = [call EXCEPT ![t] = on]
  <2>1. now' = on
    BY <1>1, <1>10, NowBecomes
  <2> QED
    BY <1>3, <1>4, <1>5, <1>6, <1>10, <2>1, ClosedStep
<1> QED
  BY <1>7, <1>8, <1>9, <1>10

(* Products keep the order. *)
LEMMA Multiply ==
  ASSUME NEW m \in Nat, NEW a \in Nat, NEW b \in Nat, a < b
  PROVE  a * m \in Nat /\ b * m \in Nat /\ a * m + m <= b * m
<1> DEFINE d == b - a - 1
<1>1. d \in Nat /\ b = (a + 1) + d
  OBVIOUS
<1> HIDE DEF d
<1>2. b * m = (a * m + m) + d * m
  BY <1>1
<1>3. a * m \in Nat /\ d * m \in Nat /\ b * m \in Nat
  BY <1>1
<1> QED
  BY <1>2, <1>3

(* A place in a sound file is not past its end. *)
LEMMA PlaceInSound ==
  ASSUME Careful, NEW image, Holds(image), NEW f \in Files, StartOf[f] \in Positions,
         SoundIn(image, f), f \notin lost,
         NEW k \in 1 .. Len(ChainIn(image, StartOf[f])), NEW s, s = View[ChainIn(image, StartOf[f])[k]],
         NEW o \in 2 .. End, s.link[1] = 0 => o <= s.link[2] + 1
  PROVE  /\ (k - 1) * Cells \in Nat
         /\ (k - 1) * Cells + o - 2 \in Nat
         /\ (k - 1) * Cells + o - 2 <= Len(Contents(f))
<1> DEFINE chain == ChainIn(image, StartOf[f])
           last == View[chain[Len(chain)]].link[2]
           n == Len(chain) - 1
           a == (k - 1) * Cells
           b == n * Cells
           size == Len(Contents(f))
<1>1. last \in 1 .. End - 1 /\ size = n * Cells + last - 1
  BY ContentsOfSound
<1>2. Len(chain) \in Nat \ {0} /\ k \in 1 .. Len(chain)
  BY ChainFacts
<1>3. k = Len(chain) => s.link[1] = 0 /\ s.link[2] = last
  BY <1>2, LinksOfSound
<1>4. o \in Nat /\ 2 <= o /\ o <= Cells + 2 /\ last \in Nat /\ 1 <= last /\ Cells \in Nat
  <2> HIDE DEF last
  <2> QED
    BY <1>1, CellsIs
<1> HIDE DEF chain, last
<1>5. k - 1 \in Nat /\ n \in Nat /\ (k # Len(chain) => k - 1 < n) /\ (k = Len(chain) => k - 1 = n)
  BY <1>2
<1> HIDE DEF n
<1>6. a \in Nat /\ b \in Nat
  BY <1>4, <1>5
<1>7. k # Len(chain) => a + Cells <= b
  BY <1>4, <1>5, Multiply
<1>8. k = Len(chain) => a = b /\ o <= last + 1
  BY <1>3, <1>5
<1>9. size = b + last - 1
  BY <1>1
<1>10. a = (k - 1) * Cells
  OBVIOUS
<1> HIDE DEF a, b, size
<1>11. a + o - 2 \in Nat /\ a + o - 2 <= size
  BY <1>4, <1>6, <1>7, <1>8, <1>9
<1> QED
  BY <1>6, <1>10, <1>11 DEF size

(* The bytes of a sound file are those of its sectors, in their order. *)
LEMMA BytesOfSound ==
  ASSUME Careful, NEW image, Holds(image), NEW f \in Files, StartOf[f] \in Positions,
         SoundIn(image, f), f \notin lost,
         NEW k \in 1 .. Len(ChainIn(image, StartOf[f])), NEW j \in 0 .. Cells - 1,
         NEW i, i = (k - 1) * Cells + j + 1, i <= Len(Contents(f))
  PROVE  Contents(f)[i] = View[ChainIn(image, StartOf[f])[k]].data[j + 1]
<1> DEFINE chain == ChainIn(image, StartOf[f])
           size == Len(Contents(f))
           view == View
           c == Contents(f)
           q == k - 1
<1>1. /\ size \in Nat
      /\ c = [x \in 1 .. size |-> view[chain[(x - 1) \div Cells + 1]].data[((x - 1) % Cells) + 1]]
  BY ContentsOfSound
<1>2. Len(chain) \in Nat \ {0} /\ k \in 1 .. Len(chain)
  BY ChainFacts
<1> HIDE DEF chain, size, view, c
<1>3. q \in Nat /\ j \in Int /\ q + 1 = k
  BY <1>2, CellsIs
<1> HIDE DEF q
<1>4. Cells \in Nat \ {0}
  BY CellsIs
<1>5. q * Cells + j \in Nat /\ (q * Cells + j) \div Cells = q /\ (q * Cells + j) % Cells = j
  BY <1>3, <1>4, DivModOf
<1>6. i = (q * Cells + j) + 1
  BY <1>3, <1>4 DEF q
<1> DEFINE x == q * Cells + j
<1>7. x \in Nat /\ i = x + 1 /\ x \div Cells = q /\ x % Cells = j
  BY <1>5, <1>6
<1> HIDE DEF x
<1>8. i \in 1 .. size /\ i - 1 = x
  BY <1>1, <1>7 DEF size
<1>9. c[i] = view[chain[(i - 1) \div Cells + 1]].data[((i - 1) % Cells) + 1]
  BY <1>1, <1>8
<1>10. c[i] = view[chain[k]].data[j + 1]
  BY <1>3, <1>7, <1>8, <1>9
<1> QED
  BY <1>10 DEF c, view, chain

(****************************************************************************)
(* Reads take bytes of the contents                                         *)
(****************************************************************************)

(* A part of a sequence, byte by byte *)
LEMMA SubSeqIs ==
  ASSUME NEW S, NEW s \in Seq(S), NEW m \in Nat, NEW n \in Nat, m + n <= Len(s)
  PROVE  SubSeq(s, m + 1, m + n) = [i \in 1 .. n |-> s[m + i]]
<1> DEFINE t == SubSeq(s, m + 1, m + n)
<1>1. t \in Seq(S) /\ Len(t) = n
  OBVIOUS
<1>2. \A i \in 1 .. n : t[i] = s[m + i]
  OBVIOUS
<1> DEFINE u == [i \in 1 .. n |-> s[m + i]]
<1>3. u \in Seq(S) /\ Len(u) = n /\ \A i \in 1 .. n : u[i] = s[m + i]
  OBVIOUS
<1> HIDE DEF t, u
<1>4. t = u
  BY <1>1, <1>2, <1>3
<1> QED
  BY <1>4 DEF t, u

(* What a read takes from the sector in view are the next bytes of the file. *)
LEMMA ReadIsNext ==
  ASSUME Careful, NEW image, Holds(image), now.op = "read", now.at = "copy",
         Kept(image, lost, file[now.on], now),
         NEW pos, pos = PosIn(image, file[now.on], "copy"),
         NEW n, n = BytesRead
  PROVE  LET f == file[now.on]
         IN  /\ pos \in Nat /\ n \in Nat /\ pos + n <= Len(Contents(f.name))
             /\ SubSeq(Contents(f.name), pos + 1, pos + n)
                  = [i \in 1 .. n |-> Byte(sect_buffer, f.offset + i - 1)]
             /\ \E k \in 1 .. Len(ChainIn(image, StartOf[f.name])) :
                  /\ f.current = ChainIn(image, StartOf[f.name])[k]
                  /\ pos = (k - 1) * Cells + f.offset - 2
<1> DEFINE h == now.on
           f == file[h]
           chain == ChainIn(image, StartOf[f.name])
           c == Contents(f.name)
           o == f.offset
           buffer == sect_buffer
<1>1. /\ h \in Handles /\ f.name \in Files /\ f.name # 0 /\ StartOf[f.name] \in Positions
      /\ sect_buffer = View[current_sector] /\ sect_buffer \in Sectors
  BY CopyIs, CellsIs
<1>2. f.name \notin lost /\ SoundIn(image, f.name)
  BY DEF Kept
<1>3. current_sector = f.current /\ f.offset \in 2 .. End
      /\ (buffer.link[1] = 0 => f.offset <= buffer.link[2] + 1)
  BY <1>2, CopyIs
<1>4. n \in Nat /\ f.offset + n \in 2 .. End
      /\ (buffer.link[1] = 0 => f.offset + n <= buffer.link[2] + 1)
  BY <1>2, ReadIs DEF BytesRead
<1>5. OnOf(now, h) = now
  BY DEF OnOf
<1>6. PICK k \in 1 .. Len(chain) : f.current = chain[k] /\ pos = (k - 1) * Cells + f.offset - 2
  <2>1. \E k \in 1 .. Len(chain) :
          f.current = chain[k] /\ PosIn(image, f, now.at) = (k - 1) * Cells + f.offset - 2
    BY <1>1, <1>5, PlaceIs
  <2> QED
    BY <2>1
<1>7. buffer = View[chain[k]]
  BY <1>1, <1>3, <1>6
<1>8. /\ (k - 1) * Cells \in Nat /\ (k - 1) * Cells + o - 2 \in Nat
  BY <1>1, <1>2, <1>3, <1>6, <1>7, PlaceInSound
<1>9. (k - 1) * Cells + (o + n) - 2 <= Len(c)
  BY <1>1, <1>2, <1>4, <1>6, <1>7, PlaceInSound
<1>10. Len(c) \in Nat
  BY <1>1, <1>2, ContentsOfSound
<1> DEFINE a == (k - 1) * Cells
<1>11. /\ a \in Nat /\ pos = a + o - 2 /\ o \in Nat /\ 2 <= o /\ o + n <= Cells + 2 /\ Cells \in Nat
       /\ End = Cells + 2 /\ a + (o + n) - 2 <= Len(c)
  BY <1>3, <1>4, <1>6, <1>8, <1>9, CellsIs
<1> HIDE DEF c, o, chain, buffer
<1>12. pos \in Nat /\ pos + n <= Len(c)
  <2> HIDE DEF a
  <2> QED
    BY <1>4, <1>10, <1>11
<1>13. ASSUME NEW i \in 1 .. n PROVE c[pos + i] = Byte(buffer, o + i - 1)
  <2> DEFINE j == o + i - 3
             x == pos + i
             y == o + i - 1
  <2>1. /\ i \in Nat /\ 1 <= i /\ i <= n
    BY <1>4
  <2>2. j \in 0 .. Cells - 1 /\ x = a + j + 1 /\ x <= Len(c) /\ y < End /\ y - 1 = j + 1
    <3> HIDE DEF a
    <3>1. /\ a \in Nat /\ o \in Nat /\ i \in Nat /\ n \in Nat /\ Cells \in Nat /\ End = Cells + 2
          /\ pos = a + o - 2 /\ 2 <= o /\ o + n <= Cells + 2 /\ 1 <= i /\ i <= n
          /\ Len(c) \in Nat /\ pos + n <= Len(c) /\ pos \in Nat
      BY <1>4, <1>10, <1>11, <1>12, <2>1
    <3>2. j \in 0 .. Cells - 1
      BY <3>1
    <3>3. x = a + j + 1 /\ x <= Len(c)
      BY <3>1
    <3>4. y < End /\ y - 1 = j + 1
      BY <3>1
    <3> QED
      BY <3>2, <3>3, <3>4
  <2> HIDE DEF j, x, y
  <2>3. c[x] = buffer.data[j + 1]
    <3>1. /\ f.name \in Files /\ StartOf[f.name] \in Positions /\ f.name \notin lost
          /\ SoundIn(image, f.name) /\ k \in 1 .. Len(ChainIn(image, StartOf[f.name]))
      BY <1>1, <1>2 DEF chain
    <3>2. x = (k - 1) * Cells + j + 1 /\ x <= Len(Contents(f.name))
      BY <2>2 DEF c
    <3> HIDE DEF a, f
    <3>3. Contents(f.name)[x] = View[ChainIn(image, StartOf[f.name])[k]].data[j + 1]
      BY <2>2, <3>1, <3>2, BytesOfSound
    <3> QED
      BY <1>7, <3>3 DEF c, chain
  <2>4. Byte(buffer, y) = buffer.data[j + 1]
    BY <2>2 DEF Byte
  <2> QED
    BY <2>3, <2>4 DEF x, y
<1>14. SubSeq(c, pos + 1, pos + n) = [i \in 1 .. n |-> Byte(buffer, o + i - 1)]
  <2> DEFINE S == {c[i] : i \in 1 .. Len(c)}
  <2>1. c \in Seq(S)
    BY <1>1, <1>2, ContentsAreBytes DEF c
  <2> HIDE DEF S, a
  <2>2. SubSeq(c, pos + 1, pos + n) = [i \in 1 .. n |-> c[pos + i]]
    BY <1>4, <1>12, <2>1, SubSeqIs
  <2> QED
    BY <1>13, <2>2
<1> QED
  BY <1>4, <1>6, <1>12, <1>14 DEF c, o, buffer, chain

(* ReadCopy takes the next bytes of the contents of the file. *)
LEMMA ReadImplemented ==
  ASSUME Careful, NEW image, Holds(image), Holds(image)', NEW t \in Tasks, now.op = "read",
         now.at = "copy", ReadCopy(t, now.on)
  PROVE  Store!Next \/ UNCHANGED Store!vars
<1> DEFINE h == now.on
           f == file[h]
           n == BytesRead
           link == sect_buffer.link
           at == IF Onward /\ ~MayVisit(f, link) THEN "error"
                 ELSE IF AtEnd \/ now.left = n THEN "ok" ELSE "move"
           less == now.left - n
           r == [now EXCEPT !.left = less, !.at = at]
           g == IF ~Onward THEN Read ELSE ReadOn
           up == f.got \o [i \in 1 .. n |-> Byte(sect_buffer, f.offset + i - 1)]
<1>1. call \in [Tasks -> CallRecords] /\ file \in [Handles -> FileRecords]
  BY DEF Holds, Shape
<1>2. t = Task /\ Task \in Tasks /\ now = call[Task]
  BY TaskIs DEF now
<1>3. /\ file' = [file EXCEPT ![h] = g]
      /\ call' = [call EXCEPT ![Task].left = less, ![Task].at = at]
      /\ UNCHANGED <<disk, window>> /\ UNCHANGED lost
  BY <1>2, ReadCopyIs
<1>4. /\ h \in Handles /\ now \in CallRecords /\ f.name \in Files /\ f.name # 0 /\ ~f.failed
      /\ StartOf[f.name] \in Positions /\ sect_buffer = View[current_sector]
      /\ now.left \in Nat /\ now.left <= Max(Lengths) /\ Max(Lengths) \in Nat
  BY CopyIs, CellsIs, LongestIs
<1>5. n \in Nat /\ n <= now.left
  BY ReadIs DEF BytesRead
<1>6. View' = View
  BY <1>3, StillView
<1>7. /\ g.name = f.name /\ g.failed = f.failed /\ g.got = up
      /\ ~Onward => g.current = f.current /\ g.offset = f.offset + n
      /\ Onward => g.current = link /\ g.offset = 2
  BY ReadFields
<1>8. at \in {"error", "ok", "move"}
  OBVIOUS
<1> HIDE DEF n, at, g, up
<1>9. r.op = "read" /\ r.on = h /\ r.left = less /\ r.at = at
  <2> HIDE DEF less
  <2> QED
    BY <1>4 DEF CallRecords
<1>10. now' = r
  <2>1. call' = [call EXCEPT ![Task] = r]
    <3> HIDE DEF less
    <3> QED
      BY <1>1, <1>2, <1>3
  <2> HIDE DEF r
  <2> QED
    BY <1>1, <1>2, <2>1, NowBecomes
<1> HIDE DEF r
<1>11. file'[h] = g /\ \A k \in Handles : k # h => file'[k] = file[k]
  BY <1>1, <1>3, <1>4
<1>12. OnOf(now, h) = now /\ OnOf(now', h) = r
  BY <1>9, <1>10 DEF OnOf
<1>13. CASE ~Kept(image, lost, g, r)
  BY <1>3, <1>4, <1>6, <1>7, <1>9, <1>10, <1>11, <1>12, <1>13, FailedStep
<1>14. CASE Kept(image, lost, g, r)
  <2> DEFINE pos == PosIn(image, f, "copy")
             then == PosIn(image, g, at)
  <2>1. Kept(image, lost, f, now) /\ at # "error" /\ f.name \notin lost /\ SoundIn(image, f.name)
    BY <1>7, <1>9, <1>14 DEF Kept
  <2>2. /\ contents' = contents /\ sound' = sound
        /\ handles[h] = Promised(image, lost, f, now)
        /\ Becomes(h, Promised(image, lost, g, r))
    BY <1>3, <1>4, <1>6, <1>9, <1>10, <1>11, <1>12, OneHandle
  <2>3. handles[h] = Promise5(f.name, pos, f.got, now.left, "read")
    BY <1>4, <2>1, <2>2, PromisedIs
  <2>4. Promised(image, lost, g, r) = Promise5(g.name, then, g.got, less, "read")
    BY <1>4, <1>7, <1>9, <1>14, PromisedIs
  <2>5. Becomes(h, Promise5(f.name, then, up, less, "read"))
    BY <1>7, <2>2, <2>4
  <2>6. /\ pos \in Nat /\ pos + n <= Len(Contents(f.name))
        /\ SubSeq(Contents(f.name), pos + 1, pos + n)
             = [i \in 1 .. n |-> Byte(sect_buffer, f.offset + i - 1)]
        /\ \E k \in 1 .. Len(ChainIn(image, StartOf[f.name])) :
             /\ f.current = ChainIn(image, StartOf[f.name])[k]
             /\ pos = (k - 1) * Cells + f.offset - 2
    BY <2>1, ReadIsNext DEF n
  <2>7. then = pos + n
    <3> DEFINE chain == ChainIn(image, StartOf[f.name])
               o == f.offset
    <3>1. PICK k \in 1 .. Len(chain) : f.current = chain[k] /\ pos = (k - 1) * Cells + f.offset - 2
      BY <2>6
    <3>2. current_sector = f.current /\ o \in 2 .. End
      BY <2>1, CopyIs
    <3>3. StartOf[g.name] = StartOf[f.name]
      BY <1>7
    <3>4. Len(chain) \in Nat
      BY <1>4, ChainFacts
    <3>5. o \in Nat /\ k - 1 \in Nat /\ (k - 1) * Cells \in Nat /\ k * Cells = (k - 1) * Cells + Cells
          /\ End = Cells + 2 /\ Cells \in Nat
      <4> HIDE DEF chain, o
      <4>1. Cells \in Nat /\ End = Cells + 2 /\ o \in Nat /\ k \in Nat /\ k - 1 \in Nat
        BY <3>2, <3>4, CellsIs
      <4>2. (k - 1) * Cells \in Nat /\ k * Cells = (k - 1) * Cells + Cells
        BY <4>1
      <4> QED
        BY <4>1, <4>2
    <3>6. CASE ~Onward
      <4>1. StartOf[g.name] \in Positions /\ k \in 1 .. Len(ChainIn(image, StartOf[g.name]))
            /\ g.current = ChainIn(image, StartOf[g.name])[k]
        BY <1>4, <1>7, <3>1, <3>3, <3>6
      <4>2. then = (k - 1) * Cells + g.offset - 2
        BY <1>8, <4>1, PosIs
      <4>3. g.offset = o + n
        BY <1>7, <3>6
      <4> DEFINE a == (k - 1) * Cells
      <4>4. a \in Nat /\ then = a + (o + n) - 2 /\ pos = a + o - 2
        BY <3>1, <3>5, <4>2, <4>3
      <4> HIDE DEF a, then, pos, o
      <4> QED
        BY <1>5, <3>5, <4>4
    <3>7. CASE Onward
      <4>1. link[1] # 0 /\ o + n = End
        <5>1. MayVisit(f, link)
          BY <2>1, <3>7 DEF at
        <5> QED
          BY <2>1, <3>7, OnwardIs DEF Onward, n
      <4>2. k # Len(chain)
        <5>1. View[chain[k]].link = link
          BY <1>4, <3>1, <3>2
        <5>2. k = Len(chain) => View[chain[k]].link[1] = 0
          BY <1>4, <2>1, <3>1, LinksOfSound
        <5> QED
          BY <4>1, <5>1, <5>2
      <4>3. k + 1 \in 1 .. Len(chain) /\ link = chain[k + 1]
        BY <1>4, <2>1, <3>1, <3>2, <4>2, LinksOfSound
      <4>4. StartOf[g.name] \in Positions /\ k + 1 \in 1 .. Len(ChainIn(image, StartOf[g.name]))
            /\ g.current = ChainIn(image, StartOf[g.name])[k + 1]
        BY <1>4, <1>7, <3>3, <3>7, <4>3
      <4>5. then = ((k + 1) - 1) * Cells + g.offset - 2
        BY <1>8, <4>4, PosIs
      <4>6. g.offset = 2 /\ (k + 1) - 1 = k
        BY <1>7, <3>4, <3>7
      <4> DEFINE a == (k - 1) * Cells
                 b == k * Cells
      <4>7. a \in Nat /\ b = a + Cells /\ then = b + 2 - 2 /\ pos = a + o - 2
        BY <3>1, <3>5, <4>5, <4>6
      <4> HIDE DEF a, b, then, pos, o
      <4> QED
        BY <1>5, <3>5, <4>1, <4>7
    <3> QED
      BY <3>6, <3>7
  <2>8. n \in 0 .. Max(Lengths)
    BY <1>4, <1>5
  <2> HIDE DEF pos, then
  <2>9. up = f.got \o SubSeq(Contents(f.name), pos + 1, pos + n)
    BY <2>6 DEF up
  <2>10. Store!Next
    BY <1>4, <1>5, <2>2, <2>3, <2>5, <2>6, <2>7, <2>8, <2>9, StoreGets
  <2> QED
    BY <2>10
<1> QED
  BY <1>13, <1>14

(****************************************************************************)
(* Writes change bytes of the contents                                      *)
(****************************************************************************)

(* The sector and the byte of the sector that hold the i-th byte of a file *)
SectorAt(i) == (i - 1) \div Cells + 1
(* The place in that sector, from 0 *)
ByteAt(i) == (i - 1) % Cells

(* Where a file ends in its last sector, and how long it is *)
EndsAt(image, start, view, last, size) ==
  LET chain == ChainIn(image, start)
  IN  /\ last = view[chain[Len(chain)]].link[2] /\ last \in 1 .. End - 1
      /\ size = (Len(chain) - 1) * Cells + last - 1

(* Each byte of a file of this size has its place in a sector of the chain. *)
Holding(image, start, view, size) ==
  LET chain == ChainIn(image, start)
  IN  /\ size \in Nat
      /\ Content(view, chain) = [i \in 1 .. size |-> view[chain[SectorAt(i)]].data[ByteAt(i) + 1]]
      /\ Len(Content(view, chain)) = size
      /\ \A i \in 1 .. size :
           /\ SectorAt(i) \in 1 .. Len(chain) /\ ByteAt(i) \in 0 .. Cells - 1
           /\ i = (SectorAt(i) - 1) * Cells + ByteAt(i) + 1

(* The end of the last sector is inside of it. *)
LEMMA EndOfLast ==
  ASSUME NEW b \in Nat, NEW m \in Nat, NEW last \in Nat, 1 <= last, last <= m + 1
  PROVE  b + last - 1 \in Nat /\ b + last - 1 <= b + m
OBVIOUS

(* The bytes of the contents are those places, in order. *)
LEMMA ContentPlaces ==
  ASSUME NEW image, NEW start \in Positions, NEW view,
         NEW last, last = view[ChainIn(image, start)[Len(ChainIn(image, start))]].link[2],
         last \in 1 .. End - 1,
         NEW size, size = (Len(ChainIn(image, start)) - 1) * Cells + last - 1
  PROVE  Holding(image, start, view, size)
<1> DEFINE chain == ChainIn(image, start)
           length == Len(chain)
           b == (length - 1) * Cells
           e(i) == view[chain[SectorAt(i)]].data[ByteAt(i) + 1]
           c == Content(view, chain)
<1>1. length \in Nat \ {0} /\ Last(chain) = chain[length]
  BY ChainFacts
<1>2. Cells \in Nat /\ Cells \in Nat \ {0} /\ last \in Nat /\ 1 <= last /\ last <= Cells + 1
  BY CellsIs
<1>3. c = [i \in 1 .. size |-> e(i)]
  <2>1. Size(view, chain) = size
    BY <1>1 DEF Size
  <2> QED
    BY <2>1 DEF Content, SectorAt, ByteAt
<1>4. size = b + last - 1
  OBVIOUS
<1>5. b = (length - 1) * Cells
  OBVIOUS
<1> HIDE DEF chain, length, b, e, c
<1>6. b \in Nat /\ length * Cells = b + Cells
  <2> DEFINE d == length - 1
  <2>1. d \in Nat /\ length = d + 1 /\ b = d * Cells
    BY <1>1, <1>5
  <2> HIDE DEF d
  <2>2. d * Cells \in Nat
    BY <1>2, <2>1
  <2>3. (d + 1) * Cells = d * Cells + Cells
    BY <1>2, <2>1
  <2> QED
    BY <2>1, <2>2, <2>3
<1>7. size \in Nat /\ size <= b + Cells
  <2>1. b \in Nat /\ Cells \in Nat /\ last \in Nat /\ 1 <= last /\ last <= Cells + 1
    BY <1>2, <1>6
  <2>2. b + last - 1 \in Nat /\ b + last - 1 <= b + Cells
    BY <2>1, EndOfLast
  <2> QED
    BY <1>4, <2>2
<1>8. Len(c) = size
  BY <1>3, <1>7
<1>9. ASSUME NEW i \in 1 .. size
      PROVE  /\ SectorAt(i) \in 1 .. length /\ ByteAt(i) \in 0 .. Cells - 1
             /\ i = (SectorAt(i) - 1) * Cells + ByteAt(i) + 1
  <2> DEFINE x == i - 1
             q == x \div Cells
             r == x % Cells
  <2>1. x \in Nat /\ x < b + Cells /\ i = x + 1
    BY <1>2, <1>6, <1>7
  <2> HIDE DEF x
  <2>2. q \in Nat /\ r \in 0 .. Cells - 1 /\ x = Cells * q + r
    BY <1>2, <2>1, DivMod
  <2>3. SectorAt(i) = q + 1 /\ ByteAt(i) = r
    BY DEF SectorAt, ByteAt, x
  <2> HIDE DEF q, r
  <2>4. r \in Nat /\ x = q * Cells + r
    BY <1>2, <2>2
  <2>5. q < length
    <3> SUFFICES ASSUME ~(q < length) PROVE FALSE
      OBVIOUS
    <3> DEFINE d == q - length
    <3>1. d \in Nat /\ q = length + d /\ length \in Nat
      BY <1>1, <2>2
    <3> HIDE DEF d
    <3>2. q * Cells = length * Cells + d * Cells /\ d * Cells \in Nat /\ q * Cells \in Nat
      BY <1>2, <2>2, <3>1
    <3> QED
      BY <1>2, <1>6, <2>1, <2>4, <3>2
  <2>6. (q + 1) - 1 = q /\ q + 1 \in 1 .. length
    BY <1>1, <2>2, <2>5
  <2> DEFINE m == q * Cells
  <2>7. m \in Nat /\ x = m + r /\ m = (SectorAt(i) - 1) * Cells
    BY <1>2, <2>2, <2>3, <2>4, <2>6
  <2>8. i = m + r + 1
    <3> HIDE DEF m
    <3> QED
      BY <2>1, <2>4, <2>7
  <2> HIDE DEF m
  <2> QED
    BY <2>2, <2>3, <2>6, <2>7, <2>8
<1> QED
  BY <1>3, <1>7, <1>8, <1>9 DEF Holding, c, chain, e, length

(* A file none of whose sectors changes keeps its bytes. *)
LEMMA ContentAlike ==
  ASSUME NEW image, NEW start \in Positions, NEW view, NEW grown,
         view[ChainIn(image, start)[Len(ChainIn(image, start))]].link[2] \in 1 .. End - 1,
         \A i \in 1 .. Len(ChainIn(image, start)) :
           grown[ChainIn(image, start)[i]] = view[ChainIn(image, start)[i]]
  PROVE  Content(grown, ChainIn(image, start)) = Content(view, ChainIn(image, start))
<1> DEFINE chain == ChainIn(image, start)
           last == view[chain[Len(chain)]].link[2]
           end == grown[chain[Len(chain)]].link[2]
           size == (Len(chain) - 1) * Cells + last - 1
           upto == (Len(chain) - 1) * Cells + end - 1
<1>1. Len(chain) \in 1 .. Len(chain)
  BY ChainFacts
<1>2. end = last /\ upto = size /\ last \in 1 .. End - 1 /\ end \in 1 .. End - 1
  BY <1>1
<1>3. /\ Content(view, chain) = [i \in 1 .. size |-> view[chain[SectorAt(i)]].data[ByteAt(i) + 1]]
      /\ \A i \in 1 .. size : SectorAt(i) \in 1 .. Len(chain)
  BY <1>2, ContentPlaces DEF Holding
<1>4. Content(grown, chain) = [i \in 1 .. upto |-> grown[chain[SectorAt(i)]].data[ByteAt(i) + 1]]
  BY <1>2, ContentPlaces DEF Holding
<1>5. \A i \in 1 .. size : grown[chain[SectorAt(i)]] = view[chain[SectorAt(i)]]
  BY <1>3
<1> HIDE DEF chain, size, upto
<1> QED
  BY <1>2, <1>3, <1>4, <1>5 DEF chain

(* Where the bytes of a write are in the file: the sectors begin at p, q and *)
(* b, of which the write is in that at p, byte i in that at q, and b is last. *)
LEMMA WriteNumbers ==
  ASSUME NEW m \in Nat, NEW p \in Nat, NEW q \in Nat, NEW b \in Nat, NEW o \in Nat, NEW n \in Nat,
         NEW last \in Nat, NEW end \in Nat, NEW size, NEW upto, NEW pos, NEW j \in Nat, NEW i,
         p = b \/ p + m <= b, q = b \/ q + m <= b, q = p \/ q + m <= p \/ p + m <= q,
         2 <= o, o + n <= m + 2, 1 <= last, last <= m + 1, j < m, p = b => o <= last + 1,
         end = IF p = b /\ o + n - 1 > last THEN o + n - 1 ELSE last,
         size = b + last - 1, upto = b + end - 1, pos = p + o - 2, i = q + j + 1
  PROVE  /\ upto = IF pos + n > size THEN pos + n ELSE size
         /\ i <= upto /\ q # p => i \notin pos + 1 .. pos + n /\ i <= size
         /\ q = p => (i \in pos + 1 .. pos + n <=> j + 2 \in o .. o + n - 1)
         /\ i <= upto /\ q = p /\ i \notin pos + 1 .. pos + n => i <= size
<1>1. upto = IF pos + n > size THEN pos + n ELSE size
  OBVIOUS
<1>2. ASSUME i <= upto, q # p PROVE i \notin pos + 1 .. pos + n /\ i <= size
  BY <1>2
<1>3. ASSUME q = p PROVE i \in pos + 1 .. pos + n <=> j + 2 \in o .. o + n - 1
  BY <1>3
<1>4. ASSUME i <= upto, q = p, i \notin pos + 1 .. pos + n PROVE i <= size
  BY <1>4
<1> QED
  BY <1>1, <1>2, <1>3, <1>4

(* The starts of two sectors of a file *)
LEMMA SectorStarts ==
  ASSUME NEW m \in Nat \ {0}, NEW k \in Nat \ {0}, NEW l \in Nat \ {0}
  PROVE  /\ (k - 1) * m \in Nat
         /\ k = l => (k - 1) * m = (l - 1) * m
         /\ k < l => (k - 1) * m + m <= (l - 1) * m
         /\ k # l => (k - 1) * m # (l - 1) * m
<1> DEFINE a == k - 1
           b == l - 1
<1>1. a \in Nat /\ b \in Nat /\ (k < l <=> a < b) /\ (k = l <=> a = b)
  OBVIOUS
<1> HIDE DEF a, b
<1>2. a * m \in Nat /\ b * m \in Nat
  BY <1>1
<1>3. a < b => a * m + m <= b * m
  BY <1>1, Multiply
<1>4. b < a => b * m + m <= a * m
  BY <1>1, Multiply
<1>5. a # b => a * m # b * m
  <2> DEFINE x == a * m
             y == b * m
  <2>1. x \in Nat /\ y \in Nat /\ (a < b => x + m <= y) /\ (b < a => y + m <= x) /\ m > 0
    BY <1>2, <1>3, <1>4
  <2> HIDE DEF x, y
  <2>2. a < b \/ b < a \/ a = b
    BY <1>1
  <2>3. a # b => x # y
    BY <2>1, <2>2
  <2> QED
    BY <2>3 DEF x, y
<1> QED
  BY <1>1, <1>2, <1>3, <1>5 DEF a, b

(* The same, of a file that ends there *)
LEMMA HoldingIs ==
  ASSUME NEW image, NEW start \in Positions, NEW view, NEW last, NEW size,
         EndsAt(image, start, view, last, size)
  PROVE  Holding(image, start, view, size)
BY ContentPlaces DEF EndsAt

(* A sector w that is b with n bytes of h at offset o *)
Overwritten(b, h, o, n, w) ==
  /\ b.link[1] # 0 => w.link = b.link
  /\ b.link[1] = 0 => w.link[2] = IF o + n - 1 > b.link[2] THEN o + n - 1 ELSE b.link[2]
  /\ \A i \in 1 .. Cells : w.data[i] = IF i + 1 \in o .. o + n - 1 THEN h ELSE b.data[i]

(* That is what a write makes of it. *)
LEMMA OverwrittenIs ==
  ASSUME NEW b \in Sectors, NEW h \in Handles, NEW o \in Nat \ {0}, NEW n \in Nat,
         NEW w, w = WriteInto(b, h, o, n)
  PROVE  Overwritten(b, h, o, n, w)
<1> DEFINE x == WriteInto(b, h, o, n)
<1>1. b.link[1] # 0 => WriteInto(b, h, o, n).link = b.link
  BY WriteIntoIs
<1>2. b.link[1] = 0 => WriteInto(b, h, o, n).link[2] = IF o + n - 1 > b.link[2] THEN o + n - 1 ELSE b.link[2]
  BY WriteIntoIs
<1>3. \A i \in 1 .. Cells :
        WriteInto(b, h, o, n).data[i] = IF i + 1 \in o .. o + n - 1 THEN h ELSE b.data[i]
  BY WriteIntoIs
<1>4. w = x
  OBVIOUS
<1> HIDE DEF x
<1> QED
  BY <1>1, <1>2, <1>3, <1>4 DEF Overwritten, x

(* An image with a write of n bytes of h at offset o of one sector *)
Grown(view, s, h, o, n) == [view EXCEPT ![s] = WriteInto(view[s], h, o, n)]

(* A write of n bytes at offset o of the k-th sector of a file *)
Writing(image, start, view, k, h, o, n, grown, pos, was, size) ==
  /\ start \in Positions /\ view \in [Positions -> Sectors] /\ k \in 1 .. Len(ChainIn(image, start))
  /\ view[ChainIn(image, start)[Len(ChainIn(image, start))]].link[1] = 0
  /\ view[ChainIn(image, start)[Len(ChainIn(image, start))]].link[2] \in 1 .. End - 1
  /\ k # Len(ChainIn(image, start)) => view[ChainIn(image, start)[k]].link[1] # 0
  /\ h \in Handles /\ o \in 2 .. End /\ n \in Nat /\ o + n <= End /\ o < End
  /\ k = Len(ChainIn(image, start)) => o <= view[ChainIn(image, start)[k]].link[2] + 1
  /\ grown = Grown(view, ChainIn(image, start)[k], h, o, n)
  /\ pos = (k - 1) * Cells + o - 2
  /\ was = Content(view, ChainIn(image, start))
  /\ size = IF pos + n > Len(was) THEN pos + n ELSE Len(was)

(* Such a write lays the bytes over the contents, at the position of that *)
(* place: the data below the end stay, and the end moves on when it was   *)
(* passed.                                                                *)
LEMMA ContentWritten ==
  ASSUME NEW image, NEW start, NEW view, NEW k, NEW h, NEW o, NEW n, NEW grown, NEW pos, NEW was, NEW size,
         Writing(image, start, view, k, h, o, n, grown, pos, was, size)
  PROVE  Content(grown, ChainIn(image, start)) = Overlaid(was, size, pos, n, h)
<1> SUFFICES ASSUME
      start \in Positions, view \in [Positions -> Sectors], k \in 1 .. Len(ChainIn(image, start)),
      view[ChainIn(image, start)[Len(ChainIn(image, start))]].link[1] = 0,
      view[ChainIn(image, start)[Len(ChainIn(image, start))]].link[2] \in 1 .. End - 1,
      k # Len(ChainIn(image, start)) => view[ChainIn(image, start)[k]].link[1] # 0,
      h \in Handles, o \in 2 .. End, n \in Nat, o + n <= End, o < End,
      k = Len(ChainIn(image, start)) => o <= view[ChainIn(image, start)[k]].link[2] + 1,
      grown = Grown(view, ChainIn(image, start)[k], h, o, n),
      pos = (k - 1) * Cells + o - 2,
      was = Content(view, ChainIn(image, start)),
      size = IF pos + n > Len(was) THEN pos + n ELSE Len(was)
    PROVE  Content(grown, ChainIn(image, start)) = Overlaid(was, size, pos, n, h)
  BY DEF Writing
<1> DEFINE chain == ChainIn(image, start)
           length == Len(chain)
           s == view[chain[k]]
           w == WriteInto(view[chain[k]], h, o, n)
           last == view[chain[length]].link[2]
           end == grown[chain[length]].link[2]
           p == (k - 1) * Cells
           b == (length - 1) * Cells
           before == (length - 1) * Cells + last - 1
           upto == (length - 1) * Cells + end - 1
<1>1. /\ length \in Nat \ {0} /\ length \in 1 .. length
      /\ \A i \in 1 .. length : chain[i] \in Positions
      /\ \A i, j \in 1 .. length : chain[i] = chain[j] => i = j
  BY ChainFacts
<1>2. s \in Sectors
  BY <1>1
<1>3. o \in Nat /\ o \in Nat \ {0} /\ 2 <= o /\ Cells \in Nat \ {0} /\ End = Cells + 2
  BY CellsIs
<1>4. /\ s.link[1] # 0 => w.link = s.link
      /\ s.link[1] = 0 => w.link[2] = IF o + n - 1 > s.link[2] THEN o + n - 1 ELSE s.link[2]
      /\ \A i \in 1 .. Cells : w.data[i] = IF i + 1 \in o .. o + n - 1 THEN h ELSE s.data[i]
  <2>1. w = WriteInto(s, h, o, n)
    OBVIOUS
  <2> HIDE DEF s, w
  <2>2. Overwritten(s, h, o, n, w)
    BY <1>2, <1>3, <2>1, OverwrittenIs
  <2> QED
    BY <2>2 DEF Overwritten
<1>5. /\ grown[chain[k]] = w
      /\ \A i \in 1 .. length : i # k => grown[chain[i]] = view[chain[i]]
  BY <1>1 DEF Grown
<1>6. last \in 1 .. End - 1 /\ view[chain[length]].link[1] = 0 /\ (k # length => s.link[1] # 0)
      /\ (k = length => o <= last + 1) /\ pos = p + o - 2 /\ before = b + last - 1
      /\ upto = b + end - 1
  OBVIOUS
<1>7. end = IF k = length /\ o + n - 1 > last THEN o + n - 1 ELSE last
  BY <1>1, <1>4, <1>5, <1>6
<1>8. last \in Nat /\ 1 <= last /\ last <= Cells + 1 /\ o + n <= Cells + 2
  <2>1. last \in 1 .. End - 1
    OBVIOUS
  <2> HIDE DEF last
  <2>2. last \in Nat /\ 1 <= last /\ last <= Cells + 1
    BY <1>3, <2>1
  <2>3. o + n <= Cells + 2
    BY <1>3
  <2> QED
    BY <2>2, <2>3
<1>9. end \in 1 .. End - 1 /\ end \in Nat
  <2> HIDE DEF last, end, chain
  <2> QED
    BY <1>3, <1>7, <1>8
<1>10. /\ was = [i \in 1 .. before |-> view[chain[SectorAt(i)]].data[ByteAt(i) + 1]]
       /\ Len(was) = before
  <2>1. EndsAt(image, start, view, last, before)
    BY DEF EndsAt
  <2> HIDE DEF last, before
  <2>2. Holding(image, start, view, before)
    BY <2>1, HoldingIs
  <2> QED
    BY <2>2 DEF Holding
<1>11. /\ upto \in Nat
       /\ Content(grown, chain) = [i \in 1 .. upto |-> grown[chain[SectorAt(i)]].data[ByteAt(i) + 1]]
       /\ \A i \in 1 .. upto :
            /\ SectorAt(i) \in 1 .. length /\ ByteAt(i) \in 0 .. Cells - 1
            /\ i = (SectorAt(i) - 1) * Cells + ByteAt(i) + 1
  <2>1. EndsAt(image, start, grown, end, upto)
    BY <1>9 DEF EndsAt
  <2> HIDE DEF end, upto
  <2>2. Holding(image, start, grown, upto)
    BY <2>1, HoldingIs
  <2> QED
    BY <2>2 DEF Holding
<1>12. b = (length - 1) * Cells /\ p = (k - 1) * Cells
  OBVIOUS
<1> HIDE DEF chain, length, s, w, last, end, p, b, before, upto
<1>13. k \in Nat \ {0} /\ p \in Nat /\ b \in Nat /\ (k = length => p = b) /\ (k # length => p # b)
       /\ (p = b \/ p + Cells <= b)
  <2>1. k \in Nat \ {0} /\ (k = length \/ k < length)
    BY <1>1 DEF length, chain
  <2> QED
    BY <1>1, <1>3, <1>12, <2>1, SectorStarts
<1>14. end = IF p = b /\ o + n - 1 > last THEN o + n - 1 ELSE last
  BY <1>7, <1>13
<1>15. ASSUME NEW i \in 1 .. upto
       PROVE  /\ upto = IF pos + n > before THEN pos + n ELSE before
              /\ grown[chain[SectorAt(i)]].data[ByteAt(i) + 1] =
                   IF i \in pos + 1 .. pos + n THEN h ELSE was[i]
  <2> DEFINE l == SectorAt(i)
             j == ByteAt(i)
             q == (l - 1) * Cells
  <2>1. l \in 1 .. length /\ j \in 0 .. Cells - 1 /\ i = q + j + 1
    BY <1>11
  <2>2. j \in Nat /\ j < Cells /\ l \in Nat \ {0}
    <3> HIDE DEF l, j, q
    <3> QED
      BY <1>1, <1>3, <2>1
  <2>3. q = (l - 1) * Cells
    OBVIOUS
  <2> HIDE DEF l, j, q
  <2>4. q \in Nat /\ (q = b \/ q + Cells <= b) /\ (q = p \/ q + Cells <= p \/ p + Cells <= q)
        /\ (l = k <=> q = p)
    <3>1. l = length \/ l < length
      BY <1>1, <2>1, <2>2
    <3>2. q \in Nat /\ (q = b \/ q + Cells <= b)
      BY <1>1, <1>3, <1>12, <2>2, <2>3, <3>1, SectorStarts
    <3>3. l = k \/ l < k \/ k < l
      BY <1>13, <2>2
    <3>4. (q = p \/ q + Cells <= p \/ p + Cells <= q) /\ (l = k <=> q = p)
      BY <1>3, <1>12, <1>13, <2>2, <2>3, <3>3, SectorStarts
    <3> QED
      BY <3>2, <3>4
  <2>5. /\ upto = IF pos + n > before THEN pos + n ELSE before
        /\ q # p => i \notin pos + 1 .. pos + n /\ i <= before
        /\ q = p => (i \in pos + 1 .. pos + n <=> j + 2 \in o .. o + n - 1)
        /\ q = p /\ i \notin pos + 1 .. pos + n => i <= before
    <3>1. /\ p = b => o <= last + 1
          /\ Cells \in Nat
      BY <1>3, <1>6, <1>13
    <3>2. before = b + last - 1 /\ upto = b + end - 1 /\ pos = p + o - 2 /\ i = q + j + 1
      BY <1>6, <2>1
    <3>3. i <= upto
      BY <1>11
    <3> QED
      BY <1>3, <1>8, <1>9, <1>13, <1>14, <2>2, <2>4, <3>1, <3>2, <3>3, WriteNumbers
  <2>6. i <= before => was[i] = view[chain[l]].data[j + 1]
    <3>1. i \in Nat /\ 1 <= i
      BY <1>11
    <3>2. i <= before => i \in 1 .. before
      <4>1. before \in Int
        BY <1>6, <1>8, <1>13
      <4> QED
        BY <3>1, <4>1
    <3> QED
      BY <1>10, <3>2 DEF l, j
  <2>7. CASE l # k
    <3>1. i \notin pos + 1 .. pos + n /\ was[i] = view[chain[l]].data[j + 1]
      BY <2>4, <2>5, <2>6, <2>7
    <3>2. grown[chain[l]] = view[chain[l]]
      BY <1>5, <2>1, <2>7
    <3> QED
      BY <2>5, <3>1, <3>2 DEF l, j
  <2>8. CASE l = k
    <3>1. j + 1 \in 1 .. Cells /\ (j + 1) + 1 = j + 2
      BY <1>3, <2>2
    <3>2. grown[chain[l]].data[j + 1] = IF j + 2 \in o .. o + n - 1 THEN h ELSE view[chain[l]].data[j + 1]
      BY <1>4, <1>5, <2>8, <3>1 DEF s
    <3> QED
      BY <2>4, <2>5, <2>6, <2>8, <3>2 DEF l, j
  <2> QED
    BY <2>7, <2>8
<1>16. upto = IF pos + n > before THEN pos + n ELSE before
  <2> DEFINE q == p
             j == 0
             i == q + j + 1
  <2>1. j \in Nat /\ j < Cells /\ q \in Nat /\ (q = b \/ q + Cells <= b) /\ q = p /\ i = q + j + 1
    BY <1>3, <1>13
  <2>2. /\ p = b => o <= last + 1
        /\ Cells \in Nat /\ before = b + last - 1 /\ upto = b + end - 1 /\ pos = p + o - 2
    BY <1>3, <1>6, <1>13
  <2> HIDE DEF q, j, i
  <2> QED
    BY <1>3, <1>8, <1>9, <1>13, <1>14, <2>1, <2>2, WriteNumbers
<1>17. size = upto
  BY <1>10, <1>16
<1> QED
  BY <1>11, <1>15, <1>17 DEF chain, Overlaid

(* What is known of the contents, for records that do not change *)
ContentsKnown ==
  \A im, view, gone, k :
    (Careful /\ Holds(im) /\ k \in Files /\ view = View /\ gone = lost) =>
      Contents(k) = Stored(im, view, gone, k) /\ (Sound(k) <=> SoundIn(im, k) /\ k \notin gone)

(* It is known in every state. *)
LEMMA ContentsAre == ContentsKnown
BY ContentsIs DEF ContentsKnown

(* So it is after a step. *)
LEMMA ContentsAfter ==
  ASSUME Careful, NEW image, Holds(image)', NEW f \in Files
  PROVE  Contents(f)' = Stored(image, View', lost', f) /\ (Sound(f)' <=> SoundIn(image, f) /\ f \notin lost')
<1>1. ContentsKnown'
  BY ContentsAre, PTL
<1> QED
  BY <1>1 DEF ContentsKnown

(* A file keeps its contents unless a sector of it changes or it is given up. *)
LEMMA ContentStays ==
  ASSUME Careful, NEW image, Holds(image), Holds(image)', NEW f \in Files,
         f \in lost' <=> f \in lost,
         SoundIn(image, f) /\ f \notin lost => \A p \in Trail(image, f) : View'[p] = View[p]
  PROVE  Contents(f)' = Contents(f) /\ (Sound(f)' <=> Sound(f))
<1> DEFINE start == StartOf[f]
           chain == ChainIn(image, start)
<1>1. Contents(f)' = Stored(image, View', lost', f) /\ (Sound(f)' <=> SoundIn(image, f) /\ f \notin lost')
  BY ContentsAfter
<1>2. Contents(f) = Stored(image, View, lost, f) /\ (Sound(f) <=> SoundIn(image, f) /\ f \notin lost)
  BY ContentsIs
<1>3. CASE ~(SoundIn(image, f) /\ f \notin lost)
  BY <1>1, <1>2, <1>3 DEF Stored
<1>4. CASE SoundIn(image, f) /\ f \notin lost
  <2> DEFINE view == View
             grown == View'
  <2>1. start \in Positions
    BY <1>4 DEF SoundIn
  <2>2. view[chain[Len(chain)]].link[2] \in 1 .. End - 1
    BY <1>4, <2>1, ContentsOfSound
  <2>3. Trail(image, f) = {chain[i] : i \in 1 .. Len(chain)}
    BY <2>1, TrailIs
  <2>4. \A i \in 1 .. Len(chain) : grown[chain[i]] = view[chain[i]]
    BY <1>4, <2>3
  <2> HIDE DEF view, grown, start
  <2>5. Content(grown, chain) = Content(view, chain)
    BY <2>1, <2>2, <2>4, ContentAlike
  <2>6. Stored(image, grown, lost', f) = Stored(image, view, lost, f)
    BY <1>4, <2>5 DEF Stored, start
  <2> QED
    BY <1>1, <1>2, <2>6 DEF view, grown
<1> QED
  BY <1>3, <1>4

(* A put of n bytes into the sector in view, which it gives its new form *)
PutsAt(cur, offset, n) ==
  /\ file' = [file EXCEPT ![now.on].current = cur, ![now.on].offset = offset + n]
  /\ call' = [call EXCEPT ![Task].left = now.left - n,
                          ![Task].at = IF now.left = n THEN "ok" ELSE "copy"]
(* Only the sector s changes in what medium and window hold. *)
Changes(s, w) == View' = [View EXCEPT ![s] = w]

(* The handle and the request after a put *)
LEMMA PutBecomes ==
  ASSUME Careful, NEW image, Holds(image), now.op = "write", now.at = "copy",
         NEW cur \in Nat \X Nat, NEW offset \in Nat \ {0, 1}, NEW n \in Nat, n <= now.left, PutsAt(cur, offset, n)
  PROVE  LET h == now.on
             f == file[h]
         IN  /\ file'[h].name = f.name /\ file'[h].failed = f.failed /\ file'[h].got = f.got
             /\ file'[h].current = cur /\ file'[h].offset = offset + n
             /\ \A k \in Handles : k # h => file'[k] = file[k]
             /\ now'.op = "write" /\ now'.on = h /\ now'.left = now.left - n
             /\ now'.at \in {"ok", "copy"}
<1> DEFINE h == now.on
           f == file[h]
           o == offset + n
           left == now.left - n
           at == IF now.left = n THEN "ok" ELSE "copy"
           g == [f EXCEPT !.current = cur, !.offset = o]
           r == [now EXCEPT !.left = left, !.at = at]
<1>1. call \in [Tasks -> CallRecords] /\ file \in [Handles -> FileRecords] /\ Task \in Tasks
      /\ now = call[Task]
  BY TaskIs DEF Holds, Shape, now
<1>2. f \in FileRecords /\ h \in Handles /\ now \in CallRecords
  BY CopyIs
<1>3. at \in {"ok", "copy"}
  OBVIOUS
<1>4. file' = [file EXCEPT ![h] = g]
  <2> HIDE DEF o
  <2>1. file' = [file EXCEPT ![h].current = cur, ![h].offset = o]
    BY DEF o, PutsAt
  <2> HIDE DEF h
  <2> QED
    BY <1>1, <1>2, <2>1
<1>5. call' = [call EXCEPT ![Task] = r]
  <2> HIDE DEF left, at
  <2>1. call' = [call EXCEPT ![Task].left = left, ![Task].at = at]
    BY DEF left, at, PutsAt
  <2> QED
    BY <1>1, <2>1
<1> HIDE DEF o, left, at
<1>6. g.name = f.name /\ g.failed = f.failed /\ g.got = f.got /\ g.current = cur /\ g.offset = o
  BY <1>2 DEF FileRecords
<1>7. r.op = now.op /\ r.on = h /\ r.left = left /\ r.at = at
  BY <1>2 DEF CallRecords
<1> HIDE DEF g, r
<1>8. file'[h] = g /\ \A k \in Handles : k # h => file'[k] = file[k]
  BY <1>1, <1>2, <1>4
<1>9. now' = r
  BY <1>1, <1>5, NowBecomes
<1> QED
  BY <1>3, <1>6, <1>7, <1>8, <1>9 DEF o, left

(* The files that have not the sector that changes *)
LEMMA OthersStay ==
  ASSUME Careful, NEW image, Holds(image), Holds(image)', NEW s, NEW w,
         Changes(s, w), NEW name \in Files,
         Reaches(image, lost', name, s), lost' = lost \/ lost' = lost \cup {name},
         NEW f \in Files, f # name
  PROVE  Contents(f)' = Contents(f) /\ (Sound(f)' <=> Sound(f))
<1>1. image \in Images /\ View \in [Positions -> Sectors]
  BY ViewIs DEF Holds
<1>2. f \in lost' <=> f \in lost
  OBVIOUS
<1>3. s \notin Trail(image, f)
  BY <1>1, Separate DEF Reaches
<1>4. \A p \in Trail(image, f) : View'[p] = View[p]
  <2>1. Trail(image, f) \subseteq Positions
    BY TrailIs DEF Trail
  <2> DEFINE view == View
             grown == View'
  <2>2. view \in [Positions -> Sectors] /\ grown = [view EXCEPT ![s] = w]
    BY <1>1 DEF Changes
  <2> HIDE DEF view, grown
  <2>3. \A p \in Trail(image, f) : grown[p] = view[p]
    BY <1>3, <2>1, <2>2
  <2> QED
    BY <2>3 DEF view, grown
<1> QED
  BY <1>2, <1>4, ContentStays

(* A write of a file of which no more is promised *)
LEMMA PutUnseen ==
  ASSUME Careful, NEW image, Holds(image), Holds(image)', now.op = "write", now.at = "copy",
         NEW w, Changes(current_sector, w),
         ~(SoundIn(image, file[now.on].name) /\ file[now.on].name \notin lost),
         lost' = lost
  PROVE  contents' = contents /\ sound' = sound
<1> DEFINE name == file[now.on].name
           s == current_sector
<1>1. name \in Files /\ Reaches(image, lost, name, s)
  BY CopyIs
<1>2. ASSUME NEW f \in Files
      PROVE  Contents(f)' = Contents(f) /\ (Sound(f)' <=> Sound(f))
  <2>1. CASE f = name
    BY <2>1, ContentStays
  <2>2. CASE f # name
    <3> HIDE DEF name, s
    <3>1. Changes(s, w) /\ Reaches(image, lost', name, s)
      BY <1>1 DEF s
    <3> QED
      BY <1>1, <2>2, <3>1, OthersStay
  <2> QED
    BY <2>1, <2>2
<1> QED
  BY <1>2 DEF contents, sound

(* The contents of a file after a put *)
Put(h, name, pos, n) ==
  Overlaid(Contents(name), IF pos + n > Len(Contents(name)) THEN pos + n ELSE Len(Contents(name)),
           pos, n, h)

(* An offset of a sector is a number. *)
LEMMA InRange ==
  ASSUME NEW e \in Nat, NEW o \in 2 .. e
  PROVE  o \in Nat /\ o <= e
OBVIOUS

(* A transfer fits into the room that is left. *)
LEMMA RoomFor ==
  ASSUME NEW o \in Nat, NEW end \in Nat, o <= end, o # end, NEW left \in Nat,
         NEW n, n = Transfer(end - o, left)
  PROVE  o < end /\ o + n <= end /\ n \in Nat
<1>1. end - o \in Int /\ end - o >= 0
  OBVIOUS
<1>2. n \in Nat /\ n <= end - o
  BY <1>1, TransferIs
<1> QED
  BY <1>2

(* A write of a file puts the next bytes of it. *)
LEMMA PutSeen ==
  ASSUME Careful, NEW image, Holds(image), Holds(image)', now.op = "write", now.at = "copy",
         Kept(image, lost, file[now.on], now),
         NEW h, h = now.on, NEW f, f = file[now.on], f.offset # End,
         NEW n, n = Transfer(End - f.offset, now.left), lost' = lost,
         NEW k \in 1 .. Len(ChainIn(image, StartOf[f.name])),
         f.current = ChainIn(image, StartOf[f.name])[k],
         NEW pos, pos = (k - 1) * Cells + f.offset - 2,
         Changes(current_sector, WriteInto(sect_buffer, h, f.offset, n))
  PROVE  sound' = sound /\ Rewrites(f.name, Put(h, f.name, pos, n))
<1> DEFINE name == f.name
           start == StartOf[f.name]
           chain == ChainIn(image, start)
           view == View
           grown == View'
           o == f.offset
           was == Contents(f.name)
           length == Len(chain)
           upto == IF pos + n > Len(was) THEN pos + n ELSE Len(was)
           s == current_sector
           more == Overlaid(was, upto, pos, n, h)
<1>1. /\ name \in Files /\ name \notin lost /\ SoundIn(image, name) /\ start \in Positions /\ h \in Handles
      /\ s = f.current /\ s \in Positions /\ sect_buffer = view[s] /\ o \in 2 .. End /\ o # End
      /\ now.left \in Nat
      /\ sect_buffer.link[1] = 0 => o <= sect_buffer.link[2] + 1
  BY CopyIs DEF Kept
<1>2. view \in [Positions -> Sectors]
  BY ViewIs DEF Holds
<1>3. view[chain[length]].link[1] = 0 /\ view[chain[length]].link[2] \in 1 .. End - 1
      /\ (k # length => view[chain[k]].link[1] # 0)
  <2>1. length \in 1 .. length
    BY <1>1, ChainFacts
  <2>2. view[chain[length]].link[1] = 0 /\ (k # length => view[chain[k]].link[1] # 0)
    <3> HIDE DEF name
    <3>1. \A j \in 1 .. length :
            /\ j = length => View[chain[j]].link[1] = 0
            /\ j # length => View[chain[j]].link[1] # 0
      <4>1. name \in Files /\ StartOf[name] \in Positions /\ SoundIn(image, name) /\ chain = ChainIn(image, StartOf[name])
        BY <1>1 DEF name
      <4> HIDE DEF chain, length
      <4>2. \A j \in 1 .. Len(ChainIn(image, StartOf[name])) :
            /\ j = Len(ChainIn(image, StartOf[name])) => View[ChainIn(image, StartOf[name])[j]].link[1] = 0
            /\ j # Len(ChainIn(image, StartOf[name])) => View[ChainIn(image, StartOf[name])[j]].link[1] # 0
        BY <4>1, LinksOfSound
      <4> QED
        BY <4>1, <4>2 DEF length
    <3>2. k \in 1 .. length
      OBVIOUS
    <3> HIDE DEF chain, length
    <3> QED
      BY <2>1, <3>1, <3>2
  <2>3. view[chain[length]].link[2] \in 1 .. End - 1
    BY <1>1, ContentsOfSound
  <2> QED
    BY <2>2, <2>3
<1>4. was = Stored(image, view, lost, name)
  BY <1>1, ContentsIs
<1>5. Contents(name)' = Stored(image, grown, lost, name) /\ (Sound(name)' <=> Sound(name))
  <2>1. Contents(name)' = Stored(image, View', lost', name)
        /\ (Sound(name)' <=> SoundIn(image, name) /\ name \notin lost')
    BY <1>1, ContentsAfter
  <2>2. Sound(name) <=> SoundIn(image, name) /\ name \notin lost
    BY <1>1, ContentsIs
  <2> QED
    BY <2>1, <2>2
<1>6. Reaches(image, lost, name, s)
  BY CopyIs
<1>7. chain[k] = s /\ chain = ChainIn(image, StartOf[name])
  BY <1>1
<1>8. o < End /\ o + n <= End /\ n \in Nat
  <2> DEFINE left == now.left
  <2>1. left \in Nat /\ n = Transfer(End - o, left)
    BY <1>1
  <2> HIDE DEF left, o
  <2>2. o \in Nat /\ End \in Nat /\ o <= End
    BY <1>1, CellsIs, InRange
  <2> QED
    BY <1>1, <2>1, <2>2, RoomFor
<1>9. grown = Grown(view, chain[k], h, o, n)
  BY <1>1, <1>7 DEF Changes, Grown
<1>10. k = length => o <= view[chain[k]].link[2] + 1
  BY <1>1, <1>3, <1>7
<1>11. was = Content(view, chain)
  BY <1>1, <1>4, <1>7 DEF Stored
<1>12. Contents(name)' = Content(grown, chain)
  BY <1>1, <1>5, <1>7 DEF Stored
<1>13. pos = (k - 1) * Cells + o - 2 /\ k \in 1 .. length
  OBVIOUS
<1>14. Content(grown, chain) = more
  <2>1. upto = IF pos + n > Len(was) THEN pos + n ELSE Len(was)
    OBVIOUS
  <2> DEFINE at == (k - 1) * Cells + o - 2
             last == ChainIn(image, start)[Len(ChainIn(image, start))]
             mine == ChainIn(image, start)[k]
  <2> HIDE DEF view, grown, o, was, start, upto
  <2>2. view[last].link[1] = 0 /\ view[last].link[2] \in 1 .. End - 1
        /\ (k # Len(ChainIn(image, start)) => view[mine].link[1] # 0)
        /\ (k = Len(ChainIn(image, start)) => o <= view[mine].link[2] + 1)
        /\ grown = Grown(view, mine, h, o, n) /\ was = Content(view, ChainIn(image, start))
        /\ pos = (k - 1) * Cells + o - 2 /\ k \in 1 .. Len(ChainIn(image, start))
    BY <1>3, <1>9, <1>10, <1>11, <1>13
  <2> QED
    <3>1. Writing(image, start, view, k, h, o, n, grown, pos, was, upto)
      BY <1>1, <1>2, <1>8, <2>1, <2>2 DEF Writing
    <3> QED
      BY <3>1, ContentWritten
<1>15. Put(h, name, pos, n) = more
  BY DEF Put
<1>16. \A g \in Files : g # name => Contents(g)' = Contents(g) /\ (Sound(g)' <=> Sound(g))
  <2> DEFINE w == WriteInto(sect_buffer, h, o, n)
  <2>1. Changes(s, w) /\ Reaches(image, lost', name, s)
    BY <1>6
  <2> HIDE DEF w, name, s
  <2> QED
    BY <1>1, <2>1, OthersStay
<1> HIDE DEF more, name
<1>17. Contents(name)' = Put(h, name, pos, n)
  BY <1>12, <1>14, <1>15
<1>18. Rewrites(name, Put(h, name, pos, n))
  <2> DEFINE p == Put(h, name, pos, n)
  <2>1. Contents(name)' = p
    BY <1>17
  <2> HIDE DEF p
  <2>2. contents' = [contents EXCEPT ![name] = p]
    BY <1>1, <1>16, <2>1 DEF contents
  <2> QED
    BY <2>2 DEF p, Rewrites
<1>19. sound' = sound
  BY <1>1, <1>5, <1>16 DEF sound
<1> QED
  BY <1>18, <1>19 DEF name

(* A put in the sector in view puts the bytes into the contents of the *)
(* file.                                                               *)
LEMMA PutImplemented ==
  ASSUME Careful, NEW image, Holds(image), Holds(image)', now.op = "write", now.at = "copy",
         file[now.on].offset # End,
         NEW n, n = Transfer(End - file[now.on].offset, now.left),
         sect_buffer' = WriteInto(sect_buffer, now.on, file[now.on].offset, n), dirty' = TRUE,
         PutsAt(file[now.on].current, file[now.on].offset, n),
         UNCHANGED <<disk, current_sector>>, lost' = lost
  PROVE  Store!Next \/ UNCHANGED Store!vars
<1> DEFINE h == now.on
           f == file[h]
           w == WriteInto(sect_buffer, h, f.offset, n)
           less == now.left - n
<1>1. /\ h \in Handles /\ f.name \in Files /\ f.name # 0 /\ ~f.failed /\ StartOf[f.name] \in Positions
      /\ f.current \in Nat \X Nat /\ f.offset \in Nat \ {0, 1} /\ f \in FileRecords
      /\ now.left \in Nat \ {0} /\ now.left <= Max(Lengths) /\ Max(Lengths) \in Nat
      /\ current_sector \in Positions /\ sect_buffer \in Sectors
  BY CopyIs, CellsIs, LongestIs DEF FileRecords
<1>2. n \in Nat /\ n <= now.left /\ w \in Sectors
  BY <1>1, PutIs
<1>3. Changes(current_sector, w)
  <2>1. Shape /\ sect_buffer' = w
    BY DEF Holds
  <2> HIDE DEF w
  <2> QED
    BY <1>1, <2>1, BufferIs DEF Changes
<1>4. /\ file'[h].name = f.name /\ file'[h].failed = f.failed /\ file'[h].got = f.got
      /\ file'[h].current = f.current /\ file'[h].offset = f.offset + n
      /\ \A k \in Handles : k # h => file'[k] = file[k]
      /\ now'.op = "write" /\ now'.on = h /\ now'.left = less
      /\ now'.at \in {"ok", "copy"}
  BY <1>1, <1>2, PutBecomes
<1> DEFINE g == file'[h]
           r == now'
<1>5. /\ g.name = f.name /\ g.failed = f.failed /\ g.got = f.got
      /\ g.current = f.current /\ g.offset = f.offset + n
      /\ r.op = "write" /\ r.on = h /\ r.left = less /\ r.at \in {"ok", "copy"}
      /\ now' = r /\ file'[h] = g
  BY <1>4
<1>6. OnOf(now, h) = now /\ OnOf(now', h) = r
  BY <1>4 DEF OnOf
<1>7. now.on = h /\ now'.on = h
  BY <1>4
<1> HIDE DEF w, less, g, r
<1>8. CASE ~Kept(image, lost, f, now)
  <2>1. ~(SoundIn(image, f.name) /\ f.name \notin lost)
    BY <1>1, <1>8 DEF Kept
  <2>2. contents' = contents /\ sound' = sound
    BY <1>3, <2>1, PutUnseen
  <2>3. ~Kept(image, lost, g, r)
    BY <1>5, <2>1 DEF Kept
  <2>4. OnOf(now, h).op \in {"none", "open", "seek", "read", "write"}
    BY <1>6
  <2>5. ~Kept(image, lost, file'[h], OnOf(now', h)) /\ file'[h].name # 0
    BY <1>1, <1>5, <1>6, <2>3
  <2> HIDE DEF h
  <2> QED
    BY <1>1, <1>4, <1>7, <2>2, <2>4, <2>5, HandleFails
<1>9. CASE Kept(image, lost, f, now)
  <2> DEFINE chain == ChainIn(image, StartOf[f.name])
             name == f.name
             o == f.offset
             was == Contents(f.name)
  <2>1. PICK k \in 1 .. Len(chain) :
          f.current = chain[k] /\ PosIn(image, f, "copy") = (k - 1) * Cells + f.offset - 2
    <3>1. Kept(image, lost, f, OnOf(now, h)) /\ OnOf(now, h).at = "copy"
      BY <1>6, <1>9
    <3> HIDE DEF h
    <3>2. \E k \in 1 .. Len(chain) :
            /\ f.current = chain[k]
            /\ PosIn(image, f, OnOf(now, h).at)
                 = (k - 1) * Cells
                     + (IF OnOf(now, h).at = "advance" THEN 2 ELSE f.offset) - 2
      BY <1>1, <3>1, PlaceIs
    <3> QED
      BY <3>1, <3>2
  <2> DEFINE pos == (k - 1) * Cells + f.offset - 2
             then == PosIn(image, g, r.at)
  <2>2. sound' = sound /\ Rewrites(f.name, Put(h, f.name, pos, n))
    BY <1>3, <1>9, <2>1, PutSeen DEF w
  <2>3. then = pos + n
    <3>1. /\ StartOf[g.name] \in Positions /\ k \in 1 .. Len(ChainIn(image, StartOf[g.name]))
          /\ g.current = ChainIn(image, StartOf[g.name])[k]
      BY <1>1, <1>5, <2>1
    <3>2. then = (k - 1) * Cells + g.offset - 2
      BY <1>5, <3>1, PosIs
    <3>3. k - 1 \in Nat /\ (k - 1) * Cells \in Nat
      <4>1. k \in Nat /\ k - 1 \in Nat /\ Cells \in Nat
        BY <1>1, ChainFacts, CellsIs
      <4> QED
        BY <4>1
    <3> DEFINE a == (k - 1) * Cells
    <3>4. a \in Nat /\ then = a + (o + n) - 2 /\ pos = a + o - 2 /\ o \in Nat
      BY <1>1, <1>5, <3>2, <3>3
    <3> HIDE DEF a, then, pos, o
    <3> QED
      BY <1>2, <3>4
  <2>4. handles[h] = Promised(image, lost, f, now) /\ Becomes(h, Promised(image, lost, g, r))
    <3>1. \A j \in Handles : j # h => file'[j] = file[j]
      BY <1>4
    <3>2. handles[h] = Promised(image, lost, file[h], OnOf(now, h))
          /\ Becomes(h, Promised(image, lost, file'[h], OnOf(now', h)))
      <4> HIDE DEF h
      <4> QED
        BY <1>1, <1>7, <3>1, HandleChanges
    <3> QED
      BY <1>5, <1>6, <3>2
  <2>5. handles[h] = Promise5(name, pos, f.got, now.left, "write")
    BY <1>1, <1>9, <2>1, <2>4, PromisedIs
  <2>6. Kept(image, lost, g, r)
    BY <1>5, <1>9 DEF Kept
  <2>7. Promised(image, lost, g, r) = Promise5(g.name, then, g.got, less, "write")
    BY <1>1, <1>5, <2>6, PromisedIs
  <2>8. Becomes(h, Promise5(name, then, f.got, less, "write"))
    BY <1>5, <2>4, <2>7
  <2> DEFINE size == IF then > Len(was) THEN then ELSE Len(was)
             more == Overlaid(was, size, pos, n, h)
  <2>9. Rewrites(name, more)
    <3> HIDE DEF then, pos
    <3>1. Put(h, name, pos, n) = more
      BY <2>3 DEF Put
    <3> QED
      BY <2>2, <3>1
  <2>10. n \in 0 .. Max(Lengths)
    BY <1>1, <1>2
  <2>11. less = now.left - n
    BY DEF less
  <2>12. name \in Files /\ h \in Handles /\ n <= now.left
    BY <1>1, <1>2
  <2>13. size = (IF then > Len(Contents(name)) THEN then ELSE Len(Contents(name)))
         /\ more = Overlaid(Contents(name), size, pos, n, h)
    OBVIOUS
  <2> HIDE DEF pos, then, name, h, size, more, was
  <2>14. Store!Next
    BY <2>2, <2>3, <2>5, <2>8, <2>9, <2>10, <2>11, <2>12, <2>13, StorePuts
  <2> QED
    BY <2>14
<1> QED
  BY <1>8, <1>9

(* A write goes on in the next sector of its file. *)
LEMMA AdvanceImplemented ==
  ASSUME Careful, NEW image, Holds(image), Holds(image)', now.op = "write", now.at = "copy",
         file[now.on].offset = End, sect_buffer.link[1] # 0,
         file' = [file EXCEPT ![now.on].current = sect_buffer.link],
         call' = [call EXCEPT ![Task].at = "advance"],
         UNCHANGED <<disk, window>>, lost' = lost
  PROVE  Store!Next \/ UNCHANGED Store!vars
<1> DEFINE h == now.on
           f == file[h]
           link == sect_buffer.link
           g == [f EXCEPT !.current = link]
           r == [now EXCEPT !.at = "advance"]
<1>1. call \in [Tasks -> CallRecords] /\ file \in [Handles -> FileRecords] /\ Task \in Tasks
      /\ now = call[Task]
  BY TaskIs DEF Holds, Shape, now
<1>2. /\ h \in Handles /\ now \in CallRecords /\ f \in FileRecords /\ f.name \in Files /\ f.name # 0
      /\ ~f.failed /\ StartOf[f.name] \in Positions /\ sect_buffer = View[current_sector]
  BY CopyIs, CellsIs
<1>3. View' = View
  BY StillView
<1>4. /\ g.name = f.name /\ g.failed = f.failed /\ g.got = f.got /\ g.current = link
  <2> HIDE DEF f, link
  <2> QED
    BY <1>2 DEF FileRecords
<1>5. r.op = "write" /\ r.on = h /\ r.left = now.left /\ r.at = "advance"
  BY <1>2 DEF CallRecords
<1> HIDE DEF r, g
<1>6. now' = r
  <2>1. call' = [call EXCEPT ![Task] = r]
    BY <1>1 DEF r
  <2> QED
    BY <1>1, <2>1, NowBecomes
<1>7. file'[h] = g /\ \A k \in Handles : k # h => file'[k] = file[k]
  BY <1>1, <1>2 DEF g
<1>8. OnOf(now, h) = now /\ OnOf(now', h) = r
  BY <1>5, <1>6 DEF OnOf
<1>9. CASE ~Kept(image, lost, f, now)
  <2>1. ~Kept(image, lost, g, r)
    BY <1>2, <1>4, <1>9 DEF Kept
  <2> QED
    BY <1>2, <1>3, <1>4, <1>5, <1>6, <1>7, <1>8, <2>1, FailedStep
<1>10. CASE Kept(image, lost, f, now)
  <2> DEFINE chain == ChainIn(image, StartOf[f.name])
             pos == PosIn(image, f, "copy")
             then == PosIn(image, g, "advance")
  <2>1. f.name \notin lost /\ SoundIn(image, f.name) /\ current_sector = f.current
    BY <1>10, CopyIs DEF Kept
  <2>2. PICK k \in 1 .. Len(chain) : f.current = chain[k] /\ pos = (k - 1) * Cells + f.offset - 2
    <3>1. \E k \in 1 .. Len(chain) :
            f.current = chain[k] /\ PosIn(image, f, now.at) = (k - 1) * Cells + f.offset - 2
      BY <1>2, <1>8, <1>10, PlaceIs
    <3> QED
      BY <3>1
  <2>3. k # Len(chain)
    <3>1. View[chain[k]].link = link
      BY <1>2, <2>1, <2>2
    <3>2. k = Len(chain) => View[chain[k]].link[1] = 0
      BY <1>2, <2>1, <2>2, LinksOfSound
    <3> QED
      BY <3>1, <3>2
  <2>4. k + 1 \in 1 .. Len(chain) /\ link = chain[k + 1]
    BY <1>2, <2>1, <2>2, <2>3, LinksOfSound
  <2>5. then = ((k + 1) - 1) * Cells + 2 - 2
    <3>1. /\ StartOf[g.name] \in Positions /\ k + 1 \in 1 .. Len(ChainIn(image, StartOf[g.name]))
          /\ g.current = ChainIn(image, StartOf[g.name])[k + 1]
      BY <1>2, <1>4, <2>4
    <3> QED
      BY <3>1, PosIs
  <2>6. then = pos
    <3>1. k \in Nat /\ k - 1 \in Nat /\ (k + 1) - 1 = k /\ Cells \in Nat /\ f.offset = Cells + 2
      <4>1. Len(chain) \in Nat
        BY <1>2, ChainFacts
      <4> HIDE DEF chain
      <4> QED
        BY <4>1, CellsIs
    <3> DEFINE a == (k - 1) * Cells
               b == k * Cells
    <3>2. a \in Nat /\ b = a + Cells
      BY <3>1
    <3>3. then = b + 2 - 2 /\ pos = a + (Cells + 2) - 2
      BY <2>2, <2>5, <3>1
    <3> HIDE DEF a, b, then, pos
    <3> QED
      BY <3>1, <3>2, <3>3
  <2>7. /\ contents' = contents /\ sound' = sound
        /\ handles[h] = Promised(image, lost, f, now)
        /\ Becomes(h, Promised(image, lost, g, r))
    BY <1>2, <1>3, <1>5, <1>6, <1>7, <1>8, OneHandle
  <2> DEFINE q == Promise5(f.name, pos, f.got, now.left, "write")
  <2>8. Promised(image, lost, f, now) = q
    BY <1>2, <1>10, PromisedIs
  <2>9. Kept(image, lost, g, r)
    BY <1>4, <1>5, <1>10 DEF Kept
  <2>10. Promised(image, lost, g, r) = Promise5(g.name, then, g.got, now.left, "write")
    BY <1>2, <1>4, <1>5, <2>9, PromisedIs
  <2>11. Promised(image, lost, g, r) = q
    BY <1>4, <2>6, <2>10
  <2> HIDE DEF q
  <2>12. Becomes(h, handles[h])
    BY <2>7, <2>8, <2>11
  <2> QED
    BY <1>2, <2>7, <2>12, StoreStutters
<1> QED
  BY <1>9, <1>10

(* A write for which there is no sector *)
LEMMA FullImplemented ==
  ASSUME Careful, NEW image, Holds(image), Holds(image)', now.op = "write", now.at = "copy",
         call' = [call EXCEPT ![Task].at = "error"],
         UNCHANGED <<disk, window>>, file' = file, lost' = lost
  PROVE  Store!Next \/ UNCHANGED Store!vars
<1> DEFINE h == now.on
           f == file[h]
           r == [now EXCEPT !.at = "error"]
<1>1. call \in [Tasks -> CallRecords] /\ Task \in Tasks /\ now = call[Task]
  BY TaskIs DEF Holds, Shape, now
<1>2. h \in Handles /\ now \in CallRecords /\ f.name \in Files /\ f.name # 0
  BY CopyIs, CellsIs
<1>3. View' = View
  BY StillView
<1>4. r.on = h /\ r.at = "error"
  BY <1>2 DEF CallRecords
<1> HIDE DEF r
<1>5. now' = r
  <2>1. call' = [call EXCEPT ![Task] = r]
    BY <1>1 DEF r
  <2> QED
    BY <1>1, <2>1, NowBecomes
<1>6. OnOf(now, h) = now /\ OnOf(now', h) = r
  BY <1>4, <1>5 DEF OnOf
<1>7. ~Kept(image, lost, file'[h], OnOf(now', h)) /\ file'[h].name # 0
  BY <1>2, <1>4, <1>6 DEF Kept
<1>8. OnOf(now, h).op \in {"none", "open", "seek", "read", "write"}
  BY <1>6
<1>9. now.on = h /\ now'.on = h /\ \A k \in Handles : k # h => file'[k] = file[k]
  BY <1>4, <1>5
<1> QED
  BY <1>2, <1>3, <1>7, <1>8, <1>9, FailedStep

(* Which promises a handle may make *)
LEMMA PromiseIsOf ==
  ASSUME NEW image, NEW gone, NEW f, NEW c
  PROVE  /\ Promised(image, gone, f, c).file \in {0, f.name}
         /\ f.name = 0 => Promised(image, gone, f, c).file = 0
         /\ f.name # 0 /\ f.name \in gone => Promised(image, gone, f, c) = NoPromise("failed")
         /\ f.name # 0 /\ ~SoundIn(image, f.name) => Promised(image, gone, f, c) = NoPromise("failed")
         /\ NoPromise("failed").file = 0
BY DEF Promised, NoPromise

(* Giving up another file changes no promise. *)
LEMMA PromisedAlike ==
  ASSUME NEW image, NEW gone, NEW more, NEW f, NEW c, f.name \in more <=> f.name \in gone
  PROVE  Promised(image, more, f, c) = Promised(image, gone, f, c)
BY DEF Promised

(* What is known of the promises, for records that do not change *)
PromisesKnown ==
  \A im, g, f, c, gone :
    (Careful /\ Holds(im) /\ g \in Handles /\ f = file[g] /\ c = now /\ gone = lost) =>
      Promise(g) = Promised(im, gone, f, OnOf(c, g))

(* It is known in every state. *)
LEMMA PromisesAlways == PromisesKnown
BY PromiseIs DEF PromisesKnown

(* So it is after a step. *)
LEMMA PromisesAfter ==
  ASSUME Careful, NEW image, Holds(image)', NEW g \in Handles
  PROVE  Promise(g)' = Promised(image, lost', file'[g], OnOf(now', g))
<1>1. PromisesKnown'
  BY PromisesAlways, PTL
<1> QED
  BY <1>1 DEF PromisesKnown

(* A write that gives its file another sector spoils it. *)
LEMMA SpoilImplemented ==
  ASSUME Careful, NEW image, Holds(image), Holds(image)', now.op = "write", now.at = "copy",
         NEW name \in Files, name = file[now.on].name, NEW buffer \in Sectors, NEW cur \in Nat \X Nat,
         NEW n, n = Transfer(End - 2, now.left),
         sect_buffer' = WriteInto(buffer, now.on, 2, n), dirty' = TRUE, PutsAt(cur, 2, n),
         UNCHANGED <<disk, current_sector>>, lost' = lost \cup {name}
  PROVE  Store!Next \/ UNCHANGED Store!vars
<1> DEFINE h == now.on
           f == file[h]
           w == WriteInto(buffer, h, 2, n)
<1>1. /\ h \in Handles /\ f.name = name /\ name # 0 /\ ~f.failed /\ now.left \in Nat \ {0}
      /\ current_sector \in Positions /\ Reaches(image, lost, name, current_sector)
  BY CopyIs, CellsIs
<1>2. n \in Nat /\ n <= now.left
  <2>1. 2 \in Nat \ {0, 1} /\ h \in Handles /\ now.left \in Nat \ {0} /\ w = WriteInto(buffer, h, 2, n)
    BY <1>1
  <2> HIDE DEF h, w
  <2> QED
    BY <2>1, PutIs
<1>3. Changes(current_sector, w)
  <2>1. Shape /\ sect_buffer' = w
    BY DEF Holds
  <2> HIDE DEF w
  <2> QED
    BY <1>1, <2>1, BufferIs DEF Changes
<1>4. /\ file'[h].name = name /\ \A k \in Handles : k # h => file'[k] = file[k]
      /\ now'.on = h
  BY <1>1, <1>2, PutBecomes
<1>5. Reaches(image, lost', name, current_sector)
  BY <1>1 DEF Reaches
<1>6. ASSUME NEW k \in Files, k # name PROVE Contents(k)' = Contents(k) /\ (Sound(k)' <=> Sound(k))
  <2> DEFINE s == current_sector
  <2>1. Changes(s, w) /\ Reaches(image, lost', name, s)
    BY <1>3, <1>5
  <2> HIDE DEF s, w
  <2>2. lost' = lost \cup {name}
    OBVIOUS
  <2> QED
    BY <1>1, <1>6, <2>1, <2>2, OthersStay
<1>7. Contents(name)' = <<>> /\ ~Sound(name)'
  <2>1. name \in lost'
    OBVIOUS
  <2> QED
    BY <1>1, <2>1, ContentsAfter DEF Stored
<1>8. ASSUME NEW g \in Handles
      PROVE  /\ file[g].name # name => Promise(g)' = Promise(g) /\ Promise(g).file # name
             /\ file[g].name = name => Promise(g)' = NoPromise("failed") /\ Promise(g).file \in {0, name}
             /\ file[g].name = name /\ (name \in lost \/ ~SoundIn(image, name)) =>
                  Promise(g) = NoPromise("failed")
  <2>1. /\ Promise(g) = Promised(image, lost, file[g], OnOf(now, g))
        /\ Promise(g)' = Promised(image, lost', file'[g], OnOf(now', g))
    BY PromiseIs, PromisesAfter
  <2>2. ASSUME file[g].name # name PROVE Promise(g)' = Promise(g) /\ Promise(g).file # name
    <3>1. g # h
      BY <2>2
    <3>2. file'[g] = file[g] /\ OnOf(now', g) = OnOf(now, g)
      BY <1>4, <3>1 DEF OnOf
    <3>3. file[g].name \in lost' <=> file[g].name \in lost
      BY <2>2
    <3>4. Promised(image, lost', file[g], OnOf(now, g)) = Promised(image, lost, file[g], OnOf(now, g))
      BY <3>3, PromisedAlike
    <3>5. Promise(g).file \in {0, file[g].name}
      BY <2>1, PromiseIsOf
    <3> QED
      BY <1>1, <2>1, <2>2, <3>2, <3>4, <3>5
  <2>3. ASSUME file[g].name = name PROVE Promise(g)' = NoPromise("failed") /\ Promise(g).file \in {0, name}
    <3>1. file'[g].name = name
      BY <1>4, <2>3
    <3>2. name \in lost'
      OBVIOUS
    <3>3. Promise(g)' = NoPromise("failed")
      BY <1>1, <2>1, <3>1, <3>2, PromiseIsOf
    <3>4. Promise(g).file \in {0, name}
      BY <2>1, <2>3, PromiseIsOf
    <3> QED
      BY <3>3, <3>4
  <2>4. ASSUME file[g].name = name, name \in lost \/ ~SoundIn(image, name)
        PROVE  Promise(g) = NoPromise("failed")
    BY <1>1, <2>1, <2>4, PromiseIsOf
  <2> QED
    BY <2>2, <2>3, <2>4
<1>9. sound' = sound \ {name} /\ Rewrites(name, <<>>)
  BY <1>1, <1>6, <1>7 DEF contents, sound, Rewrites
<1>10. NoPromise("failed").file = 0
  BY PromiseIsOf
<1>11. handles' = [g \in Handles |-> IF handles[g].file = name THEN NoPromise("failed") ELSE handles[g]]
  <2> SUFFICES ASSUME NEW g \in Handles
               PROVE  Promise(g)' = IF Promise(g).file = name THEN NoPromise("failed") ELSE Promise(g)
    BY DEF handles
  <2>1. CASE file[g].name # name
    BY <1>8, <2>1
  <2>2. CASE file[g].name = name
    <3>1. CASE Promise(g).file = name
      BY <1>8, <2>2, <3>1
    <3>2. CASE Promise(g).file # name
      <4>1. ~Kept(image, lost, file[g], OnOf(now, g))
        <5>1. Promise(g) = Promised(image, lost, file[g], OnOf(now, g))
          BY PromiseIs
        <5>2. Kept(image, lost, file[g], OnOf(now, g)) => Promise(g).file = file[g].name
          BY <1>1, <2>2, <5>1 DEF Promised, Kept
        <5> QED
          BY <2>2, <3>2, <5>2
      <4>2. Promise(g) = NoPromise("failed")
        BY <1>1, <2>2, <4>1, PromiseIs, PromisedIs
      <4> QED
        BY <1>8, <2>2, <3>2, <4>2
    <3> QED
      BY <3>1, <3>2
  <2> QED
    BY <2>1, <2>2
<1>12. CASE name \in lost \/ ~SoundIn(image, name)
  <2>1. Contents(name) = <<>> /\ ~Sound(name)
    BY <1>1, <1>12, ContentsIs DEF Stored
  <2>2. contents' = contents /\ sound' = sound
    BY <1>6, <1>7, <2>1 DEF contents, sound
  <2>3. \A g \in Handles : Promise(g)' = Promise(g)
    BY <1>8, <1>12
  <2>4. handles' = handles
    BY <2>3 DEF handles
  <2> QED
    BY <2>2, <2>4 DEF Store!vars, contents, sound, handles
<1>13. CASE ~(name \in lost \/ ~SoundIn(image, name))
  <2>1. OnOf(now, h) = now
    BY DEF OnOf
  <2>2. Kept(image, lost, f, now)
    BY <1>1, <1>13 DEF Kept
  <2>3. handles[h] = Promised(image, lost, f, now)
    BY <1>1, <2>1, PromiseIs DEF handles
  <2>4. handles[h].doing = "write" /\ handles[h].file = name
    BY <1>1, <2>2, <2>3 DEF Promised, Kept
  <2>5. Lossy /\ contents' = [contents EXCEPT ![name] = <<>>]
    BY <1>9 DEF Careful, Rewrites
  <2>6. Store!Next
    BY <1>1, <1>9, <1>11, <2>4, <2>5, StoreSpoils
  <2> QED
    BY <2>6
<1> QED
  BY <1>12, <1>13

(* WriteCopy puts bytes, goes on, fails, or gives the file up. *)
LEMMA WriteImplemented ==
  ASSUME Careful, NEW image, Holds(image), Holds(image)', NEW t \in Tasks, now.op = "write",
         now.at = "copy", WriteCopy(t, now.on)
  PROVE  Store!Next \/ UNCHANGED Store!vars
<1> DEFINE h == now.on
           f == file[h]
           link == sect_buffer.link
           new == get_next_free_sector(f.current[1])
           n == Transfer(End - f.offset, now.left)
           m == Transfer(End - 2, now.left)
           fresh == [sect_buffer EXCEPT !.link = <<0, new[2]>>]
<1>1. t = Task /\ now = call[t] /\ Shape
  BY TaskIs DEF Holds, now
<1>2. /\ f.name \in Files /\ sect_buffer \in Sectors /\ f.current \in Nat \X Nat /\ f.current[1] # 0
  BY CopyIs DEF FileRecords, Placed
<1>3. CASE /\ f.offset # End
           /\ sect_buffer' = WriteInto(sect_buffer, h, f.offset, n) /\ dirty' = TRUE
           /\ file' = [file EXCEPT ![h].current = f.current, ![h].offset = f.offset + n]
           /\ call' = [call EXCEPT ![t].left = now.left - n,
                                   ![t].at = IF now.left = n THEN "ok" ELSE "copy"]
           /\ UNCHANGED <<disk, current_sector, bam, history>>
  <2>1. UNCHANGED <<disk, current_sector>> /\ lost' = lost
    BY <1>3 DEF history
  <2>2. PutsAt(f.current, f.offset, n)
    BY <1>1, <1>3 DEF PutsAt
  <2> QED
    BY <1>3, <2>1, <2>2, PutImplemented
<1>4. CASE /\ f.offset = End /\ link[1] # 0
           /\ file' = [file EXCEPT ![h].current = link]
           /\ call' = [call EXCEPT ![t].at = "advance"]
           /\ UNCHANGED <<disk, window, bam, history>>
  BY <1>1, <1>4, AdvanceImplemented DEF history
<1>5. CASE /\ f.offset = End /\ ~MayAllocate(f.current[1])
           /\ call' = [call EXCEPT ![t].at = "error"]
           /\ UNCHANGED <<disk, window, bam, file, history>>
  BY <1>1, <1>5, FullImplemented DEF history
<1>6. CASE /\ f.offset = End /\ link[1] = 0 /\ MayAllocate(f.current[1])
           /\ bam' = bam \ {new}
           /\ sect_buffer' = WriteInto(fresh, h, 2, m) /\ dirty' = TRUE
           /\ file' = [file EXCEPT ![h].current = new, ![h].offset = 2 + m]
           /\ call' = [call EXCEPT ![t].left = now.left - m,
                                   ![t].at = IF now.left = m THEN "ok" ELSE "copy"]
           /\ lost' = lost \cup {f.name}
           /\ UNCHANGED <<disk, current_sector, ops>>
  <2>1. new \in Nat \X Nat
    <3> DEFINE track == f.current[1]
    <3>1. track \in Nat \ {0} /\ MayAllocate(track) /\ bam \subseteq Free
      BY <1>1, <1>2, <1>6 DEF Shape
    <3> HIDE DEF track
    <3>2. get_next_free_sector(track) \in Nat \X Nat
      BY <3>1, AllocatedIs
    <3> QED
      BY <3>2 DEF track
  <2>2. fresh \in Sectors
    <3> DEFINE last == new[2]
    <3>1. last \in Nat
      BY <2>1
    <3>2. fresh = [link |-> <<0, last>>, data |-> sect_buffer.data]
      BY <1>2 DEF Sectors
    <3> HIDE DEF last, new, fresh
    <3> QED
      BY <1>2, <3>1, <3>2 DEF Sectors
  <2> DEFINE buffer == fresh
             cur == new
  <2>3. PutsAt(cur, 2, m)
    BY <1>1, <1>6 DEF PutsAt
  <2>4. sect_buffer' = WriteInto(buffer, h, 2, m) /\ dirty' = TRUE /\ buffer \in Sectors
        /\ cur \in Nat \X Nat /\ m = Transfer(End - 2, now.left)
    BY <1>6, <2>1, <2>2
  <2>5. UNCHANGED <<disk, current_sector>> /\ lost' = lost \cup {f.name} /\ f.name = file[now.on].name
    <3> HIDE DEF new
    <3> QED
      BY <1>6
  <2> HIDE DEF buffer, cur, m
  <2> QED
    BY <1>2, <2>3, <2>4, <2>5, SpoilImplemented
<1>7. \/ /\ f.offset # End
         /\ sect_buffer' = WriteInto(sect_buffer, h, f.offset, n) /\ dirty' = TRUE
         /\ file' = [file EXCEPT ![h].current = f.current, ![h].offset = f.offset + n]
         /\ call' = [call EXCEPT ![t].left = now.left - n,
                                 ![t].at = IF now.left = n THEN "ok" ELSE "copy"]
         /\ UNCHANGED <<disk, current_sector, bam, history>>
      \/ /\ f.offset = End /\ link[1] # 0
         /\ file' = [file EXCEPT ![h].current = link]
         /\ call' = [call EXCEPT ![t].at = "advance"]
         /\ UNCHANGED <<disk, window, bam, history>>
      \/ /\ f.offset = End /\ ~MayAllocate(f.current[1])
         /\ call' = [call EXCEPT ![t].at = "error"]
         /\ UNCHANGED <<disk, window, bam, file, history>>
      \/ /\ f.offset = End /\ link[1] = 0 /\ MayAllocate(f.current[1])
         /\ bam' = bam \ {new}
         /\ sect_buffer' = WriteInto(fresh, h, 2, m) /\ dirty' = TRUE
         /\ file' = [file EXCEPT ![h].current = new, ![h].offset = 2 + m]
         /\ call' = [call EXCEPT ![t].left = now.left - m,
                                 ![t].at = IF now.left = m THEN "ok" ELSE "copy"]
         /\ lost' = lost \cup {f.name}
         /\ UNCHANGED <<disk, current_sector, ops>>
  BY <1>1 DEF WriteCopy
<1> QED
  BY <1>3, <1>4, <1>5, <1>6, <1>7

(****************************************************************************)
(* The refinement                                                           *)
(****************************************************************************)

(* Copy is a step of the store or changes nothing there. *)
LEMMA CopyImplemented ==
  ASSUME Careful, NEW image, Holds(image), Holds(image)', NEW t \in Tasks, Copy(t)
  PROVE  Store!Next \/ UNCHANGED Store!vars
<1>1. now = call[t]
  BY TaskIs DEF now
<1>2. now.at = "copy"
  BY <1>1 DEF Copy
<1>3. now.op \in {"read", "write", "open"}
  BY <1>2, SeekNeverCopies
<1>4. CASE now.op = "read"
  <2>1. ReadCopy(t, now.on)
    BY <1>1, <1>4 DEF Copy
  <2> QED
    BY <1>2, <1>4, <2>1, ReadImplemented
<1>5. CASE now.op = "write"
  <2>1. WriteCopy(t, now.on)
    BY <1>1, <1>5 DEF Copy
  <2> QED
    BY <1>2, <1>5, <2>1, WriteImplemented
<1>6. CASE now.op = "open"
  <2>1. OpenCopy(t, now.on)
    BY <1>1, <1>6 DEF Copy
  <2> QED
    BY <1>2, <1>6, <2>1, OpenImplemented
<1> QED
  BY <1>3, <1>4, <1>5, <1>6

(* Nothing changes in the store when nothing changes. *)
LEMMA StutterImplemented ==
  ASSUME UNCHANGED vars
  PROVE  UNCHANGED Store!vars
<1>1. UNCHANGED <<disk, window>> /\ UNCHANGED <<file, call, lost>>
  BY DEF vars, history
<1>2. View' = View
  BY <1>1 DEF View, window
<1>3. \A f : Contents(f)' = Contents(f) /\ (Sound(f)' <=> Sound(f))
  BY <1>1, <1>2 DEF Contents, Sound, Chain
<1>4. \A h : CallOn(h)' = CallOn(h)
  BY <1>1 DEF CallOn, Idle
<1>5. \A h : Pos(h)' = Pos(h)
  BY <1>1, <1>2, <1>4 DEF Pos, Chain
<1>6. \A h : Promise(h)' = Promise(h)
  BY <1>1, <1>3, <1>4, <1>5 DEF Promise
<1> QED
  BY <1>3, <1>6 DEF Store!vars

(* Every step is a step of the store or changes nothing there. *)
LEMMA StepImplemented ==
  ASSUME Careful, NEW image, Holds(image), Holds(image)', [Next]_vars
  PROVE  Store!Next \/ UNCHANGED Store!vars
<1>1. ASSUME NEW t \in Tasks, Request(t) PROVE Store!Next \/ UNCHANGED Store!vars
  <2>1. PICK h \in Handles :
          \/ \E name \in Files : StartOpen(t, h, name)
          \/ \E len \in Lengths : StartRead(t, h, len) \/ StartWrite(t, h, len)
          \/ \E pos \in Lengths : StartSeek(t, h, pos)
    BY <1>1 DEF Request
  <2>2. CASE \E name \in Files : StartOpen(t, h, name)
    BY <2>2, OpenStarts
  <2>3. CASE \E len \in Lengths : StartRead(t, h, len)
    BY <2>3, ReadStarts
  <2>4. CASE \E len \in Lengths : StartWrite(t, h, len)
    BY <2>4, WriteStarts
  <2>5. CASE \E pos \in Lengths : StartSeek(t, h, pos)
    BY <2>5, SeekImplemented
  <2> QED
    BY <2>1, <2>2, <2>3, <2>4, <2>5
<1>2. ASSUME NEW t \in Tasks, Step(t) PROVE Store!Next \/ UNCHANGED Store!vars
  BY <1>2, MoveImplemented, MoveErrorImplemented, NextSectorStutters, CopyImplemented,
     ReturnImplemented DEF Step
<1>3. ASSUME NEW h \in Handles, Close(h) PROVE Store!Next \/ UNCHANGED Store!vars
  BY <1>3, CloseImplemented
<1>4. CASE UNCHANGED vars
  BY <1>4, StutterImplemented
<1> QED
  BY <1>1, <1>2, <1>3, <1>4 DEF Next

(* At first all handles of the store are closed. *)
LEMMA InitImplemented ==
  ASSUME Init
  PROVE  Store!Init
<1>1. \A h \in Handles : file[h].name = 0
  BY DEF Init, NoFile
<1>2. \A h \in Handles : Promise(h) = NoPromise("closed")
  BY <1>1 DEF Promise
<1>3. NoPromise("closed") = Store!Closed
  BY DEF NoPromise, Store!Closed
<1> QED
  BY <1>2, <1>3 DEF Store!Init

(* For all images, bounds and numbers of files and handles: the chains of   *)
(* sectors behind the one window implement files of their own.  What a read *)
(* returns is what the image or a write put there, a write changes the next *)
(* bytes of its file and no other file (f_read, f_write, f_lseek,           *)
(* move_window).                                                            *)
THEOREM FilesImplemented == Careful /\ Spec => ImplementsFiles
<1> SUFFICES ASSUME Careful PROVE Spec => ImplementsFiles
  OBVIOUS
<1>1. Init => Store!Init
  BY InitImplemented
<1>2. IInv /\ [Next]_vars => [Store!Next]_(Store!vars)
  <2> SUFFICES ASSUME IInv, [Next]_vars PROVE [Store!Next]_(Store!vars)
    OBVIOUS
  <2>1. PICK image \in Images : Holds(image)
    BY DEF IInv
  <2>2. Holds(image)'
    BY <2>1, StepKeeps
  <2>3. Store!Next \/ UNCHANGED Store!vars
    BY <2>1, <2>2, StepImplemented
  <2> QED
    BY <2>3
<1>3. Spec => []IInv
  BY InvariantHolds
<1> QED
  BY <1>1, <1>2, <1>3, PTL DEF Spec, ImplementsFiles, Store!Spec

(****************************************************************************)
(* D64Geometry: numbers and positions of sectors                            *)
(****************************************************************************)

(* Division by the numbers of sectors that tracks have *)
LEMMA Division ==
  ASSUME NEW a \in Nat, NEW b \in {17, 18, 19, 21, 40}, NEW q, NEW r, q = a \div b, r = a % b
  PROVE  q \in Nat /\ r \in 0 .. b - 1 /\ a = b * q + r
<1>1. CASE b = 17
  BY <1>1
<1>2. CASE b = 18
  BY <1>2
<1>3. CASE b = 19
  BY <1>3
<1>4. CASE b = 21
  BY <1>4
<1>5. CASE b = 40
  BY <1>5
<1>6. QED
  BY <1>1, <1>2, <1>3, <1>4, <1>5

(* One side: the position that belongs to a number leads back to it. *)
LEMMA SideRoundTrip ==
  ASSUME NEW abs \in Nat
  PROVE  LET position == SidePosition(abs)
         IN  /\ position[1] \in Nat \ {0} /\ position[2] \in Nat
             /\ position[2] < TrackSectors(position[1] - 1)
             /\ TrackStart(position[1] - 1) + position[2] = abs
             /\ position[1] - 1 >= 30 <=> abs >= 598
             /\ abs < SideSectors => position[1] <= 35
<1>1. CASE abs < 357
  <2>1. PICK q, r : q = abs \div 21 /\ r = abs % 21
    OBVIOUS
  <2>2. q \in Nat /\ r \in 0 .. 20 /\ abs = 21 * q + r
    BY <2>1, Division
  <2>3. SidePosition(abs) = <<q + 1, r>>
    BY <1>1, <2>1 DEF SidePosition
  <2>4. q < 17 /\ TrackStart(q) = q * 21 /\ TrackSectors(q) = 21
    BY <1>1, <2>2 DEF TrackStart, TrackSectors
  <2>5. QED
    BY <1>1, <2>2, <2>3, <2>4 DEF SideSectors
<1>2. CASE abs >= 357 /\ abs < 490
  <2>1. PICK q, r : q = (abs - 357) \div 19 /\ r = (abs - 357) % 19
    OBVIOUS
  <2>2. q \in Nat /\ r \in 0 .. 18 /\ abs - 357 = 19 * q + r
    BY <1>2, <2>1, Division
  <2>3. SidePosition(abs) = <<q + 18, r>>
    BY <1>2, <2>1 DEF SidePosition
  <2>4. QED
    BY <1>2, <2>2, <2>3 DEF TrackStart, TrackSectors, SideSectors
<1>3. CASE abs >= 490 /\ abs < 598
  <2>1. PICK q, r : q = (abs - 490) \div 18 /\ r = (abs - 490) % 18
    OBVIOUS
  <2>2. q \in Nat /\ r \in 0 .. 17 /\ abs - 490 = 18 * q + r
    BY <1>3, <2>1, Division
  <2>3. SidePosition(abs) = <<q + 25, r>>
    BY <1>3, <2>1 DEF SidePosition
  <2>4. QED
    BY <1>3, <2>2, <2>3 DEF TrackStart, TrackSectors, SideSectors
<1>4. CASE abs >= 598
  <2>1. PICK q, r : q = (abs - 598) \div 17 /\ r = (abs - 598) % 17
    OBVIOUS
  <2>2. q \in Nat /\ r \in 0 .. 16 /\ abs - 598 = 17 * q + r
    BY <1>4, <2>1, Division
  <2>3. SidePosition(abs) = <<q + 31, r>>
    BY <1>4, <2>1 DEF SidePosition
  <2>4. QED
    BY <1>4, <2>2, <2>3 DEF TrackStart, TrackSectors, SideSectors
<1>5. QED
  BY <1>1, <1>2, <1>3, <1>4

(* One side: no other position has the same number. *)
LEMMA SidePositionUnique ==
  ASSUME NEW track \in Nat, NEW sector \in Nat, sector < TrackSectors(track)
  PROVE  LET abs == TrackStart(track) + sector
         IN  /\ abs \in Nat /\ SidePosition(abs) = <<track + 1, sector>>
             /\ track < 30 <=> abs < 598
             /\ track < 35 => abs < SideSectors
<1>1. CASE track < 17
  <2>1. PICK abs : abs = TrackStart(track) + sector
    OBVIOUS
  <2>2. sector < 21 /\ abs = track * 21 + sector
    BY <1>1, <2>1 DEF TrackStart, TrackSectors
  <2>3. abs < 357 /\ abs \div 21 = track /\ abs % 21 = sector
    BY <1>1, <2>2
  <2>4. QED
    BY <1>1, <2>1, <2>2, <2>3 DEF SidePosition, SideSectors
<1>2. CASE track >= 17 /\ track < 24
  <2>1. PICK abs : abs = TrackStart(track) + sector
    OBVIOUS
  <2>2. sector < 19 /\ abs - 357 = (track - 17) * 19 + sector /\ abs \in Nat
    BY <1>2, <2>1 DEF TrackStart, TrackSectors
  <2>3. abs >= 357 /\ abs < 490 /\ (abs - 357) \div 19 = track - 17 /\ (abs - 357) % 19 = sector
    BY <1>2, <2>2
  <2>4. QED
    BY <1>2, <2>1, <2>2, <2>3 DEF SidePosition, SideSectors
<1>3. CASE track >= 24 /\ track < 30
  <2>1. PICK abs : abs = TrackStart(track) + sector
    OBVIOUS
  <2>2. sector < 18 /\ abs - 490 = (track - 24) * 18 + sector /\ abs \in Nat
    BY <1>3, <2>1 DEF TrackStart, TrackSectors
  <2>3. abs >= 490 /\ abs < 598 /\ (abs - 490) \div 18 = track - 24 /\ (abs - 490) % 18 = sector
    BY <1>3, <2>2
  <2>4. QED
    BY <1>3, <2>1, <2>2, <2>3 DEF SidePosition, SideSectors
<1>4. CASE track >= 30
  <2>1. PICK abs : abs = TrackStart(track) + sector
    OBVIOUS
  <2>2. sector < 17 /\ abs - 598 = (track - 30) * 17 + sector /\ abs \in Nat
    BY <1>4, <2>1 DEF TrackStart, TrackSectors
  <2>3. abs >= 598 /\ (abs - 598) \div 17 = track - 30 /\ (abs - 598) % 17 = sector
    BY <1>4, <2>2
  <2>4. QED
    BY <1>4, <2>1, <2>2, <2>3 DEF SidePosition, SideSectors
<1>5. QED
  BY <1>1, <1>2, <1>3, <1>4
(* get_track_sector gives the position of each sector of an image that     *)
(* get_abs_sector leads back to that sector: a chain that is written in    *)
(* positions comes to the sectors it was written for.                      *)
THEOREM PositionLeadsBack ==
  ASSUME NEW mode \in Modes, NEW num \in Nat, NEW abs \in 0 .. num - 1,
         NEW position, position = get_track_sector(mode, num, abs, 0)
  PROVE  get_abs_sector(mode, num, position[1], position[2]) = abs
<1>1. CASE mode > 1
  <2>1. PICK q, r : q = abs \div 40 /\ r = abs % 40
    OBVIOUS
  <2>2. q \in Nat /\ r \in 0 .. 39 /\ abs = 40 * q + r
    BY <2>1, Division
  <2>3. position = <<q + 1, r>>
    BY <1>1, <2>1 DEF get_track_sector
  <2>4. QED
    BY <1>1, <2>2, <2>3 DEF get_abs_sector
<1>2. CASE mode = 0 \/ (mode = 1 /\ abs < SideSectors)
  <2>1. PICK side : side = SidePosition(abs)
    OBVIOUS
  <2>2. /\ side[1] \in Nat \ {0} /\ side[2] \in Nat
        /\ side[2] < TrackSectors(side[1] - 1)
        /\ TrackStart(side[1] - 1) + side[2] = abs
        /\ abs < SideSectors => side[1] <= 35
    BY <2>1, SideRoundTrip
  <2>3. position[1] = side[1] /\ position[2] = side[2]
    BY <1>2, <2>1, <2>2 DEF get_track_sector, SideSectors
  <2>4. SideSector(0, num, side[1] - 1, side[2]) = abs
    <3>1. TrackSectors(side[1] - 1) \in Int /\ TrackStart(side[1] - 1) \in Int
      BY <2>2 DEF TrackSectors, TrackStart
    <3>2. QED
      BY <2>2, <3>1 DEF SideSector
  <2>5. QED
    BY <1>2, <2>2, <2>3, <2>4 DEF get_abs_sector
<1>3. CASE mode = 1 /\ abs >= SideSectors
  <2> DEFINE rest == abs - SideSectors
  <2>1. rest \in Nat
    BY <1>3 DEF SideSectors
  <2>2. PICK side : side = SidePosition(rest)
    OBVIOUS
  <2>3. /\ side[1] \in Nat \ {0} /\ side[2] \in Nat
        /\ side[2] < TrackSectors(side[1] - 1)
        /\ TrackStart(side[1] - 1) + side[2] = rest
    BY <2>1, <2>2, SideRoundTrip
  <2>4. position[1] = side[1] + 35 /\ position[2] = side[2]
    BY <1>3, <2>2 DEF get_track_sector
  <2>5. SideSector(SideSectors, num, side[1] - 1, side[2]) = abs
    <3>1. TrackSectors(side[1] - 1) \in Int /\ TrackStart(side[1] - 1) \in Int
      BY <2>3 DEF TrackSectors, TrackStart
    <3>2. SideSectors + TrackStart(side[1] - 1) + side[2] = abs
      BY <2>1, <2>3, <3>1 DEF SideSectors
    <3>3. QED
      BY <2>3, <3>1, <3>2 DEF SideSector
  <2>6. (side[1] + 35) - 36 = side[1] - 1 /\ side[1] + 35 > 35
    BY <2>3
  <2>7. QED
    BY <1>3, <2>3, <2>4, <2>5, <2>6 DEF get_abs_sector
<1>4. QED
  BY <1>1, <1>2, <1>3 DEF Modes, SideSectors

(* In an image of a whole side or more a position that get_abs_sector takes is of a sector *)
(* of the image, and of one that no other position stands for: two chains  *)
(* that differ never meet in a sector of the file.                         *)
THEOREM SectorLeadsBack ==
  ASSUME NEW num \in Nat, num >= SideSectors, NEW mode, mode = mode_of(num),
         NEW track \in Nat, NEW sector \in Nat,
         NEW abs, abs = get_abs_sector(mode, num, track, sector), abs # NoSector
  PROVE  abs \in 0 .. num - 1 /\ get_track_sector(mode, num, abs, 0) = <<track, sector>>
<1>1. track > 0 /\ num >= 683 /\ mode \in Modes /\ (mode = 1 => num >= 1366)
  BY DEF get_abs_sector, SideSectors, mode_of, Modes
<1>2. CASE mode > 1
  <2>1. sector < 40 /\ abs = (track - 1) * 40 + sector /\ abs < num
    BY <1>1, <1>2 DEF get_abs_sector
  <2>2. abs \in 0 .. num - 1 /\ abs \div 40 = track - 1 /\ abs % 40 = sector
    BY <1>1, <2>1
  <2>3. QED
    BY <1>1, <1>2, <2>2 DEF get_track_sector
<1>3. CASE mode = 0 \/ (mode = 1 /\ track <= 35)
  <2>1. abs = SideSector(0, num, track - 1, sector) /\ track - 1 \in Nat
    BY <1>1, <1>3 DEF get_abs_sector
  <2>2. TrackSectors(track - 1) \in Int /\ TrackStart(track - 1) \in Nat
    BY <2>1 DEF TrackSectors, TrackStart
  <2>3. /\ sector < TrackSectors(track - 1) /\ abs = TrackStart(track - 1) + sector
        /\ track - 1 >= 30 => abs < num
    BY <2>1, <2>2 DEF SideSector
  <2>4. /\ abs \in Nat /\ SidePosition(abs) = <<(track - 1) + 1, sector>>
        /\ track - 1 < 30 <=> abs < 598
        /\ track - 1 < 35 => abs < SideSectors
    BY <2>1, <2>3, SidePositionUnique
  <2>5. abs \in 0 .. num - 1 /\ (mode = 1 => abs < SideSectors)
    BY <1>1, <1>3, <2>1, <2>3, <2>4
  <2>6. QED
    BY <1>1, <1>3, <2>4, <2>5 DEF get_track_sector, SideSectors
<1>4. CASE mode = 1 /\ track > 35
  <2>1. abs = SideSector(SideSectors, num, track - 36, sector) /\ track - 36 \in Nat
    BY <1>4 DEF get_abs_sector
  <2>2. TrackSectors(track - 36) \in Int /\ TrackStart(track - 36) \in Nat
    BY <2>1 DEF TrackSectors, TrackStart
  <2>3. /\ sector < TrackSectors(track - 36)
        /\ abs = SideSectors + TrackStart(track - 36) + sector
        /\ track - 36 >= 30 => abs < num
    BY <2>1, <2>2 DEF SideSector, SideSectors
  <2>4. PICK rest : rest = TrackStart(track - 36) + sector
    OBVIOUS
  <2>5. /\ rest \in Nat /\ SidePosition(rest) = <<(track - 36) + 1, sector>>
        /\ track - 36 < 30 <=> rest < 598
    BY <2>1, <2>3, <2>4, SidePositionUnique
  <2>6. abs = 683 + rest /\ abs >= 683
    BY <2>2, <2>3, <2>4, <2>5 DEF SideSectors
  <2>7. abs \in 0 .. num - 1
    <3>1. CASE track - 36 < 30
      BY <1>1, <1>4, <2>5, <2>6, <3>1
    <3>2. CASE ~(track - 36 < 30)
      BY <2>1, <2>3, <2>5, <2>6, <3>2
    <3>3. QED
      BY <3>1, <3>2
  <2>8. abs - SideSectors = rest /\ ~(abs < SideSectors)
    BY <2>5, <2>6 DEF SideSectors
  <2>9. QED
    BY <1>4, <2>5, <2>6, <2>7, <2>8 DEF get_track_sector, SideSectors
<1>5. QED
  BY <1>1, <1>2, <1>3, <1>4 DEF Modes
===============================================================================
