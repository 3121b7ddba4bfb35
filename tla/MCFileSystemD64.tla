--------------------------- MODULE MCFileSystemD64 ----------------------------
(* A small D71: files of two sectors (1), of one full or empty sector (2),  *)
(* and one that leads back to itself or to nowhere (3); the start of a      *)
(* fourth is no sector.  The directory ends, or it leads back to itself and *)
(* lists only some of the names.                                            *)
EXTENDS FileSystemD64, D64Geometry, TLC

Sector(link, data) == [link |-> link, data |-> data]
MCStartOf == <<<<17, 0>>, <<17, 2>>, <<17, 3>>, <<0, 7>>>>
MCFree == {<<0, 0>>, <<17, 1>>}

Image(directory, second, third) ==
  <<18, 0>> :> Sector(<<18, 1>>, <<0, 0>>)
  @@ <<18, 1>> :> directory
  @@ <<18, 2>> :> Sector(<<0, 3>>, <<2, 3>>)
  @@ <<17, 0>> :> Sector(<<16, 5>>, <<11, 12>>)
  @@ <<16, 5>> :> Sector(<<0, 2>>, <<13, 0>>)
  @@ <<17, 2>> :> second
  @@ <<17, 3>> :> Sector(third, <<31, 32>>)
  @@ <<17, 1>> :> Sector(<<0, 1>>, <<0, 0>>)
Whole == Image(Sector(<<18, 2>>, <<4, 1>>), Sector(<<0, 3>>, <<21, 22>>), <<17, 3>>)
Damaged == Image(Sector(<<18, 1>>, <<2, 3>>), Sector(<<0, 1>>, <<0, 0>>), <<99, 0>>)
MCImages == {Whole, Damaged}
MCPositions == DOMAIN Whole

(* The run in which files may be spoiled meets what the proofs assume. *)
ASSUME FilesAreSeparate == SeparateFiles
ASSUME RunIsCareful == Lossy => Careful

(* The positions are sectors of a D71.  In images of every kind and of odd *)
(* sizes, each number stands for one position and each position of the     *)
(* image for one number.                                                   *)
NumSectors == {0, 1, 170, 683, 768, 802, 1000, 1366, 3200}
ASSUME PositionsExist ==
  \A p \in MCPositions : get_abs_sector(Mode, 1366, p[1], p[2]) # NoSector
ASSUME GeometryChecked ==
  \A num \in NumSectors :
    /\ \A abs \in 0 .. num - 1 :
         LET p == get_track_sector(mode_of(num), num, abs, 0)
         IN  get_abs_sector(mode_of(num), num, p[1], p[2]) = abs
    /\ num >= 683 =>
         \A track \in 0 .. 99, sector \in 0 .. 45 :
           LET abs == get_abs_sector(mode_of(num), num, track, sector)
           IN  abs # NoSector => get_track_sector(mode_of(num), num, abs, 0) = <<track, sector>>
=============================================================================
