----------------------------- MODULE D64Geometry ------------------------------
(****************************************************************************)
(* The numbering of sectors in FileSystemD64 (filesystem_d64.cc): a chain   *)
(* on the disk names its sectors by track and sector, the image file is     *)
(* addressed by the number of the sector.  Mode 0 is a D64, mode 1 a D71    *)
(* with a second side like the first, mode 2 a D81.                         *)
(****************************************************************************)
EXTENDS Integers

Modes == 0 .. 2
NoSector == -1

(* Sectors before a track of the first 35, and of the track itself. *)
SideSectors == 683
TrackStart(track) ==
  CASE track < 17 -> track * 21
    [] track >= 17 /\ track < 24 -> 17 * 21 + (track - 17) * 19
    [] track >= 24 /\ track < 30 -> 17 * 21 + 7 * 19 + (track - 24) * 18
    [] track >= 30 -> 17 * 21 + 7 * 19 + 6 * 18 + (track - 30) * 17
TrackSectors(track) ==
  CASE track < 17 -> 21
    [] track >= 17 /\ track < 24 -> 19
    [] track >= 24 /\ track < 30 -> 18
    [] track >= 30 -> 17

(* Of a track of one side, counted from 0.  Only the last zone is compared *)
(* with the size of the image.                                             *)
SideSector(first, num_sectors, track, sector) ==
  LET result == first + TrackStart(track) + sector
  IN  IF sector >= TrackSectors(track) \/ (track >= 30 /\ result >= num_sectors)
      THEN NoSector ELSE result

get_abs_sector(image_mode, num_sectors, track, sector) ==
  CASE track <= 0 -> NoSector
    [] track > 0 /\ image_mode > 1 ->
         IF sector >= 40 \/ (track - 1) * 40 + sector >= num_sectors
         THEN NoSector ELSE (track - 1) * 40 + sector
    [] track > 0 /\ image_mode = 1 /\ track > 35 ->
         SideSector(SideSectors, num_sectors, track - 36, sector)
    [] track > 0 /\ (image_mode = 0 \/ (image_mode = 1 /\ track <= 35)) ->
         SideSector(0, num_sectors, track - 1, sector)

(* The track, counted from 1, and the sector of sector `abs` of one side. *)
SidePosition(abs) ==
  CASE abs < 357 -> <<abs \div 21 + 1, abs % 21>>
    [] abs >= 357 /\ abs < 490 -> <<(abs - 357) \div 19 + 18, (abs - 357) % 19>>
    [] abs >= 490 /\ abs < 598 -> <<(abs - 490) \div 18 + 25, (abs - 490) % 18>>
    [] abs >= 598 -> <<(abs - 598) \div 17 + 31, (abs - 598) % 17>>

(* A position <<track, sector>>, or <<>> for false.  In mode 0 the track is *)
(* added to what the variable of the caller held before.                    *)
get_track_sector(image_mode, num_sectors, abs, before) ==
  CASE abs < 0 \/ abs >= num_sectors -> <<>>
    [] abs \in 0 .. num_sectors - 1 /\ image_mode > 1 -> <<abs \div 40 + 1, abs % 40>>
    [] abs \in 0 .. num_sectors - 1 /\ image_mode = 1 ->
         IF abs >= SideSectors
         THEN <<SidePosition(abs - SideSectors)[1] + 35, SidePosition(abs - SideSectors)[2]>>
         ELSE SidePosition(abs)
    [] abs \in 0 .. num_sectors - 1 /\ image_mode = 0 ->
         <<SidePosition(abs)[1] + before, SidePosition(abs)[2]>>

(* The number of sectors says which image it is. *)
mode_of(num_sectors) == IF num_sectors >= 3200 THEN 2 ELSE IF num_sectors >= 1366 THEN 1 ELSE 0
=============================================================================
