---------------------------- MODULE MCConfigDrive ----------------------------
(* Drives for TLC: the one the source builds, and small ones whose sizes   *)
(* cross the points where the FAT grows by a sector.                       *)
EXTENDS ConfigDrive

SourceDrive == [bytesPerSector |-> 512, sectorsPerCluster |-> 4,
                rootEntries |-> 512, totalSectors |-> 24576]
SmallDrives ==
  [bytesPerSector : {64}, sectorsPerCluster : {1, 2}, rootEntries : {4, 8},
   totalSectors : 8..12 \cup 36..42 \cup 70..76]
AllDrives == SmallDrives \cup {SourceDrive}
=============================================================================
