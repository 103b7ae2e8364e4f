----------------------------- MODULE ConfigDrive -----------------------------
(***************************************************************************)
(* buildCidataImage (internal/pkg/provider/cidata.go): the geometry of a   *)
(* FAT16 volume, found by iteration, and the files, long names and cluster *)
(* chains written into it.  The image is a function from byte offsets to   *)
(* what was written there: the boot sector, a copy of the FAT, a directory *)
(* entry or one cluster's share of a file.                                 *)
(***************************************************************************)
EXTENDS Integers, Sequences, FiniteSets

CONSTANTS
  Drives,  \* dimensions of a drive: the source's constants, or other ones
  Sizes    \* how long the contents may be, in bytes                (a bound)

ReservedSectors == 1
NumFATs == 2
EntryBytes == 32
CharsPerEntry == 13
Word == 65536                 \* cluster numbers and FAT entries are uint16
EndOfChain == Word - 1

Ceil(n, k) == (n + k - 1) \div k

(* computeCidataGeometry, for a drive d whose FAT has s sectors.           *)
DataSectors(d, s) == d.totalSectors - ReservedSectors - NumFATs * s
                       - (d.rootEntries * EntryBytes) \div d.bytesPerSector
Clusters(d, s) == DataSectors(d, s) \div d.sectorsPerCluster

(* Mutant: clusters 0 and 1 have no entry. *)
NeededWithoutReserved(d, s) == Ceil(Clusters(d, s) * 2, d.bytesPerSector)

Needed(d, s) == Ceil((Clusters(d, s) + 2) * 2, d.bytesPerSector)
FatOffset(d) == ReservedSectors * d.bytesPerSector
RootOffset(d, s) == (ReservedSectors + NumFATs * s) * d.bytesPerSector
DataOffset(d, s) == RootOffset(d, s) + d.rootEntries * EntryBytes
ClusterSize(d) == d.sectorsPerCluster * d.bytesPerSector
FatEntries(d, s) == (s * d.bytesPerSector) \div 2
Bytes(d) == d.totalSectors * d.bytesPerSector

Drive == [bytesPerSector : Nat \ {0}, sectorsPerCluster : Nat \ {0},
          rootEntries : Nat \ {0}, totalSectors : Nat \ {0}]

(* The root directory is whole sectors, sectors are of even size, and      *)
(* there is room for the areas before the data.                            *)
ASSUME ConfigDriveAssumption ==
  /\ Drives \subseteq Drive
  /\ Sizes \subseteq Nat
  /\ \A d \in Drives :
       /\ d.bytesPerSector % 2 = 0
       /\ (d.rootEntries * EntryBytes) % d.bytesPerSector = 0
       /\ DataSectors(d, 1) >= 0 /\ DataSectors(d, Needed(d, 1)) >= 0

(* The dimensions fit their fields of the boot sector, and every cluster   *)
(* has a number of 16 bits (cidata.go:30-39).                              *)
ASSUME FieldsAssumption ==
  \A d \in Drives :
    /\ d.bytesPerSector < Word /\ d.sectorsPerCluster < 256
    /\ d.rootEntries < Word /\ Clusters(d, 1) + 2 < Word

files == << [longName |-> "user-data",      chars |->  9, shortName |-> "USER-D~1"],
            [longName |-> "meta-data",      chars |->  9, shortName |-> "META-D~1"],
            [longName |-> "network-config", chars |-> 14, shortName |-> "NETWOR~1"] >>

VARIABLES
  drive,        \* the dimensions the image is built with
  size,         \* the length of each file's content
  pc,           \* "geometry", "files", "done", or "failed": an error returned
  spf,          \* sectors per FAT
  file,         \* the file that is written next
  nextCluster,
  dirIndex,
  fat,          \* the FAT in memory: the entries set so far
  img           \* the image: what was written at which offset

vars == <<drive, size, pc, spf, file, nextCluster, dirIndex, fat, img>>
input == <<drive, size>>

Init ==
  /\ drive \in Drives /\ size \in [1..Len(files) -> Sizes]
  /\ pc = "geometry" /\ spf = 1
  /\ file = 1 /\ nextCluster = 2 /\ dirIndex = 0
  /\ fat = <<>> /\ img = <<>>

-----------------------------------------------------------------------------
(* The loop of computeCidataGeometry.                                      *)

(* Mutant: the FAT grows by a sector at a time. *)
GrowsByOne ==
  /\ pc = "geometry" /\ Needed(drive, spf) > spf
  /\ spf' = spf + 1
  /\ UNCHANGED <<input, pc, file, nextCluster, dirIndex, fat, img>>

Grow ==
  /\ pc = "geometry" /\ Needed(drive, spf) > spf
  /\ spf' = Needed(drive, spf)
  /\ UNCHANGED <<input, pc, file, nextCluster, dirIndex, fat, img>>

(* writeCidataBootSector: what a driver learns the layout from.            *)
BootSector ==
  [bytesPerSector |-> drive.bytesPerSector % Word,
   sectorsPerCluster |-> drive.sectorsPerCluster % 256,
   reservedSectors |-> ReservedSectors, numFATs |-> NumFATs,
   rootEntries |-> drive.rootEntries % Word,
   totalSectors |-> drive.totalSectors % Word, sectorsPerFAT |-> spf % Word]

DirEntry(attr, name, start, n) ==
  [attr |-> attr, name |-> name, cluster |-> start, size |-> n]
LongEntry(f, seq, last) ==
  [attr |-> "long", name |-> f.longName, seq |-> seq, last |-> last,
   checksum |-> f.shortName]

EntryAt(i) == RootOffset(drive, spf) + i * EntryBytes
ClusterAt(c) == DataOffset(drive, spf) + (c - 2) * ClusterSize(drive)

(* What is written over what was there before.                             *)
Over(new, old) == [o \in DOMAIN new \cup DOMAIN old |->
                     IF o \in DOMAIN new THEN new[o] ELSE old[o]]

(* The boot sector, the volume label and the FAT's first two entries.      *)
StartsImage ==
  /\ img' = [o \in {0, EntryAt(0)} |->
               IF o = 0 THEN BootSector ELSE DirEntry("label", "cidata", 0, 0)]
  /\ dirIndex' = 1
  /\ fat' = [c \in {0, 1} |-> IF c = 0 THEN Word - 8 ELSE EndOfChain]

(* Mutant: a FAT that fits exactly does not end the loop. *)
SettlesBelow ==
  /\ pc = "geometry" /\ Needed(drive, spf) < spf
  /\ pc' = "files"
  /\ StartsImage
  /\ UNCHANGED <<input, spf, file, nextCluster>>

Settles ==
  /\ pc = "geometry" /\ Needed(drive, spf) <= spf
  /\ pc' = "files"
  /\ StartsImage
  /\ UNCHANGED <<input, spf, file, nextCluster>>

-----------------------------------------------------------------------------
(* The loop over the files.                                                *)
Writing == pc = "files" /\ file <= Len(files)
Count == Ceil(size[file], ClusterSize(drive))
Chain == {(nextCluster + i) % Word : i \in 0..Count - 1}
LfnEntries(f) == Ceil(f.chars, CharsPerEntry)

(* Mutant: only the FAT limits the chain. *)
FitsFAT(c) == c < FatEntries(drive, spf)

(* Mutant: the last cluster of the image is not used. *)
FitsBeforeEnd(c) == /\ c < FatEntries(drive, spf)
                    /\ ClusterAt(c) + ClusterSize(drive) < Bytes(drive)

Fits(c) == /\ c < FatEntries(drive, spf)
           /\ ClusterAt(c) + ClusterSize(drive) <= Bytes(drive)

EntriesFit == dirIndex + LfnEntries(files[file]) < drive.rootEntries

SkipEmpty ==
  /\ Writing /\ size[file] = 0
  /\ file' = file + 1
  /\ UNCHANGED <<input, pc, spf, nextCluster, dirIndex, fat, img>>

(* Mutant: the long-name entries are stored in ascending order. *)
AscendingEntries(f) ==
  [i \in 0..LfnEntries(f) |->
     IF i < LfnEntries(f) THEN LongEntry(f, i + 1, i + 1 = LfnEntries(f))
     ELSE DirEntry("file", f.shortName, nextCluster, size[file])]

(* The long-name entries, the highest first, and then the short entry.     *)
Entries(f) ==
  LET n == LfnEntries(f)
  IN [i \in 0..n |->
        IF i < n THEN LongEntry(f, n - i, i = 0)
        ELSE DirEntry("file", f.shortName, nextCluster, size[file])]

WriteFile ==
  /\ Writing /\ size[file] # 0
  /\ \A c \in Chain : Fits(c)
  /\ EntriesFit
  /\ LET entries == Entries(files[file])
         contents == [o \in {ClusterAt(c) : c \in Chain} |->
                       [file |-> file,
                        chunk |-> (o - ClusterAt(nextCluster)) \div ClusterSize(drive) + 1]]
         listing == [o \in {EntryAt(dirIndex + i) : i \in DOMAIN entries} |->
                       entries[(o - EntryAt(dirIndex)) \div EntryBytes]]
     IN /\ img' = Over(contents, Over(listing, img))
        /\ dirIndex' = dirIndex + LfnEntries(files[file]) + 1
  /\ LET last == (nextCluster + Count - 1) % Word
     IN fat' = Over([c \in Chain |-> IF c = last THEN EndOfChain ELSE c + 1], fat)
  /\ nextCluster' = (nextCluster + Count) % Word
  /\ file' = file + 1
  /\ UNCHANGED <<input, pc, spf>>

(* "cidata image too small", "too many files for the cidata root directory" *)
Fails ==
  /\ Writing /\ size[file] # 0
  /\ (\E c \in Chain : ~Fits(c)) \/ ~EntriesFit
  /\ pc' = "failed"
  /\ UNCHANGED <<input, spf, file, nextCluster, dirIndex, fat, img>>

WriteFATs ==
  /\ pc = "files" /\ file > Len(files)
  /\ img' = Over([o \in {FatOffset(drive) + i * spf * drive.bytesPerSector :
                          i \in 0..NumFATs - 1} |-> fat], img)
  /\ pc' = "done"
  /\ UNCHANGED <<input, spf, file, nextCluster, dirIndex, fat>>

Next == Grow \/ Settles \/ SkipEmpty \/ WriteFile \/ Fails \/ WriteFATs
Spec == Init /\ [][Next]_vars
FairSpec == Spec /\ WF_vars(Next)

-----------------------------------------------------------------------------
(* A driver that mounts the image: it knows only the image, and takes the  *)
(* layout from its boot sector (readCidataRoot in cidata_test.go).         *)
Nothing == [attr |-> "none", file |-> 0]
At(o) == IF o \in DOMAIN img THEN img[o] ELSE Nothing
Boot == img[0]
RootStart == (Boot.reservedSectors + Boot.numFATs * Boot.sectorsPerFAT)
               * Boot.bytesPerSector
Root(k) == At(RootStart + k * EntryBytes)
Cluster(c) == At(RootStart + Boot.rootEntries * EntryBytes
                   + (c - 2) * Boot.sectorsPerCluster * Boot.bytesPerSector)
FatCopy(i) == At((Boot.reservedSectors + i * Boot.sectorsPerFAT)
                   * Boot.bytesPerSector)

(* The entries before the first unused one that are files.                 *)
Listed == {k \in 0..Boot.rootEntries - 1 :
             /\ Root(k).attr = "file"
             /\ \A j \in 0..k : Root(j).attr # "none"}

(* The entries before k spell a long name whose checksum is k's own.       *)
HasName(k, f) ==
  LET n == LfnEntries(f)
  IN n <= k /\ \A j \in 1..n :
       Root(k - j) = [attr |-> "long", name |-> f.longName, seq |-> j,
                      last |-> j = n, checksum |-> Root(k).name]

(* The first n clusters of the chain from c on, by a copy of the FAT.      *)
Follow(copy, c, n) ==
  LET chain[i \in 1..n] == IF i = 1 THEN c
        ELSE LET b == chain[i - 1] IN IF b \in DOMAIN copy THEN copy[b] ELSE 0
  IN chain

(* What is read at entry k, by any copy of the FAT, is file f: all of its  *)
(* chunks in order, and the chain ends with them.                          *)
HasContent(k, f) ==
  LET n == Ceil(Root(k).size, Boot.sectorsPerCluster * Boot.bytesPerSector)
      entries == (Boot.sectorsPerFAT * Boot.bytesPerSector) \div 2
  IN /\ Root(k).size = size[f]
     /\ \A i \in 0..Boot.numFATs - 1 :
          LET copy == FatCopy(i)
              chain == Follow(copy, Root(k).cluster, n)
          IN /\ \A j \in 1..n :
                  /\ chain[j] \in 2..entries - 1
                  /\ Cluster(chain[j]) = [file |-> f, chunk |-> j]
             /\ copy[chain[n]] >= Word - 8

-----------------------------------------------------------------------------
(* Properties.                                                             *)

(* Every variable has its type, and nothing is written outside its area:   *)
(* in Go that is a panic, or a directory that runs into the data.          *)
TypeOK ==
  /\ drive \in Drives /\ size \in [1..Len(files) -> Sizes]
  /\ pc \in {"geometry", "files", "done", "failed"}
  /\ spf \in Nat \ {0} /\ spf < Word
  /\ file \in 1..Len(files) + 1
  /\ nextCluster \in 2..Word - 1
  /\ dirIndex \in 0..drive.rootEntries
  /\ DOMAIN fat \subseteq 0..FatEntries(drive, spf) - 1
  /\ DOMAIN img \subseteq 0..Bytes(drive) - 1

(* "Solving the dependency here keeps the geometry correct if the image    *)
(* size or cluster size is ever changed" (cidata.go:55): the FAT has an    *)
(* entry for every cluster, and the areas follow each other and fill the   *)
(* image up to less than a cluster.                                        *)
Geometry(d, s) ==
  /\ FatEntries(d, s) >= Clusters(d, s) + 2
  /\ FatOffset(d) + NumFATs * s * d.bytesPerSector <= RootOffset(d, s)
  /\ DataOffset(d, s) + Clusters(d, s) * ClusterSize(d) <= Bytes(d)
  /\ DataOffset(d, s) + (Clusters(d, s) + 1) * ClusterSize(d) > Bytes(d)
GeometryFits == pc # "geometry" => Geometry(drive, spf)

(* The FAT is resized once at most: the size found by the first round of   *)
(* the loop is enough for the fewer clusters it leaves.                    *)
ResizedOnce == [][spf' # spf => Needed(drive, spf') <= spf']_vars

(* A driver that mounts a finished image finds every file that has content *)
(* under its long name, with its content, and no other file.               *)
ReadsBack ==
  pc = "done" =>
    LET present == {f \in DOMAIN files : size[f] # 0}
    IN /\ \A f \in present :
            \E k \in Listed : HasName(k, files[f]) /\ HasContent(k, f)
       /\ Cardinality(Listed) = Cardinality(present)

(* Contents are refused only when they do not fit, all of them together,   *)
(* into the clusters or the directory there are.                           *)
Total(q) == LET sum[i \in 0..Len(files)] ==
                  IF i = 0 THEN 0
                  ELSE sum[i - 1] + (IF size[i] = 0 THEN 0 ELSE q[i])
            IN sum[Len(files)]
RefusedOnlyIfFull ==
  pc = "failed" =>
    \/ Total([i \in DOMAIN files |-> Ceil(size[i], ClusterSize(drive))])
         > Clusters(drive, spf)
    \/ 1 + Total([i \in DOMAIN files |-> LfnEntries(files[i]) + 1])
         > drive.rootEntries

(* The geometry's loop ends, and with it the building.                     *)
Terminates == <>(pc \in {"done", "failed"})
=============================================================================
