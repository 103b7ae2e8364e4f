-------------------------- MODULE ConfigDriveProofs --------------------------
(***************************************************************************)
(* A config drive of any dimensions that satisfy the assumptions, with     *)
(* contents of any lengths.  The loop resizes the FAT at most once, and    *)
(* ends with a FAT that covers the clusters and areas that fill the image; *)
(* what is written then stays in its area, is refused only when it is too  *)
(* much, and is what a driver reads.                                       *)
(***************************************************************************)
EXTENDS ConfigDrive, FiniteSetTheorems, TLAPS

(* The quotient of a by k, bounded by products.                            *)
LEMMA Quotient ==
  ASSUME NEW a \in Int, NEW k \in Nat \ {0}
  PROVE  /\ a \div k \in Int
         /\ k * (a \div k) <= a
         /\ a < k * (a \div k) + k
BY SMT

LEMMA Monotonic ==
  ASSUME NEW k \in Nat \ {0}, NEW a \in Int, NEW b \in Int, a <= b
  PROVE  k * a <= k * b
BY SMT

LEMMA Cancels ==
  ASSUME NEW k \in Nat \ {0}, NEW a \in Int, NEW b \in Int, k * a < k * b + k
  PROVE  a <= b
<1>1. SUFFICES ASSUME b + 1 <= a PROVE FALSE
  OBVIOUS
<1>2. k * (b + 1) <= k * a
  BY <1>1, Monotonic
<1>3. k * (b + 1) = k * b + k
  BY SMT
<1> QED
  BY <1>2, <1>3

(* Division by the same divisor keeps the order.                           *)
LEMMA QuotientMonotonic ==
  ASSUME NEW a \in Int, NEW b \in Int, NEW k \in Nat \ {0}, a <= b
  PROVE  a \div k <= b \div k
<1>1. k * (a \div k) < k * (b \div k) + k
  BY Quotient
<1> QED
  BY <1>1, Quotient, Cancels

-----------------------------------------------------------------------------
(* The numbers the geometry is computed from.                              *)
LEMMA Dimensions ==
  ASSUME NEW d \in Drives, NEW s \in Nat
  PROVE  /\ d.bytesPerSector \in Nat \ {0} /\ d.sectorsPerCluster \in Nat \ {0}
         /\ d.rootEntries \in Nat \ {0} /\ d.totalSectors \in Nat \ {0}
         /\ DataSectors(d, s) \in Int /\ Clusters(d, s) \in Int
         /\ Needed(d, s) \in Int
         /\ d.bytesPerSector * ((d.rootEntries * EntryBytes) \div d.bytesPerSector)
              = d.rootEntries * EntryBytes
<1>1. /\ d.bytesPerSector \in Nat \ {0} /\ d.sectorsPerCluster \in Nat \ {0}
      /\ d.rootEntries \in Nat \ {0} /\ d.totalSectors \in Nat \ {0}
      /\ (d.rootEntries * EntryBytes) % d.bytesPerSector = 0
  BY ConfigDriveAssumption DEF Drive
<1>2. d.rootEntries * EntryBytes \in Nat
  BY <1>1 DEF EntryBytes
<1>3. (d.rootEntries * EntryBytes) \div d.bytesPerSector \in Int
  BY <1>1, <1>2, Quotient
<1>4. DataSectors(d, s) \in Int
  BY <1>1, <1>3 DEF DataSectors, ReservedSectors, NumFATs
<1>5. Clusters(d, s) \in Int
  BY <1>1, <1>4, Quotient DEF Clusters
<1>6. (Clusters(d, s) + 2) * 2 + d.bytesPerSector - 1 \in Int
  BY <1>1, <1>5
<1>7. Needed(d, s) \in Int
  BY <1>1, <1>6, Quotient DEF Needed, Ceil
<1>8. d.bytesPerSector * ((d.rootEntries * EntryBytes) \div d.bytesPerSector)
        = d.rootEntries * EntryBytes
  <2> DEFINE a == d.rootEntries * EntryBytes
             k == d.bytesPerSector
  <2>1. a \in Nat /\ k \in Nat \ {0} /\ a % k = 0
    BY <1>1, <1>2
  <2> HIDE DEF a, k
  <2>2. k * (a \div k) = a
    BY <2>1, SMT
  <2> QED
    BY <2>2 DEF a, k
<1> QED
  BY <1>1, <1>4, <1>5, <1>7, <1>8

(* A larger FAT leaves fewer clusters, which need no larger a FAT.         *)
LEMMA ClustersAntitone ==
  ASSUME NEW d \in Drives, NEW s \in Nat, NEW t \in Nat, s <= t
  PROVE  Clusters(d, t) <= Clusters(d, s)
<1>1. DataSectors(d, t) <= DataSectors(d, s)
  <2> DEFINE r == (d.rootEntries * EntryBytes) \div d.bytesPerSector
  <2>1. r \in Int /\ d.totalSectors \in Int
    BY Dimensions, Quotient DEF EntryBytes
  <2> HIDE DEF r
  <2>2. d.totalSectors - 1 - 2 * t - r <= d.totalSectors - 1 - 2 * s - r
    BY <2>1
  <2> QED
    BY <2>2 DEF r, DataSectors, ReservedSectors, NumFATs
<1> QED
  BY <1>1, Dimensions, QuotientMonotonic DEF Clusters

LEMMA NeededAntitone ==
  ASSUME NEW d \in Drives, NEW s \in Nat, NEW t \in Nat, s <= t
  PROVE  Needed(d, t) <= Needed(d, s)
<1>1. Clusters(d, t) <= Clusters(d, s)
  BY ClustersAntitone
<1>2. (Clusters(d, t) + 2) * 2 + d.bytesPerSector - 1
        <= (Clusters(d, s) + 2) * 2 + d.bytesPerSector - 1
  BY <1>1, Dimensions
<1>3. /\ (Clusters(d, t) + 2) * 2 + d.bytesPerSector - 1 \in Int
      /\ (Clusters(d, s) + 2) * 2 + d.bytesPerSector - 1 \in Int
  BY Dimensions
<1> QED
  BY <1>2, <1>3, Dimensions, QuotientMonotonic DEF Needed, Ceil

(* A FAT no smaller than needed has an entry for every cluster.            *)
LEMMA Covers ==
  ASSUME NEW d \in Drives, NEW s \in Nat, Needed(d, s) <= s
  PROVE  FatEntries(d, s) >= Clusters(d, s) + 2
<1> DEFINE b == d.bytesPerSector
           n == (Clusters(d, s) + 2) * 2
<1>1. b \in Nat \ {0} /\ n \in Int /\ n + b - 1 \in Int
  BY Dimensions
<1>2. n + b - 1 < b * Needed(d, s) + b
  BY <1>1, Quotient DEF Needed, Ceil
<1>3. b * Needed(d, s) <= b * s
  BY <1>1, Dimensions, Monotonic
<1>4. n <= s * b
  <2>1. b * Needed(d, s) \in Int /\ b * s \in Int /\ b * s = s * b
    BY <1>1, Dimensions
  <2> HIDE DEF n, b
  <2> QED
    BY <1>1, <1>2, <1>3, <2>1
<1>5. n \div 2 <= (s * b) \div 2
  <2>1. s * b \in Int
    BY <1>1
  <2> HIDE DEF n, b
  <2> QED
    BY <1>1, <1>4, <2>1, QuotientMonotonic
<1>6. n \div 2 = Clusters(d, s) + 2
  BY Dimensions
<1>7. (s * b) \div 2 \in Int
  BY <1>1
<1> QED
  BY <1>5, <1>6, <1>7, Dimensions DEF FatEntries

(* The areas follow each other up to the end of the image, whatever the    *)
(* size of the FAT.                                                        *)
LEMMA Fills ==
  ASSUME NEW d \in Drives, NEW s \in Nat
  PROVE  /\ FatOffset(d) + NumFATs * s * d.bytesPerSector <= RootOffset(d, s)
         /\ DataOffset(d, s) + Clusters(d, s) * ClusterSize(d) <= Bytes(d)
         /\ DataOffset(d, s) + (Clusters(d, s) + 1) * ClusterSize(d) > Bytes(d)
<1> DEFINE b == d.bytesPerSector
           p == d.sectorsPerCluster
           c == Clusters(d, s)
           m == DataSectors(d, s)
           r == (d.rootEntries * EntryBytes) \div b
           t == d.totalSectors
<1>1. /\ b \in Nat \ {0} /\ p \in Nat \ {0} /\ c \in Int /\ m \in Int
      /\ t \in Nat /\ d.rootEntries \in Nat
  BY Dimensions
<1>2. r \in Int /\ b * r = d.rootEntries * EntryBytes
  <2>1. d.rootEntries * EntryBytes \in Int
    BY <1>1 DEF EntryBytes
  <2> QED
    BY <1>1, <2>1, Dimensions, Quotient
<1>3. p * c <= m /\ m < p * c + p
  BY <1>1, Quotient DEF Clusters
<1>4. m = t - 1 - 2 * s - r
  BY DEF DataSectors, ReservedSectors, NumFATs
<1>5. /\ FatOffset(d) = b /\ NumFATs * s * d.bytesPerSector = 2 * s * b
      /\ RootOffset(d, s) = (1 + 2 * s) * b
      /\ DataOffset(d, s) = (1 + 2 * s) * b + b * r
      /\ ClusterSize(d) = p * b /\ Bytes(d) = t * b
  BY <1>1, <1>2 DEF FatOffset, RootOffset, DataOffset, ClusterSize, Bytes,
              ReservedSectors, NumFATs
<1> HIDE DEF b, p, c, m, r, t
<1>6. b + 2 * s * b <= (1 + 2 * s) * b
  BY <1>1
<1>7. (1 + 2 * s) * b + b * r = b * (t - m)
  BY <1>1, <1>2, <1>4
<1>8. b * (p * c) <= b * m /\ b * (m + 1) <= b * (p * c + p)
  <2>1. p * c \in Int /\ p * c + p \in Int /\ m + 1 \in Int /\ m + 1 <= p * c + p
    BY <1>1, <1>3
  <2> QED
    BY <1>1, <1>3, <2>1, Monotonic
<1>9. b * (t - m) + c * (p * b) <= t * b
  BY <1>1, <1>8
<1>10. b * (t - m) + (c + 1) * (p * b) > t * b
  <2>1. /\ (c + 1) * (p * b) = b * (p * c + p)
        /\ b * (m + 1) = b * m + b /\ b * (t - m) = t * b - b * m
    BY <1>1
  <2>2. b * m \in Int /\ t * b \in Int /\ b * (p * c + p) \in Int
    BY <1>1
  <2> QED
    BY <1>1, <1>8, <2>1, <2>2
<1> QED
  BY <1>5, <1>6, <1>7, <1>9, <1>10 DEF c, b

-----------------------------------------------------------------------------
(* The FAT has its final size when the loop is over.                       *)
Sized ==
  /\ drive \in Drives /\ spf \in Nat \ {0}
  /\ pc = "geometry" \/ Needed(drive, spf) <= spf
  /\ spf \in {1, Needed(drive, 1)}

LEMMA SizedStep == Sized /\ [Next]_vars => Sized'
<1> SUFFICES ASSUME Sized, [Next]_vars PROVE Sized'
  OBVIOUS
<1>1. CASE Grow
  <2>1. Needed(drive, spf) \in Int /\ Needed(drive, spf) > spf
    BY <1>1, Dimensions DEF Grow, Sized
  <2>2. spf = 1
    <3>1. CASE spf = Needed(drive, 1)
      BY <2>1, <3>1, NeededAntitone DEF Sized
    <3> QED  BY <3>1 DEF Sized
  <2> QED
    BY <1>1, <2>1, <2>2 DEF Grow, Sized, input
<1>2. CASE Settles
  BY <1>2 DEF Settles, Sized, input
<1>3. CASE SkipEmpty
  BY <1>3 DEF SkipEmpty, Sized, input
<1>4. CASE WriteFile
  BY <1>4 DEF WriteFile, Sized, input
<1>5. CASE Fails
  BY <1>5 DEF Fails, Writing, Sized, input
<1>6. CASE WriteFATs
  BY <1>6 DEF WriteFATs, Sized, input
<1>7. CASE UNCHANGED vars
  BY <1>7 DEF vars, Sized, input
<1> QED
  BY <1>1, <1>2, <1>3, <1>4, <1>5, <1>6, <1>7 DEF Next

LEMMA SizedHolds == Spec => []Sized
<1>1. Init => Sized
  BY DEF Init, Sized
<1> QED
  BY <1>1, SizedStep, PTL DEF Spec

(* For drives of any dimensions the FAT has an entry for every cluster,    *)
(* and its areas do not overlap, stay in the image and leave less than a   *)
(* cluster of it unused (computeCidataGeometry).                           *)
THEOREM GeometryHolds == Spec => []GeometryFits
<1>1. Sized => GeometryFits
  BY Covers, Fills DEF Sized, GeometryFits, Geometry
<1> QED
  BY <1>1, SizedHolds, PTL

(* The loop of computeCidataGeometry, which has no bound, never runs a     *)
(* third time.                                                             *)
THEOREM ResizedOnceHolds == Spec => ResizedOnce
<1>1. Sized /\ [Next]_vars => [spf' # spf => Needed(drive, spf') <= spf']_vars
  <2> SUFFICES ASSUME Sized, Next, spf' # spf
               PROVE  Needed(drive, spf') <= spf'
    BY DEF vars
  <2>1. Grow
    BY DEF Next, Settles, SkipEmpty, WriteFile, Fails, WriteFATs
  <2>2. spf' = Needed(drive, spf) /\ spf < spf' /\ spf \in Nat /\ spf' \in Nat
    BY <2>1, Dimensions DEF Grow, Sized
  <2>3. Needed(drive, spf') <= Needed(drive, spf)
    BY <2>2, NeededAntitone DEF Sized
  <2> QED
    BY <2>2, <2>3
<1> QED
  BY <1>1, SizedHolds, PTL DEF Spec, ResizedOnce

-----------------------------------------------------------------------------
(* The layout the loop has settled on, in the 16 bits it is stored in.     *)
Settled ==
  /\ drive \in Drives /\ spf \in Nat \ {0} /\ size \in [1..Len(files) -> Sizes]
  /\ Needed(drive, spf) <= spf /\ spf \in {1, Needed(drive, 1)}

LEMMA FewClusters ==
  ASSUME Settled
  PROVE  Clusters(drive, spf) \in Nat /\ Clusters(drive, spf) + 2 < Word
<1> DEFINE p == drive.sectorsPerCluster
           c == Clusters(drive, spf)
           m == DataSectors(drive, spf)
<1>1. p \in Nat \ {0} /\ c \in Int /\ m \in Int /\ Clusters(drive, 1) \in Int
  BY Dimensions DEF Settled
<1>2. m >= 0
  BY ConfigDriveAssumption DEF Settled
<1>3. m < p * c + p
  BY <1>1, Quotient DEF Clusters
<1>4. c <= Clusters(drive, 1) /\ Clusters(drive, 1) + 2 < Word
  BY ClustersAntitone, FieldsAssumption DEF Settled
<1> HIDE DEF p, c, m
<1>5. p * 0 = 0 /\ p * c \in Int
  BY <1>1
<1>6. 0 <= c
  BY <1>1, <1>2, <1>3, <1>5, Cancels
<1> QED  BY <1>1, <1>4, <1>6 DEF c, Word

LEMMA SmallFAT ==
  ASSUME NEW d \in Drives
  PROVE  Needed(d, 1) < Word
<1> DEFINE b == d.bytesPerSector
           n == (Clusters(d, 1) + 2) * 2
           s == Needed(d, 1)
<1>1. b \in Nat \ {0} /\ n \in Int /\ s \in Int /\ b % 2 = 0
  BY Dimensions, ConfigDriveAssumption
<1>2. b >= 2
  <2>1. \A x \in Nat \ {0} : x % 2 = 0 => x >= 2
    OBVIOUS
  <2> QED  BY <1>1, <2>1
<1>3. b * s <= n + b - 1
  <2>1. s = (n + b - 1) \div b
    BY DEF Needed, Ceil
  <2> HIDE DEF b, n, s
  <2>2. n + b - 1 \in Int
    BY <1>1
  <2> QED  BY <1>1, <2>1, <2>2, Quotient
<1>4. n <= 2 * (Word - 1)
  BY Dimensions, FieldsAssumption DEF Word
<1> HIDE DEF b, n, s
<1>5. SUFFICES ASSUME Word <= s PROVE FALSE
  BY <1>1 DEF s, Word
<1>6. b * Word <= b * s
  BY <1>1, <1>5, Monotonic DEF Word
<1> QED  BY <1>1, <1>2, <1>3, <1>4, <1>6 DEF Word

(* What is in the boot sector is what the image is laid out by.            *)
LEMMA BootFields ==
  ASSUME Settled
  PROVE  /\ spf < Word
         /\ BootSector.bytesPerSector = drive.bytesPerSector
         /\ BootSector.sectorsPerCluster = drive.sectorsPerCluster
         /\ BootSector.rootEntries = drive.rootEntries
         /\ BootSector.sectorsPerFAT = spf
         /\ BootSector.reservedSectors = ReservedSectors
         /\ BootSector.numFATs = NumFATs
<1>1. spf < Word
  BY SmallFAT DEF Settled, Word
<1>2. /\ drive.bytesPerSector \in Nat /\ drive.bytesPerSector < Word
      /\ drive.sectorsPerCluster \in Nat /\ drive.sectorsPerCluster < 256
      /\ drive.rootEntries \in Nat /\ drive.rootEntries < Word /\ spf \in Nat
  BY Dimensions, FieldsAssumption DEF Settled
<1>3. \A n \in Nat, w \in {256, Word} : n < w => n % w = n
  BY DEF Word
<1>4. /\ drive.bytesPerSector % Word = drive.bytesPerSector
      /\ drive.sectorsPerCluster % 256 = drive.sectorsPerCluster
      /\ drive.rootEntries % Word = drive.rootEntries /\ spf % Word = spf
  BY <1>1, <1>2, <1>3
<1> QED  BY <1>1, <1>4 DEF BootSector

-----------------------------------------------------------------------------
(* Where the areas of the image are: the boot sector, the FATs, the root   *)
(* directory and the clusters, one after the other.                        *)
CopyAt(i) == FatOffset(drive) + i * spf * drive.bytesPerSector

LEMMA Areas ==
  ASSUME Settled
  PROVE  /\ RootOffset(drive, spf) \in Nat /\ DataOffset(drive, spf) \in Nat
         /\ ClusterSize(drive) \in Nat \ {0} /\ Bytes(drive) \in Nat
         /\ DataOffset(drive, spf)
              + Clusters(drive, spf) * ClusterSize(drive) <= Bytes(drive)
         /\ DataOffset(drive, spf)
              + (Clusters(drive, spf) + 1) * ClusterSize(drive) > Bytes(drive)
         /\ DataOffset(drive, spf) <= Bytes(drive)
         /\ \A i \in 0..NumFATs - 1 : /\ CopyAt(i) \in Nat \ {0}
                                      /\ CopyAt(i) < RootOffset(drive, spf)
         /\ CopyAt(0) # CopyAt(1)
<1> DEFINE b == drive.bytesPerSector
           p == drive.sectorsPerCluster
<1>1. /\ b \in Nat \ {0} /\ p \in Nat \ {0} /\ spf \in Nat \ {0}
      /\ drive.rootEntries \in Nat /\ drive.totalSectors \in Nat
  BY Dimensions DEF Settled
<1>2. /\ FatOffset(drive) = b /\ RootOffset(drive, spf) = (1 + 2 * spf) * b
      /\ DataOffset(drive, spf) = (1 + 2 * spf) * b + drive.rootEntries * 32
      /\ ClusterSize(drive) = p * b /\ Bytes(drive) = drive.totalSectors * b
      /\ CopyAt(0) = b + 0 * spf * b /\ CopyAt(1) = b + 1 * spf * b
  BY <1>1 DEF FatOffset, RootOffset, DataOffset, ClusterSize, Bytes, CopyAt,
              ReservedSectors, NumFATs, EntryBytes
<1> HIDE DEF b, p
<1>3. /\ (1 + 2 * spf) * b \in Nat /\ p * b \in Nat \ {0}
      /\ drive.totalSectors * b \in Nat /\ spf * b \in Nat \ {0}
      /\ b + 0 * spf * b = b /\ b + 1 * spf * b = b + spf * b
      /\ (1 + 2 * spf) * b = b + 2 * (spf * b)
  BY <1>1
<1>4. /\ RootOffset(drive, spf) \in Nat /\ DataOffset(drive, spf) \in Nat
      /\ ClusterSize(drive) \in Nat \ {0} /\ Bytes(drive) \in Nat
  BY <1>1, <1>2, <1>3
<1>5. /\ DataOffset(drive, spf)
           + Clusters(drive, spf) * ClusterSize(drive) <= Bytes(drive)
      /\ DataOffset(drive, spf)
           + (Clusters(drive, spf) + 1) * ClusterSize(drive) > Bytes(drive)
  BY Fills DEF Settled
<1>6. Clusters(drive, spf) * ClusterSize(drive) \in Nat
  BY <1>4, FewClusters
<1>7. /\ \A i \in 0..NumFATs - 1 : /\ CopyAt(i) \in Nat \ {0}
                                   /\ CopyAt(i) < RootOffset(drive, spf)
      /\ CopyAt(0) # CopyAt(1)
  <2>1. \A i \in 0..NumFATs - 1 : i = 0 \/ i = 1
    BY DEF NumFATs
  <2>2. /\ CopyAt(0) = b /\ CopyAt(1) = b + spf * b
        /\ RootOffset(drive, spf) = b + 2 * (spf * b)
    BY <1>2, <1>3
  <2> QED  BY <1>1, <1>3, <2>1, <2>2
<1> QED  BY <1>4, <1>5, <1>6, <1>7

LEMMA EntryAreas ==
  ASSUME Settled
  PROVE  /\ \A k \in 0..drive.rootEntries - 1 :
              /\ EntryAt(k) \in Nat /\ EntryAt(k) >= RootOffset(drive, spf)
              /\ EntryAt(k) < DataOffset(drive, spf)
         /\ \A j, k \in Int : EntryAt(j) = EntryAt(k) => j = k
         /\ \A j, k \in Int : (EntryAt(j) - EntryAt(k)) \div EntryBytes = j - k
<1>1. /\ RootOffset(drive, spf) \in Nat /\ drive.rootEntries \in Nat
      /\ DataOffset(drive, spf) = RootOffset(drive, spf) + drive.rootEntries * 32
  BY Areas, Dimensions DEF Settled, DataOffset, EntryBytes
<1>2. \A k \in Int : EntryAt(k) = RootOffset(drive, spf) + k * 32
  BY DEF EntryAt, EntryBytes
<1>3. \A j, k \in Int : EntryAt(j) - EntryAt(k) = (j - k) * 32
  BY <1>1, <1>2
<1>4. \A n \in Int : (n * 32) \div 32 = n
  OBVIOUS
<1>5. \A j, k \in Int : (EntryAt(j) - EntryAt(k)) \div 32 = j - k
  <2> TAKE j, k \in Int
  <2>1. ((j - k) * 32) \div 32 = j - k
    BY <1>4
  <2> QED  BY <1>3, <2>1
<1>6. \A j, k \in Int : EntryAt(j) = EntryAt(k) => j = k
  BY <1>1, <1>2
<1>7. \A k \in 0..drive.rootEntries - 1 :
        /\ EntryAt(k) \in Nat /\ EntryAt(k) >= RootOffset(drive, spf)
        /\ EntryAt(k) < DataOffset(drive, spf)
  BY <1>1, <1>2
<1> QED  BY <1>5, <1>6, <1>7 DEF EntryBytes

LEMMA ClusterAreas ==
  ASSUME Settled
  PROVE  /\ \A c \in 2..Clusters(drive, spf) + 1 :
              /\ ClusterAt(c) \in Nat /\ ClusterAt(c) >= DataOffset(drive, spf)
              /\ ClusterAt(c) + ClusterSize(drive) <= Bytes(drive)
         /\ \A c, e \in Int : ClusterAt(c) = ClusterAt(e) => c = e
         /\ \A c, e \in Int :
              (ClusterAt(c) - ClusterAt(e)) \div ClusterSize(drive) = c - e
<1> DEFINE z == ClusterSize(drive)
           o == DataOffset(drive, spf)
           n == Clusters(drive, spf)
           t == Bytes(drive)
<1>1. z \in Nat \ {0} /\ o \in Nat /\ n \in Nat /\ t \in Nat /\ o + n * z <= t
  BY Areas, FewClusters
<1>2. \A c \in Int : ClusterAt(c) = o + (c - 2) * z
  BY DEF ClusterAt
<1> HIDE DEF z, o, n, t
<1>3. ASSUME NEW c \in 2..n + 1
      PROVE  ClusterAt(c) \in Nat /\ ClusterAt(c) >= o /\ ClusterAt(c) + z <= t
  <2>1. (c - 2) \in Nat /\ c - 1 \in Nat /\ c - 1 <= n /\ c \in Int
    BY <1>1, <1>3
  <2>2. z * (c - 1) <= z * n
    BY <1>1, <2>1, Monotonic
  <2>3. (c - 2) * z \in Nat /\ (c - 2) * z + z = z * (c - 1) /\ z * n = n * z
        /\ n * z \in Nat /\ z * (c - 1) \in Nat
    BY <1>1, <2>1
  <2>4. ClusterAt(c) = o + (c - 2) * z
    BY <1>2, <2>1
  <2> DEFINE y == (c - 2) * z
             x == n * z
  <2>5. y \in Nat /\ x \in Nat /\ y + z <= x /\ o + x <= t /\ ClusterAt(c) = o + y
    BY <1>1, <2>2, <2>3, <2>4
  <2> HIDE DEF x, y
  <2> QED  BY <1>1, <2>5
<1>4. ASSUME NEW c \in Int, NEW e \in Int
      PROVE  (ClusterAt(c) - ClusterAt(e)) \div z = c - e
  <2>1. ClusterAt(c) - ClusterAt(e) = z * (c - e)
    BY <1>1, <1>2
  <2>2. c - e \in Int /\ z * (c - e) \in Int
    BY <1>1
  <2> DEFINE q == (z * (c - e)) \div z
  <2>3. q \in Int /\ z * q <= z * (c - e) /\ z * (c - e) < z * q + z
    BY <1>1, <2>2, Quotient
  <2>4. c - e <= q
    BY <1>1, <2>2, <2>3, Cancels
  <2>5. q <= c - e
    <3>1. z * q < z * (c - e) + z
      <4> HIDE DEF q
      <4>1. z * q \in Int
        BY <1>1, <2>3
      <4> QED  BY <1>1, <2>2, <2>3, <4>1
    <3> QED  BY <1>1, <2>2, <2>3, <3>1, Cancels
  <2> QED  BY <2>1, <2>2, <2>3, <2>4, <2>5
<1>5. ASSUME NEW c \in Int, NEW e \in Int, ClusterAt(c) = ClusterAt(e)
      PROVE  c = e
  <2>1. (ClusterAt(c) - ClusterAt(e)) \div z = c - e
    BY <1>4
  <2>2. ClusterAt(c) - ClusterAt(e) = 0
    BY <1>1, <1>2, <1>5
  <2>3. 0 \div z = 0
    BY <1>1
  <2> QED  BY <2>1, <2>2, <2>3
<1> QED  BY <1>3, <1>4, <1>5 DEF z, o, n, t

(* The check before a cluster is written: it is one of the image's.        *)
LEMMA FitsMeans ==
  ASSUME Settled, NEW c \in Nat, c >= 2
  PROVE  Fits(c) <=> c < Clusters(drive, spf) + 2
<1> DEFINE z == ClusterSize(drive)
           n == Clusters(drive, spf)
<1>1. z \in Nat \ {0} /\ n \in Nat /\ DataOffset(drive, spf) \in Nat
      /\ Bytes(drive) \in Nat /\ DataOffset(drive, spf) + (n + 1) * z > Bytes(drive)
  BY Areas, FewClusters
<1>2. FatEntries(drive, spf) >= n + 2
  BY Covers DEF Settled
<1>3. FatEntries(drive, spf) \in Int
  <2>1. spf * drive.bytesPerSector \in Int
    BY Dimensions DEF Settled
  <2> QED  BY <2>1 DEF FatEntries
<1>4. CASE c < n + 2
  <2>0. c \in 2..Clusters(drive, spf) + 1
    BY <1>1, <1>4
  <2>1. ClusterAt(c) + z <= Bytes(drive)
    BY <2>0, ClusterAreas
  <2> HIDE DEF n
  <2> QED  BY <1>1, <1>2, <1>3, <1>4, <2>1 DEF Fits, z, n
<1>5. ASSUME Fits(c), c >= n + 2 PROVE FALSE
  <2>1. DataOffset(drive, spf) + (c - 2) * z + z <= Bytes(drive)
    BY <1>5 DEF Fits, ClusterAt
  <2> HIDE DEF z, n
  <2>2. z * (n + 1) <= z * (c - 1)
    BY <1>1, <1>5, Monotonic
  <2>3. z * (c - 1) = (c - 2) * z + z /\ z * (n + 1) = (n + 1) * z
        /\ (c - 2) * z \in Int /\ (n + 1) * z \in Int
    BY <1>1
  <2> QED  BY <1>1, <2>1, <2>2, <2>3
<1> QED  BY <1>1, <1>4, <1>5

-----------------------------------------------------------------------------
(* What the files take of the clusters and of the directory, each after    *)
(* the files before it.                                                    *)
Share(f) == Ceil(size[f], ClusterSize(drive))
Slots(f) == IF size[f] = 0 THEN 0 ELSE LfnEntries(files[f]) + 1
ClusterOf(f) == 2 + (IF f > 1 THEN Share(1) ELSE 0) + (IF f > 2 THEN Share(2) ELSE 0)
                  + (IF f > 3 THEN Share(3) ELSE 0)
EntryOf(f) == 1 + (IF f > 1 THEN Slots(1) ELSE 0) + (IF f > 2 THEN Slots(2) ELSE 0)
                + (IF f > 3 THEN Slots(3) ELSE 0)

LEMMA KnownFiles ==
  /\ Len(files) = 3 /\ DOMAIN files = 1..3
  /\ LfnEntries(files[1]) = 1 /\ LfnEntries(files[2]) = 1 /\ LfnEntries(files[3]) = 2
<1>1. files[1].chars = 9 /\ files[2].chars = 9 /\ files[3].chars = 14
  BY DEF files
<1>2. Len(files) = 3 /\ DOMAIN files = 1..3
  BY DEF files
<1> QED  BY <1>1, <1>2 DEF LfnEntries, Ceil, CharsPerEntry

LEMMA Ceiling ==
  ASSUME NEW n \in Nat, NEW k \in Nat \ {0}
  PROVE  /\ Ceil(n, k) \in Nat /\ (n = 0 => Ceil(n, k) = 0) /\ (n # 0 => Ceil(n, k) > 0)
<1> DEFINE q == (n + k - 1) \div k
<1>1. n + k - 1 \in Int
  OBVIOUS
<1>2. q \in Int /\ k * q <= n + k - 1 /\ n + k - 1 < k * q + k
  BY <1>1, Quotient
<1> HIDE DEF q
<1>3. k * 0 = 0 /\ k * 1 = k /\ k * q \in Int
  BY <1>2
<1>4. 0 <= q
  <2>1. k * 0 < k * q + k
    BY <1>2, <1>3
  <2> QED  BY <1>2, <2>1, Cancels
<1>5. n = 0 => q <= 0
  <2>1. n = 0 => k * q < k * 0 + k
    BY <1>2, <1>3
  <2> QED  BY <1>2, <2>1, Cancels
<1>6. n # 0 => 1 <= q
  <2>1. n # 0 => k * 1 < k * q + k
    BY <1>2, <1>3
  <2> QED  BY <1>2, <2>1, Cancels
<1> QED  BY <1>2, <1>4, <1>5, <1>6 DEF q, Ceil

LEMMA Sums ==
  ASSUME Settled
  PROVE  /\ \A f \in 1..3 :
              /\ size[f] \in Nat
              /\ Share(f) \in Nat /\ (Share(f) = 0 <=> size[f] = 0)
              /\ LfnEntries(files[f]) \in {1, 2}
              /\ Slots(f) \in 0..3 /\ (size[f] = 0 => Slots(f) = 0)
              /\ (size[f] # 0 => Slots(f) = LfnEntries(files[f]) + 1)
              /\ ClusterOf(f + 1) = ClusterOf(f) + Share(f)
              /\ EntryOf(f + 1) = EntryOf(f) + Slots(f)
         /\ ClusterOf(1) = 2 /\ EntryOf(1) = 1
         /\ \A f \in 1..4 : /\ ClusterOf(f) \in Nat /\ ClusterOf(f) >= 2
                            /\ EntryOf(f) \in Nat /\ EntryOf(f) >= 1
         /\ \A f \in 1..3, g \in 1..4 :
              f < g => /\ ClusterOf(f) + Share(f) <= ClusterOf(g)
                       /\ EntryOf(f) + Slots(f) <= EntryOf(g)
<1>1. \A f \in 1..3 : size[f] \in Nat
  BY KnownFiles, ConfigDriveAssumption DEF Settled
<1>2. \A f \in 1..3 : Share(f) \in Nat /\ (Share(f) = 0 <=> size[f] = 0)
  <2> TAKE f \in 1..3
  <2>1. size[f] \in Nat /\ ClusterSize(drive) \in Nat \ {0}
    BY <1>1, Areas
  <2>2. /\ Share(f) \in Nat /\ (size[f] = 0 => Share(f) = 0)
        /\ (size[f] # 0 => Share(f) > 0)
    BY <2>1, Ceiling DEF Share
  <2>3. size[f] # 0 => Share(f) # 0
    BY <2>2
  <2> QED  BY <2>2, <2>3
<1>3. \A f \in 1..3 : /\ LfnEntries(files[f]) \in {1, 2} /\ Slots(f) \in 0..3
                      /\ (size[f] = 0 => Slots(f) = 0)
                      /\ (size[f] # 0 => Slots(f) = LfnEntries(files[f]) + 1)
  BY KnownFiles DEF Slots
<1>4. /\ ClusterOf(1) = 2 /\ ClusterOf(2) = 2 + Share(1)
      /\ ClusterOf(3) = 2 + Share(1) + Share(2)
      /\ ClusterOf(4) = 2 + Share(1) + Share(2) + Share(3)
  BY <1>2 DEF ClusterOf
<1>5. /\ EntryOf(1) = 1 /\ EntryOf(2) = 1 + Slots(1)
      /\ EntryOf(3) = 1 + Slots(1) + Slots(2)
      /\ EntryOf(4) = 1 + Slots(1) + Slots(2) + Slots(3)
  BY <1>3 DEF EntryOf
<1>6. /\ Share(1) \in Nat /\ Share(2) \in Nat /\ Share(3) \in Nat
      /\ Slots(1) \in Nat /\ Slots(2) \in Nat /\ Slots(3) \in Nat
  BY <1>2, <1>3
<1>7. \A f \in 1..3 : ClusterOf(f + 1) = ClusterOf(f) + Share(f)
                      /\ EntryOf(f + 1) = EntryOf(f) + Slots(f)
  BY <1>4, <1>5, <1>6
<1>8. \A f \in 1..4 : /\ ClusterOf(f) \in Nat /\ ClusterOf(f) >= 2
                      /\ EntryOf(f) \in Nat /\ EntryOf(f) >= 1
  BY <1>4, <1>5, <1>6
<1>9. \A f \in 1..3, g \in 1..4 : f < g => /\ ClusterOf(f) + Share(f) <= ClusterOf(g)
                                           /\ EntryOf(f) + Slots(f) <= EntryOf(g)
  <2>1. \A f \in 1..3 : f = 1 \/ f = 2 \/ f = 3
    OBVIOUS
  <2>2. \A g \in 1..4 : g = 1 \/ g = 2 \/ g = 3 \/ g = 4
    OBVIOUS
  <2> QED  BY <1>4, <1>5, <1>6, <2>1, <2>2
<1> QED  BY <1>1, <1>2, <1>3, <1>4, <1>5, <1>7, <1>8, <1>9

(* A file whose clusters pass the check takes consecutive ones, none of    *)
(* which is numbered anew by the 16 bits.                                  *)
LEMMA ChainIs ==
  ASSUME Settled, file \in 1..3, nextCluster = ClusterOf(file),
         nextCluster <= Clusters(drive, spf) + 2, \A c \in Chain : Fits(c)
  PROVE  /\ nextCluster + Share(file) <= Clusters(drive, spf) + 2
         /\ Chain = nextCluster .. nextCluster + Share(file) - 1
         /\ (nextCluster + Share(file)) % Word = nextCluster + Share(file)
         /\ (nextCluster + Share(file) - 1) % Word = nextCluster + Share(file) - 1
<1> DEFINE n == Clusters(drive, spf)
           k == Share(file)
<1>1. /\ k \in Nat /\ nextCluster \in Nat /\ nextCluster >= 2
      /\ n \in Nat /\ Word \in Nat /\ n + 2 < Word
  BY Sums, FewClusters DEF Word
<1>2. \A x \in Nat : x < Word => x % Word = x
  BY DEF Word
<1>3. Chain = {(nextCluster + i) % Word : i \in 0..k - 1}
  BY DEF Chain, Count, Share
<1> HIDE DEF n, k
<1>4. nextCluster + k <= n + 2
  <2>1. SUFFICES ASSUME nextCluster + k > n + 2 PROVE FALSE
    BY <1>1
  <2>2. n + 2 - nextCluster \in 0..k - 1 /\ nextCluster + (n + 2 - nextCluster) = n + 2
    BY <1>1, <2>1 DEF n
  <2>3. (n + 2) % Word \in Chain
    BY <1>3, <2>2
  <2>4. Fits(n + 2)
    BY <1>1, <1>2, <2>3
  <2> QED  BY <1>1, <2>4, FitsMeans DEF n
<1>5. \A i \in 0..k - 1 : (nextCluster + i) % Word = nextCluster + i
  BY <1>1, <1>2, <1>4
<1>6. Chain = nextCluster .. nextCluster + k - 1
  <2>1. \A c \in nextCluster .. nextCluster + k - 1 :
          c - nextCluster \in 0..k - 1 /\ nextCluster + (c - nextCluster) = c
    BY <1>1
  <2>2. \A i \in 0..k - 1 : nextCluster + i \in nextCluster .. nextCluster + k - 1
    BY <1>1
  <2> QED  BY <1>3, <1>5, <2>1, <2>2
<1>7. (nextCluster + k) % Word = nextCluster + k
      /\ (nextCluster + k - 1) % Word = nextCluster + k - 1
  BY <1>1, <1>2, <1>4
<1> QED  BY <1>4, <1>6, <1>7 DEF n, k

LEMMA ChainEnds ==
  ASSUME Settled, file \in 1..3, nextCluster = ClusterOf(file),
         NEW c \in Chain, ~Fits(c)
  PROVE  nextCluster + Share(file) > Clusters(drive, spf) + 2
<1> DEFINE n == Clusters(drive, spf)
           k == Share(file)
<1>1. /\ k \in Nat /\ nextCluster \in Nat /\ nextCluster >= 2
      /\ n \in Nat /\ Word \in Nat /\ n + 2 < Word
  BY Sums, FewClusters DEF Word
<1>2. \A x \in Nat : x < Word => x % Word = x
  BY DEF Word
<1>3. PICK i \in 0..k - 1 : c = (nextCluster + i) % Word
  BY DEF Chain, Count, Share
<1> HIDE DEF n, k
<1>4. SUFFICES ASSUME nextCluster + k <= n + 2 PROVE FALSE
  BY <1>1 DEF n, k
<1>5. c = nextCluster + i /\ c \in Nat /\ c >= 2 /\ c < n + 2
  BY <1>1, <1>2, <1>3, <1>4
<1> QED  BY <1>5, FitsMeans DEF n

-----------------------------------------------------------------------------
(* What has been written when the loop over the files is at one of them.   *)
EntryIn(f, i) == IF i < LfnEntries(files[f])
                 THEN LongEntry(files[f], LfnEntries(files[f]) - i, i = 0)
                 ELSE DirEntry("file", files[f].shortName, ClusterOf(f), size[f])

Counted ==
  /\ file \in 1..4
  /\ nextCluster = ClusterOf(file) /\ nextCluster <= Clusters(drive, spf) + 2
  /\ dirIndex = EntryOf(file) /\ dirIndex <= drive.rootEntries
Booted ==
  /\ 0 \in DOMAIN img /\ img[0] = BootSector
  /\ img[EntryAt(0)] = DirEntry("label", "cidata", 0, 0)
Listing ==
  /\ \A k \in 0..drive.rootEntries - 1 : EntryAt(k) \in DOMAIN img <=> k < dirIndex
  /\ \A f \in 1..file - 1 : \A i \in 0..Slots(f) - 1 :
       img[EntryAt(EntryOf(f) + i)] = EntryIn(f, i)
Contents ==
  \A f \in 1..file - 1 : \A i \in 0..Share(f) - 1 :
    /\ ClusterAt(ClusterOf(f) + i) \in DOMAIN img
    /\ img[ClusterAt(ClusterOf(f) + i)] = [file |-> f, chunk |-> i + 1]
Chained ==
  \A f \in 1..file - 1 : \A i \in 0..Share(f) - 1 :
    /\ ClusterOf(f) + i \in DOMAIN fat
    /\ fat[ClusterOf(f) + i] = IF i = Share(f) - 1 THEN EndOfChain
                               ELSE ClusterOf(f) + i + 1
Copied ==
  pc = "done" => /\ file = 4
                 /\ \A i \in 0..NumFATs - 1 : CopyAt(i) \in DOMAIN img /\ img[CopyAt(i)] = fat
Inside == /\ DOMAIN fat \subseteq 0..FatEntries(drive, spf) - 1
          /\ DOMAIN img \subseteq 0..Bytes(drive) - 1

Image ==
  /\ Sized /\ size \in [1..Len(files) -> Sizes]
  /\ pc \in {"geometry", "files", "done", "failed"}
  /\ pc = "geometry" => file = 1 /\ nextCluster = 2 /\ dirIndex = 0
                          /\ fat = <<>> /\ img = <<>>
  /\ pc # "geometry" =>
       Counted /\ Booted /\ Listing /\ Contents /\ Chained /\ Copied /\ Inside
  /\ pc = "failed" =>
       /\ file \in 1..3 /\ size[file] # 0
       /\ \/ nextCluster + Share(file) > Clusters(drive, spf) + 2
          \/ dirIndex + LfnEntries(files[file]) >= drive.rootEntries

LEMMA SettledFrom == Image /\ pc # "geometry" => Settled
BY DEF Image, Sized, Settled

LEMMA OverAt ==
  ASSUME NEW new, NEW old
  PROVE  /\ DOMAIN Over(new, old) = DOMAIN new \cup DOMAIN old
         /\ \A o \in DOMAIN new : Over(new, old)[o] = new[o]
         /\ \A o \in DOMAIN old : o \notin DOMAIN new => Over(new, old)[o] = old[o]
BY DEF Over

(* As long as the input stays, every place of the image does.              *)
LEMMA SamePlaces ==
  ASSUME UNCHANGED <<drive, size, spf>>
  PROVE  /\ \A f : /\ Share(f)' = Share(f) /\ Slots(f)' = Slots(f)
                   /\ ClusterOf(f)' = ClusterOf(f) /\ EntryOf(f)' = EntryOf(f)
         /\ \A f, i : EntryIn(f, i)' = EntryIn(f, i)
         /\ \A k : EntryAt(k)' = EntryAt(k) /\ ClusterAt(k)' = ClusterAt(k)
                     /\ CopyAt(k)' = CopyAt(k)
         /\ BootSector' = BootSector
<1>1. \A f : Share(f)' = Share(f) /\ Slots(f)' = Slots(f)
  BY DEF Share, Slots
<1>2. \A f : ClusterOf(f)' = ClusterOf(f) /\ EntryOf(f)' = EntryOf(f)
  BY <1>1 DEF ClusterOf, EntryOf
<1>3. \A f, i : EntryIn(f, i)' = EntryIn(f, i)
  BY <1>2 DEF EntryIn
<1>4. \A k : EntryAt(k)' = EntryAt(k) /\ ClusterAt(k)' = ClusterAt(k)
               /\ CopyAt(k)' = CopyAt(k)
  BY DEF EntryAt, ClusterAt, CopyAt
<1>5. BootSector' = BootSector
  BY DEF BootSector
<1> QED  BY <1>1, <1>2, <1>3, <1>4, <1>5

(* A file is written into clusters and entries that are its own.           *)
LEMMA FileWritten ==
  ASSUME Settled, Counted, file \in 1..3, WriteFile
  PROVE  LET cs == nextCluster .. nextCluster + Share(file) - 1
             es == dirIndex .. dirIndex + LfnEntries(files[file])
         IN /\ nextCluster + Share(file) <= Clusters(drive, spf) + 2
            /\ dirIndex + Slots(file) <= drive.rootEntries
            /\ size[file] # 0
            /\ nextCluster' = nextCluster + Share(file)
            /\ dirIndex' = dirIndex + Slots(file) /\ file' = file + 1
            /\ UNCHANGED <<drive, size, pc, spf>>
            /\ DOMAIN img' = {ClusterAt(c) : c \in cs} \cup {EntryAt(k) : k \in es}
                               \cup DOMAIN img
            /\ \A c \in cs : img'[ClusterAt(c)] =
                               [file |-> file, chunk |-> c - nextCluster + 1]
            /\ \A k \in es : img'[EntryAt(k)] = EntryIn(file, k - dirIndex)
            /\ \A o \in DOMAIN img :
                 (\A c \in cs : o # ClusterAt(c)) /\ (\A k \in es : o # EntryAt(k))
                   => img'[o] = img[o]
            /\ DOMAIN fat' = cs \cup DOMAIN fat
            /\ \A c \in cs : fat'[c] = IF c = nextCluster + Share(file) - 1
                                       THEN EndOfChain ELSE c + 1
            /\ \A c \in DOMAIN fat : c \notin cs => fat'[c] = fat[c]
<1> DEFINE n == LfnEntries(files[file])
           cs == nextCluster .. nextCluster + Share(file) - 1
           es == dirIndex .. dirIndex + n
           contents == [o \in {ClusterAt(c) : c \in Chain} |->
             [file |-> file,
              chunk |-> (o - ClusterAt(nextCluster)) \div ClusterSize(drive) + 1]]
           entries == Entries(files[file])
           listing == [o \in {EntryAt(dirIndex + i) : i \in DOMAIN entries} |->
                         entries[(o - EntryAt(dirIndex)) \div EntryBytes]]
           chain == [c \in Chain |-> IF c = (nextCluster + Count - 1) % Word
                                     THEN EndOfChain ELSE c + 1]
<1>1. /\ \A c \in Chain : Fits(c)
      /\ dirIndex + n < drive.rootEntries
      /\ img' = Over(contents, Over(listing, img))
      /\ fat' = Over(chain, fat)
      /\ dirIndex' = dirIndex + n + 1 /\ file' = file + 1 /\ size[file] # 0
      /\ nextCluster' = (nextCluster + Count) % Word
      /\ UNCHANGED <<drive, size, pc, spf>>
  BY DEF WriteFile, EntriesFit, input
<1>2. /\ nextCluster \in Nat /\ nextCluster >= 2 /\ dirIndex \in Nat /\ dirIndex >= 1
      /\ Share(file) \in Nat /\ n \in {1, 2} /\ Slots(file) = n + 1
      /\ Count = Share(file) /\ drive.rootEntries \in Nat
  BY <1>1, Sums, Dimensions DEF Counted, Count, Share, Settled
<1>3. /\ nextCluster + Share(file) <= Clusters(drive, spf) + 2
      /\ Chain = cs
      /\ (nextCluster + Count) % Word = nextCluster + Share(file)
      /\ (nextCluster + Count - 1) % Word = nextCluster + Share(file) - 1
  BY <1>1, <1>2, ChainIs DEF Counted
<1>4. \A c \in cs : c \in 2..Clusters(drive, spf) + 1
  BY <1>2, <1>3, FewClusters
<1>5. \A k \in es : k \in 0..drive.rootEntries - 1 /\ k - dirIndex \in 0..n
  BY <1>1, <1>2
<1>6. /\ DOMAIN entries = 0..n
      /\ \A i \in 0..n : entries[i] = EntryIn(file, i)
  BY DEF Entries, EntryIn, Counted
<1> HIDE DEF n, entries
<1>7. DOMAIN listing = {EntryAt(k) : k \in es}
  <2>1. \A i \in 0..n : dirIndex + i \in es
    BY <1>2
  <2>2. \A k \in es : dirIndex + (k - dirIndex) = k
    BY <1>2
  <2> QED  BY <1>5, <1>6, <2>1, <2>2
<1>8. \A k \in es : listing[EntryAt(k)] = EntryIn(file, k - dirIndex)
  <2> TAKE k \in es
  <2>1. (EntryAt(k) - EntryAt(dirIndex)) \div EntryBytes = k - dirIndex
    BY <1>2, EntryAreas
  <2> QED  BY <1>5, <1>6, <1>7, <2>1
<1>9. DOMAIN contents = {ClusterAt(c) : c \in cs}
  BY <1>3
<1>10. \A c \in cs : contents[ClusterAt(c)] = [file |-> file, chunk |-> c - nextCluster + 1]
  <2> TAKE c \in cs
  <2>1. (ClusterAt(c) - ClusterAt(nextCluster)) \div ClusterSize(drive) = c - nextCluster
    BY <1>2, ClusterAreas
  <2> QED  BY <1>9, <2>1
<1>11. \A c \in cs, k \in es : ClusterAt(c) # EntryAt(k)
  <2> TAKE c \in cs, k \in es
  <2>1. ClusterAt(c) \in Nat /\ ClusterAt(c) >= DataOffset(drive, spf)
    BY <1>4, ClusterAreas
  <2>2. EntryAt(k) \in Nat /\ EntryAt(k) < DataOffset(drive, spf)
    BY <1>5, EntryAreas
  <2> QED  BY <2>1, <2>2, Areas
<1> DEFINE under == Over(listing, img)
<1>12. /\ img' = Over(contents, under)
       /\ DOMAIN under = {EntryAt(k) : k \in es} \cup DOMAIN img
       /\ \A k \in es : under[EntryAt(k)] = EntryIn(file, k - dirIndex)
       /\ \A o \in DOMAIN img : (\A k \in es : o # EntryAt(k)) => under[o] = img[o]
  <2> HIDE DEF cs, es, contents, listing
  <2>1. /\ DOMAIN under = DOMAIN listing \cup DOMAIN img
        /\ \A o \in DOMAIN listing : under[o] = listing[o]
        /\ \A o \in DOMAIN img : o \notin DOMAIN listing => under[o] = img[o]
    BY OverAt
  <2>2. img' = Over(contents, under)
    BY <1>1
  <2> HIDE DEF under
  <2> QED  BY <1>7, <1>8, <2>1, <2>2
<1> HIDE DEF cs, es, contents, listing, under
<1>13. /\ DOMAIN img' = DOMAIN contents \cup DOMAIN under
       /\ \A o \in DOMAIN contents : img'[o] = contents[o]
       /\ \A o \in DOMAIN under : o \notin DOMAIN contents => img'[o] = under[o]
  <2>1. /\ DOMAIN Over(contents, under) = DOMAIN contents \cup DOMAIN under
        /\ \A o \in DOMAIN contents : Over(contents, under)[o] = contents[o]
        /\ \A o \in DOMAIN under : o \notin DOMAIN contents
                                     => Over(contents, under)[o] = under[o]
    BY OverAt
  <2> QED  BY <1>12, <2>1
<1>14. /\ DOMAIN img' = {ClusterAt(c) : c \in cs} \cup {EntryAt(k) : k \in es}
                          \cup DOMAIN img
       /\ \A c \in cs : img'[ClusterAt(c)] =
                          [file |-> file, chunk |-> c - nextCluster + 1]
       /\ \A k \in es : img'[EntryAt(k)] = EntryIn(file, k - dirIndex)
  <2>1. DOMAIN img' = {ClusterAt(c) : c \in cs} \cup {EntryAt(k) : k \in es}
                        \cup DOMAIN img
    BY <1>9, <1>12, <1>13
  <2>2. \A c \in cs : img'[ClusterAt(c)] = [file |-> file, chunk |-> c - nextCluster + 1]
    BY <1>9, <1>10, <1>13
  <2>3. \A k \in es : EntryAt(k) \notin DOMAIN contents /\ EntryAt(k) \in DOMAIN under
    BY <1>9, <1>11, <1>12
  <2>4. \A k \in es : img'[EntryAt(k)] = EntryIn(file, k - dirIndex)
    BY <1>12, <1>13, <2>3
  <2> QED  BY <2>1, <2>2, <2>4
<1>15. \A o \in DOMAIN img :
         (\A c \in cs : o # ClusterAt(c)) /\ (\A k \in es : o # EntryAt(k))
           => img'[o] = img[o]
  BY <1>9, <1>12, <1>13
<1>16. /\ DOMAIN fat' = cs \cup DOMAIN fat
       /\ \A c \in cs : fat'[c] = IF c = nextCluster + Share(file) - 1
                                  THEN EndOfChain ELSE c + 1
       /\ \A c \in DOMAIN fat : c \notin cs => fat'[c] = fat[c]
  <2>1. DOMAIN chain = cs /\ \A c \in cs : chain[c] = IF c = nextCluster + Share(file) - 1
                                                      THEN EndOfChain ELSE c + 1
    BY <1>3
  <2> HIDE DEF chain
  <2>2. /\ DOMAIN Over(chain, fat) = DOMAIN chain \cup DOMAIN fat
        /\ \A o \in DOMAIN chain : Over(chain, fat)[o] = chain[o]
        /\ \A o \in DOMAIN fat : o \notin DOMAIN chain => Over(chain, fat)[o] = fat[o]
    BY OverAt
  <2>3. fat' = Over(chain, fat)
    BY <1>1
  <2> QED  BY <2>1, <2>2, <2>3
<1>17. /\ nextCluster' = nextCluster + Share(file)
       /\ dirIndex' = dirIndex + Slots(file) /\ dirIndex + Slots(file) <= drive.rootEntries
  BY <1>1, <1>2, <1>3
<1> QED
  BY <1>1, <1>3, <1>14, <1>15, <1>16, <1>17 DEF cs, es, n

(* The places below those of the file that is written are not written to.  *)
LEMMA Apart ==
  ASSUME Settled, Counted,
         NEW c \in Nat, c >= nextCluster, c < Clusters(drive, spf) + 2,
         NEW k \in Nat, k >= dirIndex, k < drive.rootEntries
  PROVE  /\ ClusterAt(c) # 0 /\ EntryAt(k) # 0
         /\ \A j \in 0..dirIndex - 1 : EntryAt(j) # ClusterAt(c) /\ EntryAt(j) # EntryAt(k)
         /\ \A e \in 2..nextCluster - 1 :
              ClusterAt(e) # ClusterAt(c) /\ ClusterAt(e) # EntryAt(k)
<1>1. /\ nextCluster \in Nat /\ nextCluster >= 2 /\ nextCluster <= Clusters(drive, spf) + 2
      /\ dirIndex \in Nat /\ dirIndex <= drive.rootEntries
      /\ drive.rootEntries \in Nat /\ Clusters(drive, spf) \in Nat
  BY Sums, Dimensions, FewClusters DEF Counted, Settled
<1>2. CopyAt(0) \in Nat \ {0} /\ CopyAt(0) < RootOffset(drive, spf)
      /\ RootOffset(drive, spf) \in Nat /\ DataOffset(drive, spf) \in Nat
  BY Areas DEF NumFATs
<1>3. \A j \in 0..drive.rootEntries - 1 :
        /\ EntryAt(j) \in Nat /\ EntryAt(j) >= RootOffset(drive, spf)
        /\ EntryAt(j) < DataOffset(drive, spf)
  BY EntryAreas
<1>4. \A e \in 2..Clusters(drive, spf) + 1 :
        ClusterAt(e) \in Nat /\ ClusterAt(e) >= DataOffset(drive, spf)
  BY ClusterAreas
<1>5. c \in 2..Clusters(drive, spf) + 1 /\ k \in 0..drive.rootEntries - 1
      /\ (\A j \in 0..dirIndex - 1 : j \in 0..drive.rootEntries - 1 /\ j # k)
      /\ (\A e \in 2..nextCluster - 1 : e \in 2..Clusters(drive, spf) + 1 /\ e # c)
  BY <1>1
<1>6. ClusterAt(c) # 0 /\ EntryAt(k) # 0
  BY <1>2, <1>3, <1>4, <1>5
<1>7. \A j \in 0..dirIndex - 1 : EntryAt(j) # ClusterAt(c) /\ EntryAt(j) # EntryAt(k)
  <2> TAKE j \in 0..dirIndex - 1
  <2>1. EntryAt(j) # ClusterAt(c)
    BY <1>2, <1>3, <1>4, <1>5
  <2>2. EntryAt(j) # EntryAt(k)
    BY <1>1, <1>5, EntryAreas
  <2> QED  BY <2>1, <2>2
<1>8. \A e \in 2..nextCluster - 1 : ClusterAt(e) # ClusterAt(c) /\ ClusterAt(e) # EntryAt(k)
  <2> TAKE e \in 2..nextCluster - 1
  <2>1. ClusterAt(e) # EntryAt(k)
    BY <1>2, <1>3, <1>4, <1>5
  <2>2. ClusterAt(e) # ClusterAt(c)
    BY <1>1, <1>5, ClusterAreas
  <2> QED  BY <2>1, <2>2
<1> QED  BY <1>6, <1>7, <1>8

LEMMA EnoughEntries ==
  ASSUME Settled
  PROVE  /\ FatEntries(drive, spf) \in Int
         /\ FatEntries(drive, spf) >= Clusters(drive, spf) + 2
<1>1. spf * drive.bytesPerSector \in Int
  BY Dimensions DEF Settled
<1> QED  BY <1>1, Covers DEF Settled, FatEntries

LEMMA SettlesStep ==
  ASSUME Image, Settles
  PROVE  Image'
<1>1. /\ Settled /\ file = 1 /\ nextCluster = 2 /\ pc = "geometry"
      /\ pc' = "files" /\ UNCHANGED <<drive, size, spf, file, nextCluster>>
      /\ dirIndex' = 1
      /\ img' = [o \in {0, EntryAt(0)} |->
                  IF o = 0 THEN BootSector ELSE DirEntry("label", "cidata", 0, 0)]
      /\ fat' = [c \in {0, 1} |-> IF c = 0 THEN Word - 8 ELSE EndOfChain]
  BY DEF Settles, StartsImage, Image, Sized, Settled, input
<1>2. /\ Clusters(drive, spf) \in Nat /\ drive.rootEntries \in Nat \ {0}
      /\ 0 \in 0..drive.rootEntries - 1
  <2>1. Clusters(drive, spf) \in Nat
    BY <1>1, FewClusters
  <2>2. drive \in Drives
    BY <1>1 DEF Settled
  <2>3. drive.rootEntries \in Nat \ {0}
    BY <2>2, Dimensions
  <2> QED  BY <2>1, <2>3
<1>3. /\ EntryAt(0) \in Nat \ {0} /\ EntryAt(0) < Bytes(drive) /\ Bytes(drive) \in Nat
  <2>1. /\ CopyAt(0) \in Nat \ {0} /\ CopyAt(0) < RootOffset(drive, spf)
        /\ RootOffset(drive, spf) \in Nat /\ DataOffset(drive, spf) \in Nat
        /\ DataOffset(drive, spf) <= Bytes(drive) /\ Bytes(drive) \in Nat
    BY <1>1, Areas DEF NumFATs
  <2>2. /\ EntryAt(0) \in Nat /\ EntryAt(0) >= RootOffset(drive, spf)
        /\ EntryAt(0) < DataOffset(drive, spf)
    BY <1>1, <1>2, EntryAreas
  <2> QED  BY <2>1, <2>2
<1>4. Sized'
  BY SizedStep DEF Image, Next
<1>5. Counted'
  <2>1. ClusterOf(1)' = 2 /\ EntryOf(1)' = 1
    BY <1>1, Sums, SamePlaces
  <2> QED  BY <1>1, <1>2, <2>1 DEF Counted
<1>6. Booted'
  BY <1>1, <1>3, SamePlaces DEF Booted
<1>7. Listing'
  <2>1. \A k \in 0..drive.rootEntries - 1 : EntryAt(k) \in {0, EntryAt(0)} <=> k = 0
    <3> TAKE k \in 0..drive.rootEntries - 1
    <3>1. EntryAt(k) # 0
      <4>1. EntryAt(k) \in Nat /\ EntryAt(k) >= RootOffset(drive, spf)
        BY <1>1, EntryAreas
      <4>2. /\ CopyAt(0) \in Nat \ {0} /\ CopyAt(0) < RootOffset(drive, spf)
            /\ RootOffset(drive, spf) \in Nat
        BY <1>1, Areas DEF NumFATs
      <4> QED  BY <4>1, <4>2
    <3>2. EntryAt(k) = EntryAt(0) => k = 0
      BY <1>1, EntryAreas
    <3> QED  BY <3>1, <3>2
  <2> QED  BY <1>1, <1>2, <2>1, SamePlaces DEF Listing
<1>8. Contents' /\ Chained'
  BY <1>1 DEF Contents, Chained
<1>9. Copied'
  BY <1>1 DEF Copied
<1>10. Inside'
  <2>1. FatEntries(drive, spf) >= Clusters(drive, spf) + 2
    BY <1>1, EnoughEntries
  <2>2. FatEntries(drive, spf) \in Int
    BY <1>1, EnoughEntries
  <2>3. FatEntries(drive, spf)' = FatEntries(drive, spf) /\ Bytes(drive)' = Bytes(drive)
    BY <1>1 DEF FatEntries, Bytes
  <2>4. DOMAIN fat' = {0, 1} /\ {0, 1} \subseteq 0..FatEntries(drive, spf) - 1
    BY <1>1, <1>2, <2>1, <2>2
  <2>5. DOMAIN img' = {0, EntryAt(0)} /\ {0, EntryAt(0)} \subseteq 0..Bytes(drive) - 1
    BY <1>1, <1>3
  <2> QED  BY <2>3, <2>4, <2>5 DEF Inside
<1> QED
  BY <1>1, <1>4, <1>5, <1>6, <1>7, <1>8, <1>9, <1>10 DEF Image

LEMMA WriteFileStep ==
  ASSUME Image, WriteFile
  PROVE  Image'
<1> DEFINE m == Share(file)
           n == LfnEntries(files[file])
           cs == nextCluster .. nextCluster + m - 1
           es == dirIndex .. dirIndex + n
<1>1. /\ pc = "files" /\ file \in 1..3 /\ Counted /\ Booted /\ Listing /\ Contents
      /\ Chained /\ Inside /\ Settled
  BY KnownFiles, SettledFrom DEF WriteFile, Writing, Image, Counted
<1>2. /\ nextCluster + m <= Clusters(drive, spf) + 2
      /\ dirIndex + Slots(file) <= drive.rootEntries
      /\ size[file] # 0
      /\ nextCluster' = nextCluster + m
      /\ dirIndex' = dirIndex + Slots(file) /\ file' = file + 1
      /\ UNCHANGED <<drive, size, pc, spf>>
  BY <1>1, FileWritten
<1>3. /\ DOMAIN img' = {ClusterAt(c) : c \in cs} \cup {EntryAt(k) : k \in es}
                         \cup DOMAIN img
      /\ \A c \in cs : img'[ClusterAt(c)] =
                         [file |-> file, chunk |-> c - nextCluster + 1]
      /\ \A k \in es : img'[EntryAt(k)] = EntryIn(file, k - dirIndex)
      /\ \A o \in DOMAIN img :
           (\A c \in cs : o # ClusterAt(c)) /\ (\A k \in es : o # EntryAt(k))
             => img'[o] = img[o]
  BY <1>1, FileWritten
<1>4. /\ DOMAIN fat' = cs \cup DOMAIN fat
      /\ \A c \in cs : fat'[c] = IF c = nextCluster + m - 1 THEN EndOfChain ELSE c + 1
      /\ \A c \in DOMAIN fat : c \notin cs => fat'[c] = fat[c]
  BY <1>1, FileWritten
<1>5. /\ nextCluster \in Nat /\ nextCluster >= 2 /\ m \in Nat
      /\ dirIndex \in Nat /\ dirIndex >= 1 /\ n \in {1, 2} /\ Slots(file) = n + 1
      /\ drive.rootEntries \in Nat /\ Clusters(drive, spf) \in Nat
      /\ nextCluster = ClusterOf(file) /\ dirIndex = EntryOf(file)
  BY <1>1, <1>2, Sums, Dimensions, FewClusters DEF Counted, Settled
<1> HIDE DEF m, n
<1>6. /\ \A c \in cs : /\ c \in Nat /\ c >= nextCluster
                       /\ c < Clusters(drive, spf) + 2
      /\ \A k \in es : k \in Nat /\ k >= dirIndex /\ k < drive.rootEntries
      /\ dirIndex \in es
  BY <1>2, <1>5
<1>7. m # 0 /\ nextCluster \in cs
  BY <1>1, <1>2, <1>5, Sums DEF m
<1>8. ASSUME NEW o \in DOMAIN img,
             o = 0 \/ (\E j \in 0..dirIndex - 1 : o = EntryAt(j))
               \/ (\E e \in 2..nextCluster - 1 : o = ClusterAt(e))
      PROVE  img'[o] = img[o]
  <2>1. \A c \in cs, k \in es : o # ClusterAt(c) /\ o # EntryAt(k)
    BY <1>1, <1>6, <1>8, Apart
  <2> QED  BY <1>3, <1>6, <1>7, <2>1
<1>9. Sized'
  BY SizedStep DEF Image, Next
<1>10. ClusterOf(file + 1) = nextCluster' /\ EntryOf(file + 1) = dirIndex'
  BY <1>1, <1>2, <1>5, Sums DEF m
<1>11. Counted'
  <2>1. ClusterOf(file)' = ClusterOf(file + 1) /\ EntryOf(file)' = EntryOf(file + 1)
    BY <1>2, SamePlaces
  <2>2. file' \in 1..4 /\ nextCluster' <= Clusters(drive, spf)' + 2
        /\ dirIndex' <= drive'.rootEntries
    BY <1>1, <1>2
  <2> QED  BY <1>10, <2>1, <2>2 DEF Counted
<1>12. Booted'
  <2>1. img'[0] = img[0] /\ 0 \in DOMAIN img'
    BY <1>1, <1>3, <1>8 DEF Booted
  <2>2. EntryAt(0) \in DOMAIN img /\ 0 \in 0..dirIndex - 1
    BY <1>1, <1>2, <1>5 DEF Listing
  <2>3. img'[EntryAt(0)] = img[EntryAt(0)]
    BY <1>8, <2>2
  <2> QED  BY <1>1, <1>2, <2>1, <2>3, SamePlaces DEF Booted
<1>13. \A k \in 0..drive.rootEntries - 1 : EntryAt(k) \in DOMAIN img' <=> k < dirIndex'
  <2> TAKE k \in 0..drive.rootEntries - 1
  <2>1. \A c \in cs : EntryAt(k) # ClusterAt(c)
    <3> TAKE c \in cs
    <3>1. c \in 2..Clusters(drive, spf) + 1
      BY <1>5, <1>6
    <3>2. ClusterAt(c) \in Nat /\ ClusterAt(c) >= DataOffset(drive, spf)
      BY <1>1, <3>1, ClusterAreas
    <3>3. EntryAt(k) \in Nat /\ EntryAt(k) < DataOffset(drive, spf)
      BY <1>1, EntryAreas
    <3>4. DataOffset(drive, spf) \in Nat
      BY <1>1, Areas
    <3> QED  BY <3>2, <3>3, <3>4
  <2>2. \A j \in es : EntryAt(k) = EntryAt(j) <=> k = j
    <3>1. \A j, l \in Int : EntryAt(j) = EntryAt(l) => j = l
      BY <1>1, EntryAreas
    <3>2. k \in Int /\ \A j \in es : j \in Int
      BY <1>5, <1>6
    <3> QED  BY <3>1, <3>2
  <2>3. EntryAt(k) \in DOMAIN img' <=> k \in es \/ EntryAt(k) \in DOMAIN img
    BY <1>3, <2>1, <2>2
  <2>4. EntryAt(k) \in DOMAIN img <=> k < dirIndex
    BY <1>1 DEF Listing
  <2>5. k \in es \/ k < dirIndex <=> k < dirIndex'
    BY <1>2, <1>5
  <2> QED  BY <2>3, <2>4, <2>5
<1>14. ASSUME NEW f \in 1..file, NEW i \in 0..Slots(f) - 1
       PROVE  img'[EntryAt(EntryOf(f) + i)] = EntryIn(f, i)
  <2>1. CASE f = file
    <3>1. dirIndex + i \in es /\ (dirIndex + i) - dirIndex = i
      BY <1>5, <1>14, <2>1
    <3> QED  BY <1>3, <1>5, <2>1, <3>1
  <2>2. CASE f # file
    <3>1. f \in 1..file - 1 /\ f \in 1..3 /\ f < file
      BY <1>1, <1>14, <2>2
    <3>2. EntryOf(f) + Slots(f) <= EntryOf(file) /\ EntryOf(f) \in Nat /\ Slots(f) \in Nat
      BY <1>1, <3>1, Sums
    <3>3. EntryOf(f) + i \in 0..dirIndex - 1
          /\ EntryOf(f) + i \in 0..drive.rootEntries - 1
      BY <1>2, <1>5, <1>14, <3>2
    <3>4. EntryAt(EntryOf(f) + i) \in DOMAIN img
      BY <1>1, <1>5, <3>3 DEF Listing
    <3>5. img'[EntryAt(EntryOf(f) + i)] = img[EntryAt(EntryOf(f) + i)]
      BY <1>8, <3>3, <3>4
    <3> QED  BY <1>1, <1>14, <3>1, <3>5 DEF Listing
  <2> QED  BY <2>1, <2>2
<1>15. ASSUME NEW f \in 1..file, NEW i \in 0..Share(f) - 1
       PROVE  /\ ClusterAt(ClusterOf(f) + i) \in DOMAIN img'
              /\ img'[ClusterAt(ClusterOf(f) + i)] = [file |-> f, chunk |-> i + 1]
              /\ ClusterOf(f) + i \in DOMAIN fat'
              /\ fat'[ClusterOf(f) + i] = IF i = Share(f) - 1 THEN EndOfChain
                                          ELSE ClusterOf(f) + i + 1
  <2>1. CASE f = file
    <3>1. nextCluster + i \in cs /\ (nextCluster + i) - nextCluster + 1 = i + 1
          /\ (nextCluster + i = nextCluster + m - 1 <=> i = Share(f) - 1)
      BY <1>5, <1>15, <2>1 DEF m
    <3> QED  BY <1>3, <1>4, <1>5, <2>1, <3>1
  <2>2. CASE f # file
    <3>1. f \in 1..file - 1 /\ f \in 1..3 /\ f < file
      BY <1>1, <1>15, <2>2
    <3>2. ClusterOf(f) + Share(f) <= ClusterOf(file) /\ ClusterOf(f) \in Nat
          /\ ClusterOf(f) >= 2 /\ Share(f) \in Nat
      BY <1>1, <3>1, Sums
    <3>3. ClusterOf(f) + i \in 2..nextCluster - 1
      BY <1>5, <1>15, <3>2
    <3>4. /\ ClusterAt(ClusterOf(f) + i) \in DOMAIN img
          /\ img[ClusterAt(ClusterOf(f) + i)] = [file |-> f, chunk |-> i + 1]
      BY <1>1, <1>15, <3>1 DEF Contents
    <3>5. img'[ClusterAt(ClusterOf(f) + i)] = img[ClusterAt(ClusterOf(f) + i)]
      BY <1>8, <3>3, <3>4
    <3>6. /\ ClusterOf(f) + i \in DOMAIN fat
          /\ fat[ClusterOf(f) + i] = IF i = Share(f) - 1 THEN EndOfChain
                                     ELSE ClusterOf(f) + i + 1
      BY <1>1, <1>15, <3>1 DEF Chained
    <3>7. ClusterOf(f) + i \notin cs
      BY <1>5, <3>3
    <3>8. fat'[ClusterOf(f) + i] = fat[ClusterOf(f) + i]
      BY <1>4, <3>6, <3>7
    <3> QED  BY <1>3, <1>4, <3>4, <3>5, <3>6, <3>8
  <2> QED  BY <2>1, <2>2
<1>16. Listing' /\ Contents' /\ Chained'
  <2>1. \A f : (f \in 1..file - 1)' <=> f \in 1..file
    BY <1>1, <1>2
  <2>2. drive'.rootEntries = drive.rootEntries
    BY <1>2
  <2>3. Listing'
    <3>1. \A k \in 0..drive'.rootEntries - 1 : EntryAt(k)' \in DOMAIN img' <=> k < dirIndex'
      BY <1>2, <1>13, SamePlaces
    <3>2. \A f \in 1..file : \A i \in 0..Slots(f)' - 1 :
            img'[EntryAt(EntryOf(f) + i)'] = EntryIn(f, i)'
      BY <1>2, <1>14, SamePlaces
    <3> QED  BY <2>1, <3>1, <3>2 DEF Listing
  <2>4. Contents'
    <3> SUFFICES ASSUME NEW f \in 1..file' - 1, NEW i \in 0..Share(f)' - 1
                 PROVE  /\ ClusterAt(ClusterOf(f) + i)' \in DOMAIN img'
                        /\ img'[ClusterAt(ClusterOf(f) + i)'] = [file |-> f, chunk |-> i + 1]
      BY DEF Contents
    <3>1. f \in 1..file /\ Share(f)' = Share(f)
          /\ ClusterAt(ClusterOf(f) + i)' = ClusterAt(ClusterOf(f) + i)
      BY <1>2, <2>1, SamePlaces
    <3> QED  BY <1>15, <3>1
  <2>5. Chained'
    <3> SUFFICES ASSUME NEW f \in 1..file' - 1, NEW i \in 0..Share(f)' - 1
                 PROVE  /\ ClusterOf(f)' + i \in DOMAIN fat'
                        /\ fat'[ClusterOf(f)' + i] =
                             IF i = Share(f)' - 1 THEN EndOfChain
                             ELSE ClusterOf(f)' + i + 1
      BY DEF Chained
    <3>1. f \in 1..file /\ Share(f)' = Share(f) /\ ClusterOf(f)' = ClusterOf(f)
      BY <1>2, <2>1, SamePlaces
    <3>2. i \in 0..Share(f) - 1
      BY <3>1
    <3>3. /\ ClusterOf(f) + i \in DOMAIN fat'
          /\ fat'[ClusterOf(f) + i] = IF i = Share(f) - 1 THEN EndOfChain
                                      ELSE ClusterOf(f) + i + 1
      BY <1>15, <3>1, <3>2
    <3> QED  BY <3>1, <3>3
  <2> QED  BY <2>3, <2>4, <2>5
<1>17. Copied'
  BY <1>1, <1>2 DEF Copied
<1>18. Inside'
  <2>1. FatEntries(drive, spf)' = FatEntries(drive, spf) /\ Bytes(drive)' = Bytes(drive)
    BY <1>2
  <2>2. \A c \in cs : c \in 0..FatEntries(drive, spf) - 1
    <3>1. /\ FatEntries(drive, spf) \in Int
          /\ FatEntries(drive, spf) >= Clusters(drive, spf) + 2
      BY <1>1, EnoughEntries
    <3> QED  BY <1>5, <1>6, <3>1
  <2>3. \A c \in cs : ClusterAt(c) \in 0..Bytes(drive) - 1
    <3> TAKE c \in cs
    <3>1. c \in 2..Clusters(drive, spf) + 1
      BY <1>5, <1>6
    <3>2. ClusterAt(c) \in Nat /\ ClusterAt(c) + ClusterSize(drive) <= Bytes(drive)
      BY <1>1, <3>1, ClusterAreas
    <3>3. ClusterSize(drive) \in Nat \ {0} /\ Bytes(drive) \in Nat
      BY <1>1, Areas
    <3> QED  BY <3>2, <3>3
  <2>4. \A k \in es : EntryAt(k) \in 0..Bytes(drive) - 1
    <3> TAKE k \in es
    <3>1. k \in 0..drive.rootEntries - 1
      BY <1>5, <1>6
    <3>2. EntryAt(k) \in Nat /\ EntryAt(k) < DataOffset(drive, spf)
      BY <1>1, <3>1, EntryAreas
    <3>3. /\ DataOffset(drive, spf) \in Nat /\ Bytes(drive) \in Nat
          /\ DataOffset(drive, spf) <= Bytes(drive)
      BY <1>1, Areas
    <3> QED  BY <3>2, <3>3
  <2> QED  BY <1>1, <1>3, <1>4, <2>1, <2>2, <2>3, <2>4 DEF Inside
<1> QED
  BY <1>1, <1>2, <1>9, <1>11, <1>12, <1>16, <1>17, <1>18 DEF Image

LEMMA SkipEmptyStep ==
  ASSUME Image, SkipEmpty
  PROVE  Image'
<1>1. /\ pc = "files" /\ file \in 1..3 /\ Counted /\ Booted /\ Listing /\ Contents
      /\ Chained /\ Inside /\ Settled
  BY KnownFiles, SettledFrom DEF SkipEmpty, Writing, Image, Counted
<1>2. /\ size[file] = 0 /\ file' = file + 1
      /\ UNCHANGED <<drive, size, pc, spf, nextCluster, dirIndex, fat, img>>
  BY DEF SkipEmpty, input
<1>3. /\ Share(file) = 0 /\ Slots(file) = 0
      /\ ClusterOf(file + 1) = ClusterOf(file) /\ EntryOf(file + 1) = EntryOf(file)
  BY <1>1, <1>2, Sums
<1>4. Sized'
  BY SizedStep DEF Image, Next
<1>5. Counted'
  <2>1. ClusterOf(file)' = ClusterOf(file + 1) /\ EntryOf(file)' = EntryOf(file + 1)
    BY <1>2, SamePlaces
  <2>2. file' \in 1..4
    BY <1>1, <1>2
  <2> QED  BY <1>1, <1>2, <1>3, <2>1, <2>2 DEF Counted
<1>6. Booted' /\ Inside'
  BY <1>1, <1>2, SamePlaces DEF Booted, Inside
<1>7. ASSUME NEW f \in 1..file' - 1
      PROVE  /\ Share(f)' = Share(f) /\ ClusterOf(f)' = ClusterOf(f)
             /\ Slots(f)' = Slots(f) /\ EntryOf(f)' = EntryOf(f)
             /\ f # file => f \in 1..file - 1
  BY <1>1, <1>2, <1>7, SamePlaces
<1>8. Listing'
  <2>1. ASSUME NEW f \in 1..file' - 1, NEW i \in 0..Slots(f)' - 1
        PROVE  img'[EntryAt(EntryOf(f) + i)'] = EntryIn(f, i)'
    <3>1. f # file
      BY <1>3, <1>7, <2>1
    <3>2. img[EntryAt(EntryOf(f) + i)] = EntryIn(f, i)
      BY <1>1, <1>7, <2>1, <3>1 DEF Listing
    <3> QED  BY <1>2, <1>7, <3>2, SamePlaces
  <2>2. \A k \in 0..drive'.rootEntries - 1 : EntryAt(k)' \in DOMAIN img' <=> k < dirIndex'
    BY <1>1, <1>2, SamePlaces DEF Listing
  <2> QED  BY <2>1, <2>2 DEF Listing
<1>9. Contents' /\ Chained'
  <2> SUFFICES ASSUME NEW f \in 1..file' - 1, NEW i \in 0..Share(f)' - 1
               PROVE  /\ ClusterAt(ClusterOf(f) + i)' \in DOMAIN img'
                      /\ img'[ClusterAt(ClusterOf(f) + i)'] = [file |-> f, chunk |-> i + 1]
                      /\ ClusterOf(f)' + i \in DOMAIN fat'
                      /\ fat'[ClusterOf(f)' + i] =
                           IF i = Share(f)' - 1 THEN EndOfChain
                           ELSE ClusterOf(f)' + i + 1
    BY DEF Contents, Chained
  <2>1. f # file
    BY <1>3, <1>7
  <2>2. i \in 0..Share(f) - 1 /\ f \in 1..file - 1
    BY <1>7, <2>1
  <2>3. /\ ClusterAt(ClusterOf(f) + i) \in DOMAIN img
        /\ img[ClusterAt(ClusterOf(f) + i)] = [file |-> f, chunk |-> i + 1]
    BY <1>1, <2>2 DEF Contents
  <2>4. /\ ClusterOf(f) + i \in DOMAIN fat
        /\ fat[ClusterOf(f) + i] = IF i = Share(f) - 1 THEN EndOfChain
                                   ELSE ClusterOf(f) + i + 1
    BY <1>1, <2>2 DEF Chained
  <2>5. ClusterAt(ClusterOf(f) + i)' = ClusterAt(ClusterOf(f) + i)
    BY <1>2, SamePlaces
  <2>6. Share(f)' = Share(f) /\ ClusterOf(f)' = ClusterOf(f) /\ img' = img /\ fat' = fat
    BY <1>2, <1>7
  <2> QED  BY <2>3, <2>4, <2>5, <2>6
<1>10. Copied'
  BY <1>1, <1>2 DEF Copied
<1> QED
  BY <1>1, <1>2, <1>4, <1>5, <1>6, <1>8, <1>9, <1>10 DEF Image

LEMMA FailsStep ==
  ASSUME Image, Fails
  PROVE  Image'
<1>1. /\ pc = "files" /\ file \in 1..3 /\ Counted /\ Settled
      /\ size[file] # 0 /\ pc' = "failed"
      /\ UNCHANGED <<drive, size, spf, file, nextCluster, dirIndex, fat, img>>
  BY KnownFiles, SettledFrom DEF Fails, Writing, Image, Counted, input
<1>2. \/ nextCluster + Share(file) > Clusters(drive, spf) + 2
      \/ dirIndex + LfnEntries(files[file]) >= drive.rootEntries
  <2>1. CASE \E c \in Chain : ~Fits(c)
    BY <1>1, <2>1, ChainEnds DEF Counted
  <2>2. CASE ~EntriesFit
    <3>1. dirIndex + LfnEntries(files[file]) \in Int /\ drive.rootEntries \in Int
      <4>1. dirIndex = EntryOf(file) /\ file \in 1..4 /\ drive \in Drives
        BY <1>1 DEF Counted, Settled
      <4>2. EntryOf(file) \in Nat /\ LfnEntries(files[file]) \in {1, 2}
        BY <1>1, Sums
      <4>3. drive.rootEntries \in Int
        BY <4>1, Dimensions
      <4> QED  BY <4>1, <4>2, <4>3
    <3> QED  BY <2>2, <3>1 DEF EntriesFit
  <2> QED  BY <2>1, <2>2 DEF Fails
<1>3. Sized'
  BY SizedStep DEF Image, Next
<1>4. Share(file)' = Share(file) /\ Clusters(drive, spf)' = Clusters(drive, spf)
  BY <1>1, SamePlaces
<1>5. Counted' /\ Booted' /\ Inside'
  BY <1>1, SamePlaces DEF Image, Counted, Booted, Inside
<1>6. Listing'
  BY <1>1, SamePlaces DEF Image, Listing
<1>7. Contents' /\ Chained'
  BY <1>1 DEF Image, Contents, Chained, Share, ClusterOf, ClusterAt
<1>8. Copied'
  BY <1>1 DEF Copied
<1> QED
  BY <1>1, <1>2, <1>3, <1>4, <1>5, <1>6, <1>7, <1>8 DEF Image

LEMMA WriteFATsStep ==
  ASSUME Image, WriteFATs
  PROVE  Image'
<1> DEFINE copies == [o \in {CopyAt(i) : i \in 0..NumFATs - 1} |-> fat]
<1>1. /\ pc = "files" /\ file = 4 /\ Counted /\ Booted /\ Listing /\ Contents
      /\ Chained /\ Inside /\ Settled
  BY KnownFiles, SettledFrom DEF WriteFATs, Image, Counted
<1>2. /\ pc' = "done" /\ img' = Over(copies, img)
      /\ UNCHANGED <<drive, size, spf, file, nextCluster, dirIndex, fat>>
  BY DEF WriteFATs, CopyAt, input
<1>3. /\ DOMAIN copies = {CopyAt(i) : i \in 0..NumFATs - 1}
      /\ \A i \in 0..NumFATs - 1 : copies[CopyAt(i)] = fat
  OBVIOUS
<1> HIDE DEF copies
<1>4. /\ DOMAIN img' = DOMAIN copies \cup DOMAIN img
      /\ \A o \in DOMAIN copies : img'[o] = copies[o]
      /\ \A o \in DOMAIN img : o \notin DOMAIN copies => img'[o] = img[o]
  <2>1. /\ DOMAIN Over(copies, img) = DOMAIN copies \cup DOMAIN img
        /\ \A o \in DOMAIN copies : Over(copies, img)[o] = copies[o]
        /\ \A o \in DOMAIN img : o \notin DOMAIN copies => Over(copies, img)[o] = img[o]
    BY OverAt
  <2> QED  BY <1>2, <2>1
<1>5. /\ RootOffset(drive, spf) \in Nat /\ DataOffset(drive, spf) \in Nat
      /\ DataOffset(drive, spf) >= RootOffset(drive, spf)
      /\ Bytes(drive) \in Nat /\ DataOffset(drive, spf) <= Bytes(drive)
      /\ \A o \in DOMAIN copies : o \in Nat \ {0} /\ o < RootOffset(drive, spf)
  <2>1. DataOffset(drive, spf) >= RootOffset(drive, spf)
    <3>1. EntryAt(0) >= RootOffset(drive, spf) /\ EntryAt(0) < DataOffset(drive, spf)
          /\ EntryAt(0) \in Nat
      <4>1. drive.rootEntries \in Nat \ {0}
        BY <1>1, Dimensions DEF Settled
      <4>2. 0 \in 0..drive.rootEntries - 1
        BY <4>1
      <4> QED  BY <1>1, <4>2, EntryAreas
    <3>2. RootOffset(drive, spf) \in Nat /\ DataOffset(drive, spf) \in Nat
      BY <1>1, Areas
    <3> QED  BY <3>1, <3>2
  <2>2. \A i \in 0..NumFATs - 1 : CopyAt(i) \in Nat \ {0} /\ CopyAt(i) < RootOffset(drive, spf)
    BY <1>1, Areas
  <2>3. \A o \in DOMAIN copies : o \in Nat \ {0} /\ o < RootOffset(drive, spf)
    BY <1>3, <2>2
  <2>4. /\ RootOffset(drive, spf) \in Nat /\ DataOffset(drive, spf) \in Nat
        /\ Bytes(drive) \in Nat /\ DataOffset(drive, spf) <= Bytes(drive)
    BY <1>1, Areas
  <2> QED  BY <2>1, <2>3, <2>4
<1>6. /\ 0 \notin DOMAIN copies
      /\ \A k \in 0..drive.rootEntries - 1 : EntryAt(k) \notin DOMAIN copies
      /\ \A c \in 2..Clusters(drive, spf) + 1 : ClusterAt(c) \notin DOMAIN copies
  <2>1. 0 \notin DOMAIN copies
    BY <1>5
  <2>2. ASSUME NEW k \in 0..drive.rootEntries - 1 PROVE EntryAt(k) \notin DOMAIN copies
    <3>1. EntryAt(k) \in Nat /\ EntryAt(k) >= RootOffset(drive, spf)
      BY <1>1, EntryAreas
    <3> QED  BY <1>5, <3>1
  <2>3. ASSUME NEW c \in 2..Clusters(drive, spf) + 1 PROVE ClusterAt(c) \notin DOMAIN copies
    <3>1. ClusterAt(c) \in Nat /\ ClusterAt(c) >= DataOffset(drive, spf)
      BY <1>1, ClusterAreas
    <3> QED  BY <1>5, <3>1
  <2> QED  BY <2>1, <2>2, <2>3
<1>7. /\ nextCluster \in Nat /\ nextCluster >= 2 /\ nextCluster <= Clusters(drive, spf) + 2
      /\ dirIndex \in Nat /\ dirIndex >= 1 /\ dirIndex <= drive.rootEntries
      /\ drive.rootEntries \in Nat /\ Clusters(drive, spf) \in Nat
      /\ nextCluster = ClusterOf(4) /\ dirIndex = EntryOf(4)
  BY <1>1, Sums, Dimensions, FewClusters DEF Counted, Settled
<1>8. Sized'
  BY SizedStep DEF Image, Next
<1>9. Counted'
  BY <1>1, <1>2, SamePlaces DEF Counted
<1>10. Booted'
  <2>1. 0 \in 0..drive.rootEntries - 1 /\ 0 < dirIndex
    BY <1>7
  <2>2. EntryAt(0) \in DOMAIN img
    BY <1>1, <2>1 DEF Listing
  <2>3. /\ img'[0] = img[0] /\ 0 \in DOMAIN img'
        /\ img'[EntryAt(0)] = img[EntryAt(0)]
    BY <1>1, <1>4, <1>6, <2>1, <2>2 DEF Booted
  <2> QED  BY <1>1, <1>2, <2>3, SamePlaces DEF Booted
<1>11. Listing'
  <2>1. ASSUME NEW f \in 1..file' - 1, NEW i \in 0..Slots(f)' - 1
        PROVE  img'[EntryAt(EntryOf(f) + i)'] = EntryIn(f, i)'
    <3>1. /\ f \in 1..3 /\ f \in 1..file - 1 /\ i \in 0..Slots(f) - 1
          /\ EntryAt(EntryOf(f) + i)' = EntryAt(EntryOf(f) + i)
          /\ EntryIn(f, i)' = EntryIn(f, i)
      BY <1>1, <1>2, SamePlaces
    <3>2. EntryOf(f) + Slots(f) <= EntryOf(4) /\ EntryOf(f) \in Nat /\ Slots(f) \in Nat
      BY <1>1, <3>1, Sums
    <3>3. EntryOf(f) + i \in 0..drive.rootEntries - 1 /\ EntryOf(f) + i < dirIndex
      BY <1>7, <3>1, <3>2
    <3>4. EntryAt(EntryOf(f) + i) \in DOMAIN img
          /\ EntryAt(EntryOf(f) + i) \notin DOMAIN copies
      BY <1>1, <1>6, <3>3 DEF Listing
    <3>5. img[EntryAt(EntryOf(f) + i)] = EntryIn(f, i)
      BY <1>1, <3>1 DEF Listing
    <3> QED  BY <1>4, <3>1, <3>4, <3>5
  <2>2. \A k \in 0..drive.rootEntries - 1 : EntryAt(k) \in DOMAIN img' <=> k < dirIndex
    BY <1>1, <1>4, <1>6 DEF Listing
  <2>3. \A k \in 0..drive'.rootEntries - 1 : EntryAt(k)' \in DOMAIN img' <=> k < dirIndex'
    BY <1>2, <2>2, SamePlaces
  <2> QED  BY <2>1, <2>3 DEF Listing
<1>12. Contents'
  <2> SUFFICES ASSUME NEW f \in 1..file' - 1, NEW i \in 0..Share(f)' - 1
               PROVE  /\ ClusterAt(ClusterOf(f) + i)' \in DOMAIN img'
                      /\ img'[ClusterAt(ClusterOf(f) + i)'] = [file |-> f, chunk |-> i + 1]
    BY DEF Contents
  <2>1. /\ f \in 1..3 /\ f \in 1..file - 1 /\ i \in 0..Share(f) - 1
        /\ ClusterAt(ClusterOf(f) + i)' = ClusterAt(ClusterOf(f) + i)
    BY <1>1, <1>2, SamePlaces
  <2>2. ClusterOf(f) + Share(f) <= ClusterOf(4) /\ ClusterOf(f) \in Nat
        /\ ClusterOf(f) >= 2 /\ Share(f) \in Nat
    BY <1>1, <2>1, Sums
  <2>3. ClusterOf(f) + i \in 2..Clusters(drive, spf) + 1
    BY <1>7, <2>1, <2>2
  <2>4. /\ ClusterAt(ClusterOf(f) + i) \in DOMAIN img
        /\ img[ClusterAt(ClusterOf(f) + i)] = [file |-> f, chunk |-> i + 1]
    BY <1>1, <2>1 DEF Contents
  <2>5. ClusterAt(ClusterOf(f) + i) \notin DOMAIN copies
    BY <1>6, <2>3
  <2> QED  BY <1>4, <2>1, <2>4, <2>5
<1>13. Chained'
  BY <1>1, <1>2 DEF Chained, Share, ClusterOf
<1>14. Copied'
  <2>1. \A i \in 0..NumFATs - 1 : CopyAt(i) \in DOMAIN img' /\ img'[CopyAt(i)] = fat
    BY <1>3, <1>4
  <2> QED  BY <1>1, <1>2, <2>1, SamePlaces DEF Copied
<1>15. Inside'
  <2>1. FatEntries(drive, spf)' = FatEntries(drive, spf) /\ Bytes(drive)' = Bytes(drive)
    BY <1>2
  <2>2. DOMAIN copies \subseteq 0..Bytes(drive) - 1
    BY <1>5
  <2> QED  BY <1>1, <1>2, <1>4, <2>1, <2>2 DEF Inside
<1> QED
  BY <1>1, <1>2, <1>8, <1>9, <1>10, <1>11, <1>12, <1>13, <1>14, <1>15 DEF Image

(* The image never holds anything but its boot sector, the directory and   *)
(* the clusters of the files that were written, and the FAT's copies.      *)
LEMMA ImageHolds == Spec => []Image
<1>1. Init => Image
  <2> SUFFICES ASSUME Init PROVE Image
    OBVIOUS
  <2>1. Sized
    BY DEF Init, Sized
  <2> QED  BY <2>1 DEF Init, Image
<1>2. Image /\ [Next]_vars => Image'
  <2> SUFFICES ASSUME Image, [Next]_vars PROVE Image'
    OBVIOUS
  <2>1. CASE Grow
    <3>1. Sized'
      BY SizedStep DEF Image
    <3> QED  BY <2>1, <3>1 DEF Grow, Image, input
  <2>2. CASE UNCHANGED vars
    <3>1. Sized'
      BY SizedStep DEF Image
    <3>2. UNCHANGED <<drive, size, pc, spf, file, nextCluster, dirIndex, fat, img>>
      BY <2>2 DEF vars
    <3> QED
      BY <3>1, <3>2 DEF Image, Counted, Booted, Listing, Contents, Chained, Copied,
         Inside, Share, Slots, ClusterOf, EntryOf, EntryIn, EntryAt, ClusterAt, CopyAt,
         BootSector
  <2> QED
    BY <2>1, <2>2, SettlesStep, SkipEmptyStep, WriteFileStep, FailsStep, WriteFATsStep
       DEF Next
<1> QED  BY <1>1, <1>2, PTL DEF Spec

(* Every variable keeps its type, and nothing is written outside its area: *)
(* the FAT has an entry for every cluster that is used, the directory does *)
(* not run into the data, and no number is too large for its 16 bits.      *)
THEOREM TypeCorrect == Spec => []TypeOK
<1>1. Image => TypeOK
  <2> SUFFICES ASSUME Image PROVE TypeOK
    OBVIOUS
  <2>1. /\ Settled \/ pc = "geometry"
        /\ drive \in Drives /\ size \in [1..Len(files) -> Sizes]
        /\ pc \in {"geometry", "files", "done", "failed"}
        /\ spf \in Nat \ {0} /\ spf \in {1, Needed(drive, 1)}
    BY SettledFrom DEF Image, Sized
  <2>2. spf < Word /\ drive.rootEntries \in Nat /\ Word \in Nat /\ Word > 3
    BY <2>1, SmallFAT, Dimensions DEF Word
  <2>3. Len(files) = 3
    BY KnownFiles
  <2>4. CASE pc = "geometry"
    <3>1. file = 1 /\ nextCluster = 2 /\ dirIndex = 0 /\ fat = <<>> /\ img = <<>>
      BY <2>4 DEF Image
    <3>2. DOMAIN fat = {} /\ DOMAIN img = {}
      BY <3>1
    <3>3. file \in 1..Len(files) + 1 /\ nextCluster \in 2..Word - 1
          /\ dirIndex \in 0..drive.rootEntries
      BY <2>2, <2>3, <3>1
    <3> QED  BY <2>1, <2>2, <3>2, <3>3 DEF TypeOK
  <2>5. CASE pc # "geometry"
    <3>1. Counted /\ Inside /\ Settled
      BY <2>5, SettledFrom DEF Image
    <3>2. /\ Clusters(drive, spf) \in Nat /\ Clusters(drive, spf) + 2 < Word
          /\ nextCluster \in Nat /\ nextCluster >= 2
          /\ nextCluster <= Clusters(drive, spf) + 2
          /\ dirIndex \in Nat /\ dirIndex <= drive.rootEntries /\ file \in 1..4
      BY <3>1, FewClusters, Sums DEF Counted
    <3>3. file \in 1..Len(files) + 1 /\ nextCluster \in 2..Word - 1
          /\ dirIndex \in 0..drive.rootEntries
      BY <2>2, <2>3, <3>2
    <3> QED  BY <2>1, <2>2, <3>1, <3>3 DEF TypeOK, Inside
  <2> QED  BY <2>4, <2>5
<1> QED  BY <1>1, ImageHolds, PTL

(* A sum over the files, written out.                                      *)
LEMMA TotalIs ==
  ASSUME NEW q, \A f \in 1..3 : q[f] \in Nat
  PROVE  Total(q) = (IF size[1] = 0 THEN 0 ELSE q[1])
                      + (IF size[2] = 0 THEN 0 ELSE q[2])
                      + (IF size[3] = 0 THEN 0 ELSE q[3])
<1> DEFINE T(i) == IF size[i] = 0 THEN 0 ELSE q[i]
           Sum(i) == (IF i > 0 THEN T(1) ELSE 0) + (IF i > 1 THEN T(2) ELSE 0)
                       + (IF i > 2 THEN T(3) ELSE 0)
           Adds(s) == s = [i \in 0..Len(files) |->
                             IF i = 0 THEN 0 ELSE s[i - 1] + T(i)]
           sum == CHOOSE s : Adds(s)
           g == [i \in 0..3 |-> Sum(i)]
<1>1. Len(files) = 3
  BY KnownFiles
<1>2. T(1) \in Nat /\ T(2) \in Nat /\ T(3) \in Nat
  OBVIOUS
<1>3. Total(q) = sum[3]
  BY <1>1 DEF Total
<1> HIDE DEF T
<1>4. Adds(g)
  <2>1. \A i \in 1..3 : g[i] = g[i - 1] + T(i)
    <3>1. /\ g[0] = 0 /\ g[1] = T(1) /\ g[2] = T(1) + T(2)
          /\ g[3] = T(1) + T(2) + T(3)
      BY <1>2
    <3>2. \A i \in 1..3 : i = 1 \/ i = 2 \/ i = 3
      OBVIOUS
    <3> QED  BY <1>2, <3>1, <3>2
  <2>2. g[0] = 0
    BY <1>2
  <2> QED  BY <1>1, <2>1, <2>2
<1>5. Adds(sum)
  <2> HIDE DEF g, Adds
  <2> QED  BY <1>4
<1> HIDE DEF sum
<1>6. sum[0] = 0 /\ \A i \in 1..3 : sum[i] = sum[i - 1] + T(i)
  BY <1>1, <1>5
<1>7. sum[1] = sum[0] + T(1) /\ sum[2] = sum[1] + T(2) /\ sum[3] = sum[2] + T(3)
  BY <1>6
<1>8. sum[3] = T(1) + T(2) + T(3)
  BY <1>2, <1>6, <1>7
<1> QED  BY <1>3, <1>8 DEF T

(* Contents are refused only when the clusters or the directory entries of *)
(* all the files together are more than there are: nothing is lost between *)
(* one file and the next.                                                  *)
THEOREM RefusedHolds == Spec => []RefusedOnlyIfFull
<1>1. Image => RefusedOnlyIfFull
  <2> SUFFICES ASSUME Image, pc = "failed" PROVE RefusedOnlyIfFull
    BY DEF RefusedOnlyIfFull
  <2> DEFINE shares == [i \in DOMAIN files |-> Ceil(size[i], ClusterSize(drive))]
             slots == [i \in DOMAIN files |-> LfnEntries(files[i]) + 1]
  <2>1. /\ Settled /\ file \in 1..3 /\ size[file] # 0
        /\ nextCluster = ClusterOf(file) /\ dirIndex = EntryOf(file)
        /\ \/ nextCluster + Share(file) > Clusters(drive, spf) + 2
           \/ dirIndex + LfnEntries(files[file]) >= drive.rootEntries
    BY SettledFrom DEF Image, Counted
  <2>2. /\ \A f \in 1..3 : /\ Share(f) \in Nat /\ (Share(f) = 0 <=> size[f] = 0)
                           /\ LfnEntries(files[f]) \in Nat
    BY <2>1, Sums
  <2>3. /\ \A f \in 1..3 : shares[f] = Share(f) /\ slots[f] = LfnEntries(files[f]) + 1
    BY KnownFiles DEF Share
  <2> HIDE DEF shares, slots
  <2>4. Total(shares) = Share(1) + Share(2) + Share(3)
    <3>1. \A f \in 1..3 : shares[f] \in Nat
      BY <2>2, <2>3
    <3>2. Total(shares) = (IF size[1] = 0 THEN 0 ELSE shares[1])
                            + (IF size[2] = 0 THEN 0 ELSE shares[2])
                            + (IF size[3] = 0 THEN 0 ELSE shares[3])
      BY <3>1, TotalIs
    <3>3. \A f \in 1..3 : (IF size[f] = 0 THEN 0 ELSE shares[f]) = Share(f)
      BY <2>2, <2>3
    <3> QED  BY <3>2, <3>3
  <2>5. Total(slots) = Slots(1) + Slots(2) + Slots(3)
    <3>1. \A f \in 1..3 : slots[f] \in Nat
      BY <2>2, <2>3
    <3>2. Total(slots) = (IF size[1] = 0 THEN 0 ELSE slots[1])
                            + (IF size[2] = 0 THEN 0 ELSE slots[2])
                            + (IF size[3] = 0 THEN 0 ELSE slots[3])
      BY <3>1, TotalIs
    <3>3. \A f \in 1..3 : (IF size[f] = 0 THEN 0 ELSE slots[f]) = Slots(f)
      BY <2>3 DEF Slots
    <3> QED  BY <3>2, <3>3
  <2>6. /\ \A f \in 1..3 : Share(f) \in Nat /\ Slots(f) \in Nat
        /\ Slots(file) = LfnEntries(files[file]) + 1
        /\ LfnEntries(files[file]) \in Nat
    <3>1. \A f \in 1..3 : Slots(f) \in 0..3
      BY <2>1, Sums
    <3> QED  BY <2>1, <2>2, <3>1 DEF Slots
  <2>7. /\ ClusterOf(file) + Share(file) <= 2 + Total(shares)
        /\ EntryOf(file) + Slots(file) <= 1 + Total(slots)
    <3>1. file = 1 \/ file = 2 \/ file = 3
      BY <2>1
    <3>2. /\ Share(1) \in Nat /\ Share(2) \in Nat /\ Share(3) \in Nat
          /\ Slots(1) \in Nat /\ Slots(2) \in Nat /\ Slots(3) \in Nat
      BY <2>6
    <3>3. ClusterOf(file) + Share(file) <= 2 + Total(shares)
      BY <2>4, <3>1, <3>2 DEF ClusterOf
    <3>4. EntryOf(file) + Slots(file) <= 1 + Total(slots)
      BY <2>5, <3>1, <3>2 DEF EntryOf
    <3> QED  BY <3>3, <3>4
  <2>8. /\ Total(shares) \in Nat /\ Total(slots) \in Nat
        /\ Clusters(drive, spf) \in Nat /\ drive.rootEntries \in Nat
        /\ ClusterOf(file) \in Nat /\ EntryOf(file) \in Nat
    <3>1. Total(shares) \in Nat /\ Total(slots) \in Nat
      BY <2>4, <2>5, <2>6
    <3>2. drive \in Drives
      BY <2>1 DEF Settled
    <3> QED  BY <2>1, <3>1, <3>2, FewClusters, Dimensions, Sums
  <2>9. Total(shares) > Clusters(drive, spf) \/ 1 + Total(slots) > drive.rootEntries
    BY <2>1, <2>6, <2>7, <2>8
  <2> QED  BY <2>9 DEF RefusedOnlyIfFull, shares, slots
<1> QED  BY <1>1, ImageHolds, PTL

-----------------------------------------------------------------------------
(* Reading the image: a driver finds what the invariant says was written.  *)
Less == {p \in Nat \X Nat : p[1] < p[2]}

LEMMA Least ==
  ASSUME NEW T, T \subseteq Nat, T # {}
  PROVE  \E x \in T : \A y \in T : x <= y
<1>1. IsWellFoundedOn(Less, Nat)
  BY NatLessThanWellFounded DEF OpToRel, Less
<1>2. PICK x \in T : \A y \in T : <<y, x>> \notin Less
  BY <1>1, WFMin, Zenon
<1>3. \A y \in T : x <= y
  <2> TAKE y \in T
  <2>1. x \in Nat /\ y \in Nat /\ <<y, x>> \notin Less
    BY <1>2
  <2>2. ~(y < x)
    BY <2>1 DEF Less
  <2> QED  BY <2>1, <2>2
<1> QED  BY <1>3

(* A chain of consecutive clusters is followed to its end.  The first      *)
(* cluster that is not where it should be has one before it that is.       *)
LEMMA Followed ==
  ASSUME NEW copy, NEW c \in Nat, NEW n \in Nat \ {0},
         \A i \in 0..n - 2 : c + i \in DOMAIN copy /\ copy[c + i] = c + i + 1
  PROVE  \A j \in 1..n : Follow(copy, c, n)[j] = c + j - 1
<1> DEFINE After(b) == IF b \in DOMAIN copy THEN copy[b] ELSE 0
           Follows(s) == s = [i \in 1..n |-> IF i = 1 THEN c ELSE After(s[i - 1])]
           chain == CHOOSE s : Follows(s)
           g == [i \in 1..n |-> c + i - 1]
           T == {j \in 1..n : chain[j] # c + j - 1}
<1>1. Follow(copy, c, n) = chain
  BY DEF Follow
<1>2. \A i \in 2..n : After(c + (i - 2)) = c + i - 1
  <2> TAKE i \in 2..n
  <2>1. i - 2 \in 0..n - 2
    OBVIOUS
  <2>2. copy[c + (i - 2)] = c + (i - 2) + 1 /\ c + (i - 2) \in DOMAIN copy
    BY <2>1
  <2> QED  BY <2>2
<1> HIDE DEF After
<1>3. Follows(g)
  <2>1. \A i \in 1..n : g[i] = IF i = 1 THEN c ELSE After(g[i - 1])
    <3> TAKE i \in 1..n
    <3>1. CASE i = 1
      BY <3>1
    <3>2. CASE i # 1
      <4>1. i \in 2..n /\ i - 1 \in 1..n /\ g[i - 1] = c + (i - 2)
        BY <3>2
      <4>2. g[i] = c + i - 1
        OBVIOUS
      <4> QED  BY <1>2, <3>2, <4>1, <4>2
    <3> QED  BY <3>1, <3>2
  <2> QED  BY <2>1
<1>4. Follows(chain)
  <2> HIDE DEF g, Follows
  <2> QED  BY <1>3
<1> HIDE DEF chain
<1>5. chain[1] = c /\ \A i \in 2..n : chain[i] = After(chain[i - 1])
  BY <1>4
<1>6. T = {}
  <2> SUFFICES ASSUME T # {} PROVE FALSE
    OBVIOUS
  <2>1. PICK x \in T : \A y \in T : x <= y
    <3>1. T \subseteq Nat
      OBVIOUS
    <3> HIDE DEF T
    <3> QED  BY <3>1, Least
  <2>2. x \in 2..n /\ x - 1 \in 1..n /\ x - 1 \notin T /\ chain[x] # c + x - 1
    BY <1>5, <2>1
  <2>3. chain[x - 1] = c + (x - 2)
    BY <2>2
  <2> QED  BY <1>2, <1>5, <2>2, <2>3
<1> QED  BY <1>1, <1>6

(* The places a driver computes from the boot sector are those the image   *)
(* was written at.                                                         *)
LEMMA Driver ==
  ASSUME Settled, Booted
  PROVE  /\ Boot.rootEntries = drive.rootEntries
         /\ Boot.sectorsPerCluster * Boot.bytesPerSector = ClusterSize(drive)
         /\ (Boot.sectorsPerFAT * Boot.bytesPerSector) \div 2 = FatEntries(drive, spf)
         /\ Boot.numFATs = NumFATs
         /\ \A k \in Nat : Root(k) = At(EntryAt(k))
         /\ \A c \in Nat : Cluster(c) = At(ClusterAt(c))
         /\ \A i \in 0..NumFATs - 1 : FatCopy(i) = At(CopyAt(i))
<1> DEFINE b == drive.bytesPerSector
           p == drive.sectorsPerCluster
<1>1. /\ Boot.bytesPerSector = b /\ Boot.sectorsPerCluster = p
      /\ Boot.rootEntries = drive.rootEntries /\ Boot.sectorsPerFAT = spf
      /\ Boot.reservedSectors = ReservedSectors /\ Boot.numFATs = NumFATs
  BY BootFields DEF Booted, Boot
<1>2. b \in Nat /\ p \in Nat /\ spf \in Nat /\ drive.rootEntries \in Nat
  BY Dimensions DEF Settled
<1>3. RootStart = RootOffset(drive, spf)
  BY <1>1 DEF RootStart, RootOffset
<1>4. p * b = ClusterSize(drive) /\ (spf * b) \div 2 = FatEntries(drive, spf)
  BY DEF ClusterSize, FatEntries
<1>5. \A k \in Nat : Root(k) = At(EntryAt(k))
  BY <1>3 DEF Root, EntryAt
<1> HIDE DEF b, p
<1>6. \A c \in Nat : Cluster(c) = At(ClusterAt(c))
  <2> TAKE c \in Nat
  <2>1. (c - 2) * p * b = (c - 2) * (p * b)
    BY <1>2
  <2>2. ClusterAt(c) = RootOffset(drive, spf) + drive.rootEntries * EntryBytes
                         + (c - 2) * (p * b)
    BY <1>4 DEF ClusterAt, DataOffset
  <2>3. Cluster(c) = At(RootOffset(drive, spf) + drive.rootEntries * EntryBytes
                          + (c - 2) * p * b)
    BY <1>1, <1>3 DEF Cluster
  <2> QED  BY <2>1, <2>2, <2>3
<1>7. \A i \in 0..NumFATs - 1 : FatCopy(i) = At(CopyAt(i))
  <2> TAKE i \in 0..NumFATs - 1
  <2>1. i \in Nat
    BY DEF NumFATs
  <2>2. (1 + i * spf) * b = 1 * b + i * spf * b
    BY <1>2, <2>1
  <2>3. FatCopy(i) = At((1 + i * spf) * b)
    BY <1>1 DEF FatCopy, ReservedSectors
  <2>4. CopyAt(i) = 1 * b + i * spf * b
    BY DEF CopyAt, FatOffset, ReservedSectors, b
  <2> QED  BY <2>2, <2>3, <2>4
<1> QED  BY <1>1, <1>4, <1>5, <1>6, <1>7

Present == {f \in DOMAIN files : size[f] # 0}
ShortAt(f) == EntryOf(f) + LfnEntries(files[f])

(* Every entry of the directory but the label is one of a file that has    *)
(* content, and two files share none.                                      *)
LEMMA Spans ==
  ASSUME Settled
  PROVE  /\ Present \subseteq 1..3
         /\ \A f \in Present :
              /\ Slots(f) = LfnEntries(files[f]) + 1 /\ LfnEntries(files[f]) \in 1..2
              /\ ShortAt(f) \in Nat /\ ShortAt(f) = EntryOf(f) + Slots(f) - 1
              /\ ShortAt(f) < EntryOf(4) /\ EntryOf(f) >= 1
         /\ \A f, g \in Present : ShortAt(f) = ShortAt(g) => f = g
         /\ \A k \in 1..EntryOf(4) - 1 :
              \E f \in Present : \E i \in 0..Slots(f) - 1 : k = EntryOf(f) + i
<1>1. Present = {f \in 1..3 : size[f] # 0}
  BY KnownFiles DEF Present
<1>2. \A f \in 1..3 : /\ LfnEntries(files[f]) \in {1, 2} /\ Slots(f) \in 0..3
                      /\ (size[f] = 0 => Slots(f) = 0)
                      /\ (size[f] # 0 => Slots(f) = LfnEntries(files[f]) + 1)
                      /\ EntryOf(f + 1) = EntryOf(f) + Slots(f)
                      /\ EntryOf(f) \in Nat /\ EntryOf(f) >= 1
  BY Sums
<1>3. \A f \in 1..3, g \in 1..4 : f < g => EntryOf(f) + Slots(f) <= EntryOf(g)
  BY Sums
<1>4. EntryOf(1) = 1 /\ EntryOf(4) \in Nat
  BY Sums
<1>5. \A f \in Present :
        /\ Slots(f) = LfnEntries(files[f]) + 1 /\ LfnEntries(files[f]) \in 1..2
        /\ ShortAt(f) \in Nat /\ ShortAt(f) = EntryOf(f) + Slots(f) - 1
        /\ ShortAt(f) < EntryOf(4) /\ EntryOf(f) >= 1
  <2> TAKE f \in Present
  <2>1. f \in 1..3 /\ size[f] # 0
    BY <1>1
  <2>2. /\ LfnEntries(files[f]) \in {1, 2} /\ Slots(f) = LfnEntries(files[f]) + 1
        /\ EntryOf(f) \in Nat /\ EntryOf(f) >= 1
    BY <1>2, <2>1
  <2>3. EntryOf(f) + Slots(f) <= EntryOf(4)
    BY <1>3, <2>1
  <2> QED  BY <1>4, <2>2, <2>3 DEF ShortAt
<1>6. \A f, g \in Present : ShortAt(f) = ShortAt(g) => f = g
  <2>1. \A f, g \in Present : f < g => ShortAt(f) < ShortAt(g)
    <3> SUFFICES ASSUME NEW f \in Present, NEW g \in Present, f < g
                 PROVE  ShortAt(f) < ShortAt(g)
      OBVIOUS
    <3>1. f \in 1..3 /\ g \in 1..3 /\ EntryOf(f) + Slots(f) <= EntryOf(g)
      BY <1>1, <1>3
    <3>2. /\ EntryOf(g) \in Nat /\ LfnEntries(files[g]) \in 1..2
          /\ EntryOf(f) \in Nat /\ Slots(f) \in 0..3
          /\ ShortAt(f) = EntryOf(f) + Slots(f) - 1
      BY <1>2, <1>5, <3>1
    <3> QED  BY <3>1, <3>2 DEF ShortAt
  <2>2. \A f \in Present : f \in Int /\ ShortAt(f) \in Int
    BY <1>1, <1>5
  <2> QED  BY <2>1, <2>2
<1>7. \A k \in 1..EntryOf(4) - 1 :
        \E f \in Present : \E i \in 0..Slots(f) - 1 : k = EntryOf(f) + i
  <2> SUFFICES ASSUME NEW k \in 1..EntryOf(4) - 1
               PROVE  \E f \in Present : \E i \in 0..Slots(f) - 1 : k = EntryOf(f) + i
    OBVIOUS
  <2>1. \A f \in 1..3 : EntryOf(f) <= k /\ k < EntryOf(f + 1) =>
          f \in Present /\ k - EntryOf(f) \in 0..Slots(f) - 1
                        /\ k = EntryOf(f) + (k - EntryOf(f))
    <3> SUFFICES ASSUME NEW f \in 1..3, EntryOf(f) <= k, k < EntryOf(f + 1)
                 PROVE  f \in Present /\ k - EntryOf(f) \in 0..Slots(f) - 1
                                      /\ k = EntryOf(f) + (k - EntryOf(f))
      OBVIOUS
    <3>1. /\ EntryOf(f + 1) = EntryOf(f) + Slots(f) /\ EntryOf(f) \in Nat
          /\ Slots(f) \in 0..3 /\ k \in Nat /\ (size[f] = 0 => Slots(f) = 0)
      BY <1>2, <1>4
    <3> QED  BY <1>1, <3>1
  <2>2. \E f \in 1..3 : EntryOf(f) <= k /\ k < EntryOf(f + 1)
    <3>1. /\ 1 \in 1..3 /\ 2 \in 1..3 /\ 3 \in 1..3
          /\ 1 + 1 = 2 /\ 2 + 1 = 3 /\ 3 + 1 = 4
      OBVIOUS
    <3>2. EntryOf(2) \in Nat /\ EntryOf(3) \in Nat /\ k \in Nat
          /\ EntryOf(1) <= k /\ k < EntryOf(4)
      BY <1>2, <1>4
    <3>3. k < EntryOf(2) \/ (EntryOf(2) <= k /\ k < EntryOf(3)) \/ EntryOf(3) <= k
      BY <3>2
    <3> QED  BY <3>1, <3>2, <3>3
  <2> QED  BY <2>1, <2>2
<1> QED  BY <1>1, <1>5, <1>6, <1>7

(* What the root directory of a finished image holds, entry by entry.      *)
LEMMA RootHolds ==
  ASSUME Image, pc = "done"
  PROVE  /\ dirIndex = EntryOf(4) /\ dirIndex <= drive.rootEntries
         /\ \A k \in 0..drive.rootEntries - 1 : k >= dirIndex => Root(k) = Nothing
         /\ Root(0) = DirEntry("label", "cidata", 0, 0)
         /\ \A f \in Present : \A i \in 0..Slots(f) - 1 :
              Root(EntryOf(f) + i) = EntryIn(f, i)
<1>1. /\ Settled /\ Booted /\ Listing /\ file = 4
      /\ dirIndex = EntryOf(4) /\ dirIndex <= drive.rootEntries
  BY SettledFrom DEF Image, Copied, Counted
<1>2. /\ dirIndex \in Nat /\ dirIndex >= 1 /\ drive.rootEntries \in Nat
  <2>1. drive \in Drives
    BY <1>1 DEF Settled
  <2> QED  BY <1>1, <2>1, Sums, Dimensions
<1>3. \A k \in 0..drive.rootEntries - 1 :
        Root(k) = IF k < dirIndex THEN img[EntryAt(k)] ELSE Nothing
  <2> TAKE k \in 0..drive.rootEntries - 1
  <2>1. Root(k) = At(EntryAt(k))
    BY <1>1, Driver
  <2>2. EntryAt(k) \in DOMAIN img <=> k < dirIndex
    BY <1>1 DEF Listing
  <2> QED  BY <2>1, <2>2 DEF At
<1>4. \A k \in 0..drive.rootEntries - 1 : k >= dirIndex => Root(k) = Nothing
  BY <1>2, <1>3
<1>5. Root(0) = DirEntry("label", "cidata", 0, 0)
  <2>1. 0 \in 0..drive.rootEntries - 1 /\ 0 < dirIndex
    BY <1>1, <1>2
  <2> QED  BY <1>1, <1>3, <2>1 DEF Booted
<1>6. \A f \in Present : \A i \in 0..Slots(f) - 1 : Root(EntryOf(f) + i) = EntryIn(f, i)
  <2> SUFFICES ASSUME NEW f \in Present, NEW i \in 0..Slots(f) - 1
               PROVE  Root(EntryOf(f) + i) = EntryIn(f, i)
    OBVIOUS
  <2>1. f \in 1..file - 1
    BY <1>1, Spans
  <2>2. img[EntryAt(EntryOf(f) + i)] = EntryIn(f, i)
    BY <1>1, <2>1 DEF Listing
  <2>3. /\ ShortAt(f) \in Nat /\ ShortAt(f) = EntryOf(f) + Slots(f) - 1
        /\ ShortAt(f) < EntryOf(4) /\ EntryOf(f) >= 1
        /\ Slots(f) = LfnEntries(files[f]) + 1 /\ LfnEntries(files[f]) \in 1..2
    BY <1>1, Spans
  <2>4. EntryOf(f) \in Nat
    BY <1>1, <2>1, Sums
  <2>5. EntryOf(f) + i \in 0..drive.rootEntries - 1 /\ EntryOf(f) + i < dirIndex
    BY <1>1, <1>2, <2>3, <2>4
  <2> QED  BY <1>3, <2>2, <2>5
<1> QED  BY <1>1, <1>4, <1>5, <1>6

(* The entries a driver takes for files are the short ones, one a file.    *)
LEMMA ListedAre ==
  ASSUME Image, pc = "done"
  PROVE  Listed = {ShortAt(f) : f \in Present}
<1>1. /\ Settled /\ Booted /\ Boot.rootEntries = drive.rootEntries
      /\ drive.rootEntries \in Nat /\ EntryOf(4) \in Nat
      /\ dirIndex = EntryOf(4) /\ dirIndex <= drive.rootEntries
  <2>1. Settled /\ Booted
    BY SettledFrom DEF Image
  <2>2. drive \in Drives
    BY <2>1 DEF Settled
  <2> QED  BY <2>1, <2>2, Driver, Dimensions, Sums, RootHolds
<1>2. \A f \in Present :
        /\ Slots(f) = LfnEntries(files[f]) + 1 /\ LfnEntries(files[f]) \in 1..2
        /\ ShortAt(f) \in Nat /\ ShortAt(f) = EntryOf(f) + LfnEntries(files[f])
        /\ ShortAt(f) < EntryOf(4) /\ EntryOf(f) >= 1
  BY <1>1, Spans DEF ShortAt
<1>3. /\ Nothing.attr = "none" /\ DirEntry("label", "cidata", 0, 0).attr = "label"
      /\ \A f : \A i \in 0..Slots(f) - 1 :
           EntryIn(f, i).attr = IF i < LfnEntries(files[f]) THEN "long" ELSE "file"
  BY DEF Nothing, DirEntry, LongEntry, EntryIn
<1>4. \A k \in 0..drive.rootEntries - 1 :
        \/ k >= dirIndex /\ Root(k).attr = "none"
        \/ k < dirIndex /\ k = 0 /\ Root(k).attr = "label"
        \/ k < dirIndex /\ \E f \in Present : \E i \in 0..Slots(f) - 1 :
             /\ k = EntryOf(f) + i
             /\ Root(k).attr = IF i < LfnEntries(files[f]) THEN "long" ELSE "file"
  <2> TAKE k \in 0..drive.rootEntries - 1
  <2>1. CASE k >= dirIndex
    <3>1. Root(k) = Nothing
      BY <2>1, RootHolds
    <3> QED  BY <1>3, <2>1, <3>1
  <2>2. CASE k < dirIndex /\ k = 0
    <3>1. Root(k) = DirEntry("label", "cidata", 0, 0)
      BY <2>2, RootHolds
    <3> QED  BY <1>3, <2>2, <3>1
  <2>3. CASE k < dirIndex /\ k # 0
    <3>1. k \in 1..EntryOf(4) - 1
      BY <1>1, <2>3
    <3>2. PICK f \in Present : \E i \in 0..Slots(f) - 1 : k = EntryOf(f) + i
      BY <1>1, <3>1, Spans
    <3>3. PICK i \in 0..Slots(f) - 1 : k = EntryOf(f) + i
      BY <3>2
    <3>4. Root(k) = EntryIn(f, i)
      BY <3>3, RootHolds
    <3> QED  BY <1>3, <2>3, <3>3, <3>4
  <2> QED  BY <1>1, <2>1, <2>2, <2>3
<1>5. ASSUME NEW k \in Listed PROVE k \in {ShortAt(f) : f \in Present}
  <2>1. k \in 0..drive.rootEntries - 1 /\ Root(k).attr = "file"
    BY <1>1 DEF Listed
  <2>2. PICK f \in Present : \E i \in 0..Slots(f) - 1 :
          /\ k = EntryOf(f) + i
          /\ Root(k).attr = IF i < LfnEntries(files[f]) THEN "long" ELSE "file"
    BY <1>4, <2>1
  <2>3. PICK i \in 0..Slots(f) - 1 :
          /\ k = EntryOf(f) + i
          /\ Root(k).attr = IF i < LfnEntries(files[f]) THEN "long" ELSE "file"
    BY <2>2
  <2>4. i = LfnEntries(files[f])
    BY <1>2, <2>1, <2>3
  <2> QED  BY <2>3, <2>4 DEF ShortAt
<1>6. ASSUME NEW f \in Present PROVE ShortAt(f) \in Listed
  <2>1. /\ ShortAt(f) \in 0..drive.rootEntries - 1 /\ ShortAt(f) < dirIndex
        /\ LfnEntries(files[f]) \in 0..Slots(f) - 1
    BY <1>1, <1>2
  <2>2. Root(ShortAt(f)).attr = "file"
    <3>1. Root(ShortAt(f)) = EntryIn(f, LfnEntries(files[f]))
      BY <2>1, RootHolds DEF ShortAt
    <3>2. LfnEntries(files[f]) \in Int
      BY <2>1
    <3> QED  BY <1>3, <2>1, <3>1, <3>2
  <2>3. \A j \in 0..ShortAt(f) : Root(j).attr # "none"
    <3> TAKE j \in 0..ShortAt(f)
    <3>1. j \in 0..drive.rootEntries - 1 /\ j < dirIndex /\ ~(j >= dirIndex)
      BY <1>1, <2>1
    <3>2. \/ Root(j).attr = "label" \/ Root(j).attr = "long" \/ Root(j).attr = "file"
      BY <1>4, <3>1
    <3> QED  BY <3>2
  <2> QED  BY <1>1, <2>1, <2>2, <2>3 DEF Listed
<1> QED  BY <1>5, <1>6

(* The entries before a short one spell the file's long name.              *)
LEMMA NameHolds ==
  ASSUME Image, pc = "done", NEW f \in Present
  PROVE  HasName(ShortAt(f), files[f])
<1> DEFINE n == LfnEntries(files[f])
           k == ShortAt(f)
<1>1. /\ Settled /\ n \in 1..2 /\ k \in Nat /\ k = EntryOf(f) + n
      /\ EntryOf(f) >= 1 /\ EntryOf(f) \in Nat /\ Slots(f) = n + 1
  <2>1. Settled
    BY SettledFrom DEF Image
  <2>2. f \in 1..3
    BY <2>1, Spans
  <2>3. EntryOf(f) \in Nat
    BY <2>1, <2>2, Sums
  <2> QED  BY <2>1, <2>3, Spans DEF ShortAt
<1>2. \A i \in 0..n : Root(EntryOf(f) + i) = EntryIn(f, i)
  <2> TAKE i \in 0..n
  <2>1. i \in 0..Slots(f) - 1
    BY <1>1
  <2> QED  BY <2>1, RootHolds
<1>3. Root(k).name = files[f].shortName
  <2>1. Root(k) = EntryIn(f, n)
    BY <1>1, <1>2
  <2>2. EntryIn(f, n) = DirEntry("file", files[f].shortName, ClusterOf(f), size[f])
    BY <1>1 DEF EntryIn
  <2> QED  BY <2>1, <2>2 DEF DirEntry
<1>4. ASSUME NEW j \in 1..n
      PROVE  Root(k - j) = [attr |-> "long", name |-> files[f].longName, seq |-> j,
                            last |-> j = n, checksum |-> Root(k).name]
  <2>1. n - j \in 0..n /\ k - j = EntryOf(f) + (n - j) /\ n - j < n /\ n - (n - j) = j
    BY <1>1
  <2>2. Root(k - j) = EntryIn(f, n - j)
    BY <1>2, <2>1
  <2>3. EntryIn(f, n - j) = LongEntry(files[f], j, n - j = 0)
    BY <2>1 DEF EntryIn
  <2>4. (n - j = 0) <=> (j = n)
    BY <1>1
  <2> HIDE DEF n, k
  <2>5. LongEntry(files[f], j, n - j = 0) = LongEntry(files[f], j, j = n)
    <3>1. CASE j = n
      BY <2>4, <3>1, Zenon
    <3>2. CASE j # n
      BY <2>4, <3>2, Zenon
    <3> QED  BY <3>1, <3>2
  <2> QED  BY <1>3, <2>2, <2>3, <2>5 DEF LongEntry
<1> HIDE DEF k
<1>5. n <= k
  BY <1>1
<1> QED  BY <1>4, <1>5 DEF HasName, k

(* The chain of a short entry's cluster leads through the file's chunks,   *)
(* by either copy of the FAT.                                              *)
LEMMA ContentHolds ==
  ASSUME Image, pc = "done", NEW f \in Present
  PROVE  HasContent(ShortAt(f), f)
<1> DEFINE n == Share(f)
           c == ClusterOf(f)
           m == FatEntries(drive, spf)
           chain == Follow(fat, c, n)
<1>1. /\ Settled /\ Booted /\ Counted /\ Contents /\ Chained /\ file = 4
      /\ f \in 1..3 /\ size[f] # 0
      /\ \A i \in 0..NumFATs - 1 : CopyAt(i) \in DOMAIN img /\ img[CopyAt(i)] = fat
  BY SettledFrom, Spans DEF Image, Copied, Present
<1>2. /\ n \in Nat \ {0} /\ c \in Nat /\ c >= 2 /\ m \in Int
      /\ Clusters(drive, spf) \in Nat
      /\ c + n <= Clusters(drive, spf) + 2 /\ Clusters(drive, spf) + 2 <= m
  <2>1. n \in Nat /\ n # 0 /\ c \in Nat /\ c >= 2 /\ c + n <= ClusterOf(4)
    BY <1>1, Sums
  <2>2. ClusterOf(4) \in Nat /\ ClusterOf(4) <= Clusters(drive, spf) + 2
    BY <1>1, Sums DEF Counted
  <2> QED  BY <1>1, <2>1, <2>2, EnoughEntries, FewClusters
<1>3. Root(ShortAt(f)) = DirEntry("file", files[f].shortName, c, size[f])
  <2>1. Slots(f) = LfnEntries(files[f]) + 1 /\ LfnEntries(files[f]) \in 1..2
    BY <1>1, Spans
  <2>2. LfnEntries(files[f]) \in 0..Slots(f) - 1
    BY <2>1
  <2>3. Root(ShortAt(f)) = EntryIn(f, LfnEntries(files[f]))
    BY <2>2, RootHolds DEF ShortAt
  <2> QED  BY <2>1, <2>3 DEF EntryIn
<1>4. Root(ShortAt(f)).size = size[f] /\ Root(ShortAt(f)).cluster = c
  BY <1>3 DEF DirEntry
<1>5. /\ Ceil(Root(ShortAt(f)).size, Boot.sectorsPerCluster * Boot.bytesPerSector) = n
      /\ (Boot.sectorsPerFAT * Boot.bytesPerSector) \div 2 = m
      /\ Boot.numFATs = NumFATs
  BY <1>1, <1>4, Driver DEF Share
<1>6. \A i \in 0..NumFATs - 1 : FatCopy(i) = fat
  BY <1>1, Driver DEF At
<1>7. ASSUME NEW i \in 0..n - 1
      PROVE  /\ c + i \in DOMAIN fat
             /\ fat[c + i] = IF i = n - 1 THEN EndOfChain ELSE c + i + 1
             /\ ClusterAt(c + i) \in DOMAIN img
             /\ img[ClusterAt(c + i)] = [file |-> f, chunk |-> i + 1]
  <2>1. f \in 1..file - 1
    BY <1>1
  <2> QED  BY <1>1, <2>1 DEF Chained, Contents
<1> HIDE DEF n, c, m
<1>8. \A j \in 1..n : chain[j] = c + j - 1
  <2>1. \A i \in 0..n - 2 : c + i \in DOMAIN fat /\ fat[c + i] = c + i + 1
    <3> TAKE i \in 0..n - 2
    <3>1. i \in 0..n - 1 /\ i # n - 1
      BY <1>2
    <3> QED  BY <1>7, <3>1
  <2> QED  BY <1>2, <2>1, Followed
<1> HIDE DEF chain
<1>9. \A j \in 1..n : chain[j] \in 2..m - 1 /\ Cluster(chain[j]) = [file |-> f, chunk |-> j]
  <2> TAKE j \in 1..n
  <2>1. j - 1 \in 0..n - 1 /\ chain[j] = c + (j - 1) /\ (j - 1) + 1 = j
    BY <1>2, <1>8
  <2>2. chain[j] \in 2..m - 1 /\ chain[j] \in Nat
    BY <1>2, <2>1
  <2>3. Cluster(chain[j]) = At(ClusterAt(chain[j]))
    BY <1>1, <2>2, Driver
  <2>4. /\ ClusterAt(c + (j - 1)) \in DOMAIN img
        /\ img[ClusterAt(c + (j - 1))] = [file |-> f, chunk |-> (j - 1) + 1]
    BY <1>7, <2>1
  <2> QED  BY <2>1, <2>2, <2>3, <2>4 DEF At
<1>10. fat[chain[n]] >= Word - 8
  <2>1. n \in 1..n /\ n - 1 \in 0..n - 1 /\ c + n - 1 = c + (n - 1)
    BY <1>2
  <2>2. chain[n] = c + (n - 1)
    BY <1>8, <2>1
  <2>3. fat[c + (n - 1)] = EndOfChain
    BY <1>7, <2>1
  <2> QED  BY <2>2, <2>3 DEF EndOfChain, Word
<1> QED
  BY <1>4, <1>5, <1>6, <1>9, <1>10 DEF HasContent, chain

(* A driver that mounts a finished image, whatever the drive's dimensions  *)
(* and the lengths of the contents, finds every file that has content,     *)
(* whole and under its long name, and no other file (buildCidataImage).    *)
THEOREM ReadsBackHolds == Spec => []ReadsBack
<1>1. Image => ReadsBack
  <2> SUFFICES ASSUME Image, pc = "done"
               PROVE  /\ \A f \in Present :
                           \E k \in Listed : HasName(k, files[f]) /\ HasContent(k, f)
                      /\ Cardinality(Listed) = Cardinality(Present)
    BY DEF ReadsBack, Present
  <2>1. \A f \in Present : \E k \in Listed : HasName(k, files[f]) /\ HasContent(k, f)
    <3> TAKE f \in Present
    <3>1. ShortAt(f) \in Listed
      BY ListedAre
    <3> WITNESS ShortAt(f) \in Listed
    <3> QED  BY NameHolds, ContentHolds
  <2>2. Cardinality(Listed) = Cardinality(Present)
    <3> DEFINE g == [f \in Present |-> ShortAt(f)]
    <3>1. Settled
      BY SettledFrom DEF Image
    <3>2. IsFiniteSet(Present)
      <4>1. IsFiniteSet(1..3)
        <5>1. 1 \in Int /\ 3 \in Int
          OBVIOUS
        <5> QED  BY <5>1, FS_Interval, Zenon
      <4>2. Present \in SUBSET (1..3)
        BY <3>1, Spans
      <4> HIDE DEF Present
      <4> QED  BY <4>1, <4>2, FS_Subset
    <3>3. /\ Listed = {ShortAt(f) : f \in Present}
          /\ \A e, f \in Present : ShortAt(e) = ShortAt(f) => e = f
      BY <3>1, ListedAre, Spans
    <3>4. g \in Bijection(Present, Listed)
      BY <3>3 DEF Bijection, Injection, Surjection, IsInjective
    <3> QED  BY <3>2, <3>4, FS_Bijection DEF ExistsBijection
  <2> QED  BY <2>1, <2>2
<1> QED  BY <1>1, ImageHolds, PTL
=============================================================================
