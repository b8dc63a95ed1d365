------------------------------ MODULE Volume -------------------------------
(***************************************************************************)
(* External: a disk with one FAT16 partition that holds IMAGE.BIN, block   *)
(* by block, and what fat16.c makes of a block's bytes, whichever block it *)
(* is.  Data is counted in half sectors, so that the last sector of a file *)
(* may be partly used.  Behind the last cluster of a file any number may   *)
(* stand: 0xFFFF, another end mark of FAT16 (0xFFF8 and up), a 0 that an   *)
(* interrupted write has left, or a cluster, which makes it a circle where *)
(* it is one of the file's.                                                *)
(***************************************************************************)
EXTENDS Integers, Sequences

CONSTANTS
    Clusters,      \* the cluster numbers of a volume
    Entries        \* entries in a sector of the FAT: 256

EOC == 65535       \* the only end mark the code knows
PerSector == 2     \* half sectors

\* A FAT16 volume has no cluster below 2, and none that would be read as EOC.
ASSUME VolumeAssumption == Clusters \subseteq 2 .. EOC - 1 /\ Entries \in Nat \ {0}

\* The fields of the boot sector and the directory entry that are used, in
\* their widths: one or two FATs, clusters of 32 KB at most, and 16 bits of
\* 32-byte entries in the root directory.
Geometry ==
    {geo \in [reserved : Nat, fats : Nat, fat_size : Nat, spc : Nat, root_sectors : Nat] :
        /\ geo.reserved <= 65535 /\ geo.fats \in {1, 2} /\ geo.fat_size <= 65535
        /\ 1 <= geo.spc /\ geo.spc <= 64 /\ geo.root_sectors <= 4096}

\* `chain' has the clusters of the file and `end' the link of the last one;
\* `other' is the link of any other cluster, and what a block that is not of
\* the FAT gives for one.  The partition starts in the first gigabyte, and far
\* enough from its beginning that cluster 0 is no negative block.
Disk == [name : STRING, part : 2 ^ 7 .. 2 ^ 21, geo : Geometry,
         chain : Seq(Clusters), end : 0 .. EOC, other : 0 .. EOC, size : Nat]

-----------------------------------------------------------------------------
\* The sums of fat16.c, from a partition and a geometry.
FatStart(part, geo) == part + geo.reserved
RootSector(part, geo) == FatStart(part, geo) + geo.fats * geo.fat_size
FatSectorOf(part, geo, c) == FatStart(part, geo) + c \div Entries
FirstSectorOf(part, geo, c) ==
    geo.root_sectors + RootSector(part, geo) + (c - 2) * geo.spc

-----------------------------------------------------------------------------
\* The entry of a cluster in the FAT.
Fat(d, c) ==
    IF \E i \in DOMAIN d.chain : d.chain[i] = c
    THEN LET i == CHOOSE i \in DOMAIN d.chain : d.chain[i] = c
         IN IF i < Len(d.chain) THEN d.chain[i + 1] ELSE d.end
    ELSE d.other

InFat(d, lba) ==
    LET start == FatStart(d.part, d.geo)
    IN lba \in start .. start + d.geo.fat_size - 1

\* A block read as a sector of the FAT, as data, as the boot sector and as
\* the directory.  Blocks of something else have no geometry and no file.
AsFat(d, lba) ==
    [o \in 0 .. Entries - 1 |->
        IF InFat(d, lba)
        THEN Fat(d, (lba - FatStart(d.part, d.geo)) * Entries + o)
        ELSE d.other]

AsData(lba) == [h \in 1 .. PerSector |-> <<lba, h>>]

NoGeometry ==
    [reserved |-> 3, fats |-> 1, fat_size |-> 0, spc |-> 1, root_sectors |-> 1]
AsBootSector(d, lba) == IF lba = d.part THEN d.geo ELSE NoGeometry

NoFile == [cluster |-> 0, size |-> 0, swapped |-> FALSE]
File(d) == [cluster |-> d.chain[1], size |-> d.size, swapped |-> FALSE]
AsDirectory(d, lba) ==
    IF lba = RootSector(d.part, d.geo) /\ d.size # 0 THEN File(d) ELSE NoFile

-----------------------------------------------------------------------------
PerCluster(d) == d.geo.spc * PerSector

\* The beginning of the file: half sector k is in the cluster of its place in
\* the chain.
FileData(d, length) ==
    [k \in 1 .. length |->
        LET c == d.chain[(k - 1) \div PerCluster(d) + 1]
            in == (k - 1) % PerCluster(d)
        IN <<FirstSectorOf(d.part, d.geo, c) + in \div PerSector, (in % PerSector) + 1>>]

\* The chain has clusters for so much of the file.
Fits(d, length) == length <= PerCluster(d) * Len(d.chain)
=============================================================================
