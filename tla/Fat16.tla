------------------------------- MODULE Fat16 -------------------------------
(***************************************************************************)
(* fat16.c: the boot sector, the directory, and the file along its chain   *)
(* of clusters, over the board's block_read.  The program is sequential;   *)
(* what goes wrong are reads of the disk, and what is left in memory from  *)
(* one command to the next.                                                *)
(*                                                                         *)
(* boot_sector and the directory are buffers on the stack.  After a read   *)
(* that has failed they hold what was there: other bytes, or the sector of *)
(* an earlier command, whose numbers are then swapped once more.           *)
(***************************************************************************)
EXTENDS SdBitbang, Ide, Volume

CONSTANT Disks

\* A file has a cluster, each of them once, and the FAT an entry for it.
ASSUME DisksAssumption ==
    \A d \in Disks :
        /\ d \in Disk /\ d.chain # <<>>
        /\ \A i, j \in DOMAIN d.chain : d.chain[i] = d.chain[j] => i = j
        /\ \A i \in DOMAIN d.chain : d.chain[i] \div Entries < d.geo.fat_size

VARIABLES
    pc,              \* of the program
    part_lba,        \* static fat16_part_lba
    boot_sector, entry,
    current_cluster, sector, buffer, size,   \* fat16_read_file
    cached_sector, fat_buffer,   \* static, in get_fat_entry
    disk                         \* external: what is in the drive

fileVars == <<current_cluster, sector, buffer, size>>
fatVars == <<cached_sector, fat_buffer>>
stackVars == <<boot_sector, entry>>
driverVars == <<board, drv, gpio, card, sdhc, class_known>>

NoSector == 2147483647     \* (uint32_t)-1: no sector has this number

\* What a buffer of the stack holds that has not been filled: the other
\* bytes are those of NoGeometry and NoFile.
Swap16(n) == (n % 256) * 256 + n \div 256
SwappedGeometry(geo) ==
    [geo EXCEPT !.reserved = Swap16(@), !.fat_size = Swap16(@)]
SwappedFile(file) ==
    IF file = NoFile THEN NoFile ELSE [file EXCEPT !.swapped = ~@]

\* The entry as it is used: the size that comes of a swap may be small.
FirstCluster(file) == IF file.swapped THEN Swap16(file.cluster) ELSE file.cluster
FileSize(file) == IF file.swapped THEN 3 ELSE file.size

-----------------------------------------------------------------------------
\* fat16_read_boot_sector, whose read may have failed.
ReadBootSector ==
    /\ pc = "boot_sector" /\ Returned
    /\ IF io.got # <<>> THEN boot_sector' = AsBootSector(disk, io.got[1])
       ELSE boot_sector' \in {NoGeometry, SwappedGeometry(boot_sector)}
    /\ CallRead(RootSector(part_lba, boot_sector'), 1) /\ pc' = "list"
    /\ UNCHANGED <<part_lba, entry, disk>>
    /\ UNCHANGED <<driverVars, fileVars, fatVars>>

\* fat16_list_files, whose read may have failed, and the search for the name.
Listed ==
    IF io.got # <<>> THEN {AsDirectory(disk, io.got[1])}
    ELSE {NoFile, SwappedFile(entry)}

-----------------------------------------------------------------------------
\* fat16_read_file, called for the entry or the beginning of it.
ReadFile(length) ==
    /\ current_cluster' = FirstCluster(entry) /\ size' = length
    /\ buffer' = <<>> /\ sector' = 0

InFile == current_cluster # EOC /\ Len(buffer) < size
Remaining == size - Len(buffer)
ClusterSize == boot_sector.spc * PerSector
First == FirstSectorOf(part_lba, boot_sector, current_cluster)

\* The data of the blocks read, as much of it as is asked for.  The mutant
\* copies the last sector to its end.
Data(got) ==
    [k \in 1 .. Len(got) * PerSector |->
        AsData(got[(k - 1) \div PerSector + 1])[((k - 1) % PerSector) + 1]]
PieceMutant(got) == Data(got)
Piece(got) ==
    SubSeq(Data(got), 1,
           IF Remaining < Len(got) * PerSector THEN Remaining ELSE Len(got) * PerSector)

\* A whole cluster in one call; at the end of the file sector by sector.
NextCluster ==
    /\ pc = "cluster" /\ InFile
    /\ IF Remaining >= ClusterSize
       THEN pc' = "whole" /\ CallRead(First, boot_sector.spc)
       ELSE pc' = "sector" /\ io' = NoCall
    /\ sector' = 0
    /\ UNCHANGED <<part_lba, stackVars, current_cluster, buffer, size, disk>>
    /\ UNCHANGED <<driverVars, fatVars>>

\* A cluster, or a sector, has been read, or the file has failed.
Take(st, next) ==
    /\ pc = st /\ Returned
    /\ \/ io.st = "ok" /\ buffer' = buffer \o Piece(io.got) /\ pc' = next
       \/ io.st = "failed" /\ UNCHANGED buffer /\ pc' = "failed"
    /\ io' = NoCall
    /\ UNCHANGED <<part_lba, stackVars, current_cluster, size, disk>>
    /\ UNCHANGED <<driverVars, fatVars>>

TakeCluster == Take("whole", "fat") /\ UNCHANGED sector
TakeSector == Take("in_sector", "sector") /\ sector' = sector + 1

MoreSectors == sector < boot_sector.spc /\ Len(buffer) < size

NextSector ==
    /\ pc = "sector"
    /\ IF MoreSectors THEN pc' = "in_sector" /\ CallRead(First + sector, 1)
       ELSE pc' = "fat" /\ io' = NoCall
    /\ UNCHANGED <<part_lba, stackVars, disk>>
    /\ UNCHANGED <<driverVars, fileVars, fatVars>>

-----------------------------------------------------------------------------
\* get_fat_entry: the buffer answers, or the sector is read.
FatSector == FatSectorOf(part_lba, boot_sector, current_cluster)
NextFrom(fat) == current_cluster' = fat[current_cluster % Entries]

GetFatEntry ==
    /\ pc = "fat"
    /\ IF cached_sector = FatSector
       THEN NextFrom(fat_buffer) /\ pc' = "cluster" /\ UNCHANGED io
       ELSE CallRead(FatSector, 1) /\ pc' = "in_fat" /\ UNCHANGED current_cluster
    /\ UNCHANGED <<part_lba, stackVars, sector, buffer, size, disk>>
    /\ UNCHANGED <<driverVars, fatVars>>

\* A read that has failed ends the chain; the buffer may have been filled,
\* and its mark is left as it was.  The mutant marks the sector too early.
TakeFatMutant ==
    /\ pc = "in_fat" /\ Returned
    /\ fat_buffer' = IF io.got # <<>> THEN AsFat(disk, io.got[1]) ELSE fat_buffer
    /\ cached_sector' = FatSector
    /\ IF io.st = "ok" THEN NextFrom(fat_buffer') ELSE current_cluster' = EOC
    /\ pc' = "cluster" /\ io' = NoCall
    /\ UNCHANGED <<part_lba, stackVars, sector, buffer, size, disk, driverVars>>
TakeFat ==
    /\ pc = "in_fat" /\ Returned
    /\ fat_buffer' = IF io.got # <<>> THEN AsFat(disk, io.got[1]) ELSE fat_buffer
    /\ IF io.st = "ok" THEN cached_sector' = FatSector /\ NextFrom(fat_buffer')
       ELSE current_cluster' = EOC /\ UNCHANGED cached_sector
    /\ pc' = "cluster" /\ io' = NoCall
    /\ UNCHANGED <<part_lba, stackVars, sector, buffer, size, disk, driverVars>>

FileStep ==
    \/ NextCluster \/ TakeCluster \/ NextSector \/ TakeSector
    \/ GetFatEntry \/ TakeFat

-----------------------------------------------------------------------------
\* The driver of the board ends the call.
DriverStep ==
    \/ SdBitbangStep \/ SdSpiStep
    \/ IdeStep /\ UNCHANGED <<card, sdhc, class_known>>

Driver ==
    /\ DriverStep
    /\ UNCHANGED <<pc, part_lba, stackVars, fileVars, fatVars, disk>>
=============================================================================
