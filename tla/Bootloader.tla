----------------------------- MODULE Bootloader -----------------------------
(***************************************************************************)
(* bootloader.c on the board's disk: the prompt, `boot', the automatic     *)
(* boot of Mackerel-F, `gpio' and `run'; and sdread.c, the program that    *)
(* reads the same file by way of the partition table.  A step ends where a *)
(* driver is called; between two commands all static data stays.           *)
(***************************************************************************)
EXTENDS Fat16, MemoryCommands

CONSTANTS
    Cards,         \* [hc, v2]: that may be in the slot
    Lights,        \* the LEDs the automatic boot walks over: 0 .. 5
    Pins,          \* the pins the gpio command is tried with
    ReadLimit,     \* IMG_READ, in half sectors
    MaxCommands    \* bound: the commands of a session, by its kind

ASSUME BootloaderAssumption ==
    Cards \subseteq [hc : BOOLEAN, v2 : BOOLEAN] /\ Lights \in 0 .. 6 /\ ReadLimit \in Nat

VARIABLES
    task,          \* which program: "boot", "autoboot" or "sdread"
    commands,
    session        \* bound: its commands are of the "disk" or of "memory"

vars == <<board, io, drv, gpio, card, sdhc, class_known, pc, part_lba,
          boot_sector, entry, current_cluster, sector, buffer, size,
          cached_sector, fat_buffer, disk, task, commands, session,
          memoryVars>>

PART_LBA == 2048

\* Mackerel-F tries to boot at once, and may run sdread instead of it.
Init ==
    /\ board \in Boards /\ disk \in Disks
    /\ card \in {[hc |-> c.hc, v2 |-> c.v2, ready |-> FALSE, left |-> FALSE,
                  addr |-> 0] : c \in Cards}
    /\ io = NoCall /\ drv = AtRest /\ gpio = {} /\ sdhc = FALSE
    /\ class_known = TRUE /\ part_lba = PART_LBA
    /\ boot_sector = NoGeometry /\ entry = NoFile
    /\ current_cluster = 0 /\ sector = 0 /\ buffer = <<>> /\ size = 0
    /\ cached_sector = NoSector
    /\ fat_buffer = [o \in 0 .. Entries - 1 |-> 0]
    /\ commands = 0 /\ MemoryInit
    /\ session \in {"disk", "memory"}
    /\ task \in IF board = "F" THEN {"autoboot", "sdread"} ELSE {"boot"}
    /\ pc = IF task = "boot" THEN "prompt" ELSE "start"

\* main waits for a command: no memory test is under way.
Prompt == pc = "prompt" /\ test.pass = "done"

\* What a step of main does not touch while no file is read.
StaysPut ==
    UNCHANGED <<board, drv, card, sdhc, class_known, fatVars, disk, session, memoryVars>>

-----------------------------------------------------------------------------
\* autoboot, and sdread.
Start ==
    /\ pc = "start" /\ pc' = "init" /\ CallInit
    /\ StaysPut
    /\ UNCHANGED <<gpio, part_lba, stackVars, fileVars, task, commands>>

\* handler_boot: the board's card or drive is brought up.
Boot ==
    /\ Prompt /\ session = "disk" /\ commands < MaxCommands.disk /\ commands' = commands + 1
    /\ pc' = "init" /\ task' = "boot" /\ CallInit
    /\ StaysPut
    /\ UNCHANGED <<gpio, part_lba, stackVars, fileVars>>

\* The bootloader looks for the boot sector in block 2048, whatever the
\* partition table says; sdread reads the table twice, once to print it.
BroughtUp ==
    /\ pc = "init" /\ Returned
    /\ IF io.st = "failed" THEN pc' = "failed" /\ io' = NoCall
       ELSE IF task = "sdread" THEN pc' = "mbr" /\ CallRead(0, 1)
       ELSE pc' = "boot_sector" /\ CallRead(PART_LBA, 1)
    /\ StaysPut
    /\ UNCHANGED <<gpio, part_lba, stackVars, fileVars, task, commands>>

\* A table without a signature ends it as a failed read does.
PrintTable ==
    /\ pc = "mbr" /\ Returned
    /\ \/ io.st = "ok" /\ pc' = "partition" /\ CallRead(0, 1)
       \/ pc' = "failed" /\ io' = NoCall
    /\ StaysPut
    /\ UNCHANGED <<gpio, part_lba, stackVars, fileVars, task, commands>>

\* So does a table without a FAT16 partition.
FindPartition ==
    /\ pc = "partition" /\ Returned
    /\ \/ /\ io.st = "ok" /\ part_lba' = disk.part
          /\ pc' = "boot_sector" /\ CallRead(part_lba', 1)
       \/ pc' = "failed" /\ io' = NoCall /\ UNCHANGED part_lba
    /\ StaysPut
    /\ UNCHANGED <<gpio, stackVars, fileVars, task, commands>>

\* The files are listed: the search for IMAGE.BIN.
ListFiles ==
    /\ pc = "list" /\ Returned /\ entry' \in Listed /\ io' = NoCall
    /\ pc' = IF entry'.size = 0 THEN "failed"
             ELSE IF task = "autoboot" THEN "countdown" ELSE "file"
    /\ StaysPut
    /\ UNCHANGED <<gpio, part_lba, boot_sector, fileVars, task, commands>>

\* sdread reads the beginning of the file only.
LoadNamedFile ==
    /\ pc = "file" /\ pc' = "cluster"
    /\ ReadFile(IF task = "sdread" /\ FileSize(entry) > ReadLimit THEN ReadLimit
                ELSE FileSize(entry))
    /\ StaysPut
    /\ UNCHANGED <<io, gpio, part_lba, stackVars, task, commands>>

LedBits == 0 .. 5
Leds(mask) == (gpio \ LedBits) \cup mask

\* One LED after the other: `sector' counts them.  A key ends it.
Countdown ==
    /\ pc = "countdown"
    /\ \/ /\ sector < Lights /\ gpio' = Leds({sector}) /\ sector' = sector + 1
          /\ UNCHANGED pc
       \/ /\ sector > 0 /\ gpio' = Leds({}) /\ pc' = "prompt" /\ sector' = 0
       \/ /\ sector = Lights /\ gpio' = Leds(LedBits) /\ pc' = "file"
          /\ sector' = 0
    /\ StaysPut
    /\ UNCHANGED <<io, part_lba, stackVars, current_cluster, buffer, size,
                   task, commands>>

\* The mutant starts whatever has been read.
CompleteMutant == TRUE
Complete == Len(buffer) = size

\* load_named_file is through, and handler_run jumps to the program; sdread
\* prints what it has found.
Loaded ==
    /\ pc = "cluster" /\ ~InFile
    /\ pc' = IF ~Complete THEN "failed"
             ELSE IF task = "sdread" THEN "read_ok" ELSE "running"
    /\ StaysPut
    /\ UNCHANGED <<io, gpio, part_lba, stackVars, fileVars, task, commands>>

ToPrompt ==
    /\ pc' = "prompt"
    /\ current_cluster' = 0 /\ buffer' = <<>> /\ size' = 0 /\ sector' = 0
    /\ StaysPut
    /\ UNCHANGED <<io, part_lba, stackVars, task, commands>>

\* "Could not load IMAGE.BIN", and on to the prompt.
Report ==
    /\ pc = "failed" /\ task # "sdread" /\ ToPrompt
    /\ gpio' = IF task = "autoboot" /\ size # 0 THEN Leds({}) ELSE gpio

\* The program was called with jsr, and may come back.
Exit == pc = "running" /\ ToPrompt /\ UNCHANGED gpio

\* `gpio': an LED of Mackerel-F, or a pin of the DUART, where a one in OPR
\* is a low pin.
Gpio ==
    /\ Prompt /\ session = "disk"
    /\ \E pin \in Pins, on \in BOOLEAN :
        /\ IF board = "F" THEN pin \in LedBits ELSE pin \in 2 .. 7
        /\ gpio' = IF on = (board = "F") THEN gpio \cup {pin} ELSE gpio \ {pin}
    /\ StaysPut
    /\ UNCHANGED <<io, pc, part_lba, stackVars, fileVars, task, commands>>

\* A command that works on memory.  As a bound a session has only these, or
\* only the others: they share the prompt and no state.
diskVars == <<board, io, drv, gpio, card, sdhc, class_known, pc, part_lba,
              stackVars, fileVars, fatVars, disk, task, session>>

Memory ==
    /\ Prompt /\ session = "memory" /\ commands < MaxCommands.memory
    /\ commands' = commands + 1
    /\ Command \/ (board = "30" /\ CommandOf30)
    /\ UNCHANGED diskVars

Program ==
    \/ Start \/ BroughtUp \/ PrintTable \/ FindPartition \/ ListFiles
    \/ LoadNamedFile \/ Countdown \/ Loaded \/ Report
    \/ /\ ReadBootSector \/ FileStep \/ Driver
       /\ UNCHANGED <<task, commands, session, memoryVars>>
    \/ MemoryStep /\ UNCHANGED <<diskVars, commands>>
Next == Boot \/ Gpio \/ Exit \/ Memory \/ Program

Spec == Init /\ [][Next]_vars

\* The program runs.
FairSpec == Spec /\ WF_vars(Program)

-----------------------------------------------------------------------------
TypeOK ==
    /\ BlockTypeOK /\ MemoryTypeOK
    /\ pc \in {"start", "prompt", "init", "mbr", "partition", "boot_sector",
              "list", "countdown", "file", "cluster", "whole", "sector",
              "in_sector", "fat", "in_fat", "failed", "running", "read_ok"}
    /\ part_lba \in {PART_LBA, disk.part}
    /\ current_cluster \in 0 .. EOC /\ Len(buffer) <= size
    /\ sector \in 0 .. disk.geo.spc \cup 0 .. Lights
    /\ cached_sector \in Nat /\ DOMAIN fat_buffer = 0 .. Entries - 1

\* A card whose driver knows how it counts.
Addressed ==
    (board = "F" => class_known) /\ (board = "08" => card.hc)

\* "Returns 0 on success" (fat16.h:5): a read that reports success has put
\* the blocks that were asked for into the buffer, all of them and in their
\* order, after whatever has failed before: late tokens, the answer to a
\* CMD12 that was left in the card, a card brought up again.  Except that a
\* card may be read by the wrong addresses (Addressed).
ReadHonest ==
    io.st = "ok" /\ Addressed => io.got = [k \in 1 .. io.count |-> io.lba + k - 1]

\* When a lookup finds its sector cached, the buffer holds that sector of
\* the disk that is in the drive ("Only read if not already cached",
\* fat16.c:191), whatever has failed before, in this command or an earlier,
\* unless a card is read by the wrong addresses (Addressed).
HitIsCurrent ==
    pc = "fat" /\ cached_sector = FatSector /\ Addressed
        => fat_buffer = AsFat(disk, cached_sector)

\* What is started is the file of the disk: its clusters in the order of its
\* chain, the last one cut to the size.  A file whose chain is too short for
\* it and ends in 0xFFFF is not started, nor is what a failed read of data or
\* of the FAT has left, in this command or an earlier one.  Three things
\* undo that: a chain that is too short and ends in anything but 0xFFFF is
\* read on from there (fat16.c:223), a boot sector or a directory that was
\* not read is not noticed (Sound), and a card may be read by the wrong
\* addresses (Addressed).
Sound == boot_sector = disk.geo /\ entry = File(disk)
StartedIsFile ==
    pc \in {"running", "read_ok"} /\ Addressed /\ Sound
        => IF Fits(disk, size) THEN buffer = FileData(disk, size)
           ELSE disk.end # EOC

\* The card is not left selected where a command ends, well or badly.
CommandOver == pc # "prompt" /\ pc' \in {"prompt", "running"}
CardReleased == [][CommandOver /\ board \in {"F", "08"} => Cs \notin gpio']_vars

\* A command starts the program or comes back to the prompt, even where a
\* damaged chain leads in a circle and no card answers.
Ended ==
    /\ pc \in {"prompt", "running", "read_ok"} \/ (pc = "failed" /\ task = "sdread")
    /\ test.pass \in {"done", "panic"}
CommandEnds == ~Ended ~> Ended
=============================================================================
