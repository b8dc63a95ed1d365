------------------------------- MODULE SdSpi -------------------------------
(***************************************************************************)
(* sd_spi.c: the SD card of Mackerel-F behind the tiny_spi master, and the *)
(* card, which is external: `hc' is a card that counts in blocks (SDHC),   *)
(* `v2' one that knows CMD8.  A command that is not answered leaves the    *)
(* 0xFF of an idle line.                                                   *)
(***************************************************************************)
EXTENDS BlockDevice

CONSTANTS
    Cmd0Tries,    \* 10
    ReadyTries    \* 1000: CMD55 and ACMD41

VARIABLES
    card,         \* external: [hc, v2, ready, left, addr]
    sdhc,         \* static
    class_known   \* whether CMD58 has been answered whenever it was sent

Block == 512

\* The block of the medium behind an address of CMD17 or CMD18; a card that
\* counts in bytes refuses an address inside a block.
Addressable(addr) == card.hc \/ addr % Block = 0
BlockOf(addr) == IF card.hc THEN addr ELSE addr \div Block

At(p) == board = "F" /\ drv.pc = p

\* Once more, until the limit; then the bring-up has failed.  The mutant does
\* not count.
AgainMutant(limit) == UNCHANGED <<drv, io>>
Again(limit) ==
    IF drv.n + 1 < limit THEN drv' = [drv EXCEPT !.n = @ + 1] /\ UNCHANGED io
    ELSE Return("failed")

\* The clocks with the card deselected.
SdSpiInit ==
    /\ At("rest") /\ io.st = "init"
    /\ gpio' = Deselected /\ Goto("cmd0")
    /\ UNCHANGED <<board, card, sdhc, class_known>>

\* CMD0 until the card says it is idle.
SdSpiReset ==
    /\ At("cmd0")
    /\ \/ Goto("cmd8") /\ card' = [card EXCEPT !.ready = FALSE]
       \/ Again(Cmd0Tries) /\ UNCHANGED card
    /\ gpio' = Deselected
    /\ UNCHANGED <<board, sdhc, class_known>>

\* CMD8: an answer without the echo makes it an old card.
SdSpiVersion ==
    /\ At("cmd8")
    /\ \E v2 \in {FALSE, card.v2} :
           drv' = [drv EXCEPT !.pc = "acmd41", !.n = 0, !.v2 = v2]
    /\ gpio' = Deselected
    /\ UNCHANGED <<board, io, card, sdhc, class_known>>

\* CMD55 and ACMD41: a card that counts in blocks is never ready for a host
\* that does not say it can.
SdSpiReady ==
    /\ At("acmd41")
    /\ \/ /\ card.hc => drv.v2
          /\ card' = [card EXCEPT !.ready = TRUE] /\ Goto("cmd58")
       \/ Again(ReadyTries) /\ UNCHANGED card
    /\ gpio' = Deselected
    /\ UNCHANGED <<board, sdhc, class_known>>

\* CMD58: its R1 is not looked at, and an idle line has the CCS bit set.
SdSpiClassMutant ==
    /\ At("cmd58")
    /\ \/ UNCHANGED <<sdhc, class_known>>
       \/ sdhc' = TRUE /\ class_known' = FALSE
    /\ Return("ok") /\ gpio' = Deselected
    /\ UNCHANGED <<board, card>>
SdSpiClass ==
    /\ At("cmd58")
    /\ \/ sdhc' = card.hc /\ UNCHANGED class_known
       \/ sdhc' = TRUE /\ class_known' = FALSE
    /\ Return("ok") /\ gpio' = Deselected
    /\ UNCHANGED <<board, card>>

-----------------------------------------------------------------------------
More == io.st = "read" /\ Len(io.got) < io.count
Done == io.st = "read" /\ Len(io.got) = io.count

\* lba * 512 in 32 bits.
Address ==
    LET lba == io.lba + Len(io.got)
    IN IF sdhc THEN lba ELSE (lba % 2 ^ 23) * Block

\* CMD17, and the card selected until the data has come or has not.
SdSpiCommand ==
    /\ At("rest") /\ More
    /\ \/ /\ card.ready /\ Addressable(Address)
          /\ card' = [card EXCEPT !.addr = Address]
          /\ Goto("token") /\ gpio' = gpio \cup {Cs}
       \/ Return("failed") /\ gpio' = Deselected /\ UNCHANGED card
    /\ UNCHANGED <<board, sdhc, class_known>>

\* The mutant returns from read_data past cs_high.
SdSpiDataMutant ==
    /\ At("token")
    /\ \/ /\ io' = [io EXCEPT !.got = Received(BlockOf(card.addr))]
          /\ drv' = AtRest /\ gpio' = Deselected
       \/ Return("failed") /\ UNCHANGED gpio
    /\ UNCHANGED <<board, card, sdhc, class_known>>
\* The 0xFE of the data, or another byte, or none in 8192.
SdSpiData ==
    /\ At("token")
    /\ \/ io' = [io EXCEPT !.got = Received(BlockOf(card.addr))] /\ drv' = AtRest
       \/ Return("failed")
    /\ gpio' = Deselected
    /\ UNCHANGED <<board, card, sdhc, class_known>>

SdSpiEnd ==
    /\ At("rest") /\ Done /\ Return("ok")
    /\ UNCHANGED <<board, gpio, card, sdhc, class_known>>

SdSpiStep ==
    \/ SdSpiInit \/ SdSpiReset \/ SdSpiVersion \/ SdSpiReady \/ SdSpiClass
    \/ SdSpiCommand \/ SdSpiData \/ SdSpiEnd
=============================================================================
