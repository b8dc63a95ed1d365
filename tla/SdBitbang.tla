----------------------------- MODULE SdBitbang -----------------------------
(***************************************************************************)
(* sd.c: the SD card of Mackerel-08 on the pins of the DUART, brought up   *)
(* by sd_init and read with CMD18.  The driver counts in blocks whatever   *)
(* the card is.                                                            *)
(*                                                                         *)
(* card.left: the card still has something to send, the answer to a CMD12  *)
(* that nobody waited for, or the zeros of a card that is busy stopping.   *)
(* A command that is complete takes its place.                             *)
(***************************************************************************)
EXTENDS SdSpi

CONSTANT ResetTries    \* 5, in sd_init

On08(p) == board = "08" /\ drv.pc = p

\* sd_reset has failed: sd_init tries again.
ResetFails ==
    IF drv.attempt + 1 < ResetTries
    THEN drv' = [AtRest EXCEPT !.pc = "first", !.attempt = drv.attempt + 1]
         /\ UNCHANGED io
    ELSE Return("failed")

BitInit ==
    /\ On08("rest") /\ io.st = "init" /\ Goto("first")
    /\ UNCHANGED <<board, gpio, card, sdhc, class_known>>

\* The pins; then the first byte, that must be the 0xFF of an idle line.
BitFirst ==
    /\ On08("first")
    /\ \/ ~card.left /\ Goto("cmd0")
       \/ ResetFails
    /\ card' = [card EXCEPT !.left = FALSE] /\ gpio' = Deselected
    /\ UNCHANGED <<board, sdhc, class_known>>

\* CMD0, CMD8 and CMD58 must be answered by a card that is idle.  CMD8 is
\* only by a card that knows it.
BitCommand(p, next) ==
    /\ On08(p)
    /\ \/ (p = "cmd8" => card.v2) /\ Goto(next)
       \/ ResetFails
    /\ card' = (IF p = "cmd0" THEN [card EXCEPT !.ready = FALSE] ELSE card)
    /\ UNCHANGED <<board, gpio, sdhc, class_known>>

\* CMD55 and ACMD41, until the card is ready.
BitReady ==
    /\ On08("acmd41")
    /\ \/ card' = [card EXCEPT !.ready = TRUE] /\ Return("ok")
       \/ UNCHANGED card
          /\ IF drv.n + 1 < ReadyTries
             THEN drv' = [drv EXCEPT !.n = @ + 1] /\ UNCHANGED io
             ELSE ResetFails
       \/ UNCHANGED card /\ ResetFails
    /\ UNCHANGED <<board, gpio, sdhc, class_known>>

-----------------------------------------------------------------------------
\* CMD18.  The zeros of a busy card are taken for its answer.
BitRead ==
    /\ On08("rest") /\ More
    /\ \/ /\ card.ready /\ Addressable(io.lba)
          /\ card' = [card EXCEPT !.addr = io.lba, !.left = FALSE]
          /\ Goto("blocks") /\ gpio' = gpio \cup {Cs}
       \/ /\ card.left /\ card' = [card EXCEPT !.left = FALSE]
          /\ Goto("nothing") /\ gpio' = gpio \cup {Cs}
       \/ /\ card' = [card EXCEPT !.left = FALSE]
          /\ Return("failed") /\ gpio' = Deselected
    /\ UNCHANGED <<board, sdhc, class_known>>

\* The next block of the stream, each after its token.
BitBlock ==
    /\ On08("blocks") /\ More
    /\ io' = [io EXCEPT !.got = Received(BlockOf(card.addr) + Len(io.got))]
    /\ UNCHANGED <<board, drv, gpio, card, sdhc, class_known>>

\* No token in 8192 bytes: CMD12, whose answer stays in the card.
BitNoToken ==
    /\ On08("blocks") \/ On08("nothing")
    /\ More /\ Return("failed")
    /\ card' = [card EXCEPT !.left = TRUE] /\ gpio' = Deselected
    /\ UNCHANGED <<board, sdhc, class_known>>

\* CMD12 and its answer; whether the card is still busy is not asked.
BitStop ==
    /\ On08("blocks") /\ Done /\ Return("ok")
    /\ \E left \in BOOLEAN : card' = [card EXCEPT !.left = left]
    /\ gpio' = Deselected
    /\ UNCHANGED <<board, sdhc, class_known>>

SdBitbangStep ==
    \/ BitInit \/ BitFirst \/ BitReady
    \/ BitCommand("cmd0", "cmd8") \/ BitCommand("cmd8", "cmd58")
    \/ BitCommand("cmd58", "acmd41")
    \/ BitRead \/ BitBlock \/ BitNoToken \/ BitStop
=============================================================================
