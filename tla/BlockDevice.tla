---------------------------- MODULE BlockDevice ----------------------------
(***************************************************************************)
(* What the disk drivers share: the call fat16.c makes through             *)
(* read_sector, and the pins.  The program is sequential, so that a call   *)
(* is one record: the caller fills it in, the driver of the board ends it. *)
(*                                                                         *)
(* Blocks are known by their number on the medium: `got' lists those that  *)
(* have gone into the buffer, also when the call fails.                    *)
(***************************************************************************)
EXTENDS Integers, Sequences

Boards == {"F", "08", "10", "30"}
Cs == 6                \* bit 6 selects the card, on both boards that have one

VARIABLES
    board,   \* the board the bootloader was built for
    io,      \* the call: [st, lba, count, got]
    drv,     \* where the driver is: [pc, n, attempt, v2]
    gpio     \* bits set in the GPIO register (F), in the DUART's OPR (others)

NoCall == [st |-> "none", lba |-> 0, count |-> 0, got |-> <<>>]
AtRest == [pc |-> "rest", n |-> 0, attempt |-> 0, v2 |-> FALSE]

CallInit == io' = [NoCall EXCEPT !.st = "init"]
CallRead(lba, count) ==
    io' = [st |-> "read", lba |-> lba, count |-> count, got |-> <<>>]

Returned == io.st \in {"ok", "failed"}
Deselected == gpio \ {Cs}

Return(st) == io' = [io EXCEPT !.st = st] /\ drv' = AtRest
Goto(p) == drv' = [drv EXCEPT !.pc = p, !.n = 0] /\ UNCHANGED io
Received(block) == Append(io.got, block)

BlockTypeOK ==
    /\ board \in Boards
    /\ io.st \in {"none", "init", "read", "ok", "failed"}
    /\ Len(io.got) <= io.count
    /\ (io.st \notin {"init", "read"} => drv = AtRest)
    /\ gpio \subseteq 0 .. 7
=============================================================================
