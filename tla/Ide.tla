-------------------------------- MODULE Ide --------------------------------
(***************************************************************************)
(* ide.c: the IDE drive of Mackerel-10 and Mackerel-30.  The two wait      *)
(* loops are a step each: what they wait for comes, or the count runs out. *)
(* The drive is external, and drops the DRQ of an old command before the   *)
(* status is read after a new one.                                         *)
(***************************************************************************)
EXTENDS BlockDevice

CONSTANT LateErrors    \* whether ERR or DF may come after a sector's data

IdeBoard == board \in {"10", "30"}
AtIde(p) == IdeBoard /\ drv.pc = p

\* IDE_reset and IDE_device_info only print that they have waited in vain.
IdeInit ==
    /\ AtIde("rest") /\ io.st = "init" /\ Return("ok")
    /\ UNCHANGED <<board, gpio>>

\* uint8_t count, and 24 bits of the address.
IdeCount == io.count % 2 ^ 8
IdeSector(s) == (io.lba % 2 ^ 24) + s

IdeCommand ==
    /\ AtIde("rest") /\ io.st = "read"
    /\ Goto("sectors") \/ Return("failed")
    /\ UNCHANGED <<board, gpio>>

\* DRQ and the data, and the status once more; or no DRQ.
After == IF LateErrors THEN {"read", "failed"} ELSE {"read"}
IdeTransfer ==
    /\ AtIde("sectors") /\ Len(io.got) < IdeCount
    /\ \/ \E st \in After :
             /\ io' = [io EXCEPT !.got = Received(IdeSector(Len(io.got))), !.st = st]
             /\ drv' = IF st = "read" THEN drv ELSE AtRest
       \/ Return("failed")
    /\ UNCHANGED <<board, gpio>>

IdeEnd ==
    /\ AtIde("sectors") /\ Len(io.got) = IdeCount /\ Return("ok")
    /\ UNCHANGED <<board, gpio>>

IdeStep == IdeInit \/ IdeCommand \/ IdeTransfer \/ IdeEnd
=============================================================================
