---------------------------- MODULE MCBootloader ----------------------------
(* Files whose chains go back and forth between the sectors of the FAT, one *)
(* that fills its last cluster, one that does not, one whose chain is too   *)
(* short for its size, one where that chain has another end mark than       *)
(* 0xFFFF, one whose chain leads in a circle, and one in a partition that   *)
(* is not where the bootloader looks.  A file that is not too short may     *)
(* have any end mark.                                                       *)
EXTENDS Bootloader

Geo == [reserved |-> 1, fats |-> 2, fat_size |-> 4, spc |-> 2, root_sectors |-> 2]
Image(name, part, chain, end, length) ==
    [name |-> name, part |-> part, geo |-> Geo, chain |-> chain, end |-> end,
     other |-> 0, size |-> length]

MCDisks == {
    Image("whole", 2048, <<2, 5, 3, 6>>, 65528, 16),
    Image("part", 2048, <<5, 2, 4>>, EOC, 11),
    Image("short", 2048, <<3, 4, 2>>, EOC, 15),
    Image("mark", 2048, <<3, 6>>, 65528, 11),
    Image("circle", 2048, <<4, 5>>, 4, 19),
    Image("elsewhere", 8192, <<2, 5>>, 0, 7)}

\* SDHC, a card of the old version, and a small card of the new one.
MCCards == {[hc |-> TRUE, v2 |-> TRUE], [hc |-> FALSE, v2 |-> FALSE],
            [hc |-> FALSE, v2 |-> TRUE]}
MCCommands == [disk |-> 2, memory |-> 3]
MCRanges == {<<0, 4>>, <<1, 2>>, <<0, 0>>}

\* The memory is looked at on one board, without its disk: the memory
\* commands of the others are among those of Mackerel-30.
MCInit ==
    /\ Init
    /\ IF session = "disk" THEN fault = NoFault
       ELSE board = "30" /\ disk.name = "whole" /\ card.hc
MCSpec == MCInit /\ [][Next]_vars /\ WF_vars(Program)
=============================================================================
