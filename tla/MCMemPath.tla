----------------------------- MODULE MCMemPath -----------------------------
(* Two lines that share a cache index, one word of each written, both byte *)
(* lanes; the SDRAM starts with one content instead of any.                *)
EXTENDS MemPath

CONSTANTS t1, t2, i1, b0, b1

MCTags  == {t1, t2}
MCIdxs  == {i1}
MCByte  == {b0, b1}
MCAddrs == {<<<<t1, i1>>, 0>>, <<<<t2, i1>>, 1>>}

MCInit ==
    /\ mem = [a \in LineAddr |-> [s \in Sel |-> [l \in Lanes |-> b0]]]
    /\ Init

MCSpec == MCInit /\ [][Tick]_vars
=============================================================================
