---------------------------- MODULE MCMackerelF ----------------------------
(* Timing only: one byte value.  Two lines share an index, so that both    *)
(* hits and misses occur.                                                  *)
EXTENDS MackerelF

CONSTANTS t1, t2, i1, b0

MCTags  == {t1, t2}
MCIdxs  == {i1}
MCByte  == {b0}
MCAddrs == {<<<<t1, i1>>, 0>>, <<<<t2, i1>>, 1>>}
=============================================================================
