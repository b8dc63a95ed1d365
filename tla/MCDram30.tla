------------------------------ MODULE MCDram30 ------------------------------
(* Two long words that differ in side, row and column, and accesses to the *)
(* word in the middle of them; Dram30Proof has the other kinds.            *)
EXTENDS Dram30

MCAddrs == {<<0, 0, 1>>, <<1, 1, 0>>}
MCKinds == {<<2, 1>>}

MCInit ==
    /\ mem = [a \in Sides \X Coord \X Coord |-> [l \in Lanes |-> 0]]
    /\ Init

MCSpec == MCInit /\ [][Next]_vars /\ WF_vars(Tick)
=============================================================================
