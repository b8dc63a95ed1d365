---------------------------- MODULE MCInterrupts ----------------------------
(* A tick is longer than the two handlers together, as 756000 clocks are.   *)
EXTENDS Interrupts

MCReload == [f \in 0 .. 3 |-> 16 - 2 * f]
=============================================================================
