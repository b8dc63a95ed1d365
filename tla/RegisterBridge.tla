--------------------------- MODULE RegisterBridge ---------------------------
(***************************************************************************)
(* The state machine that uart.v and spi.v put between the 68000 bus and   *)
(* a Wishbone core (the OpenCores 16550 and tiny_spi, external): it        *)
(* strobes the core, waits for its ACK and holds DTACK until the CPU ends  *)
(* the cycle.  The board has one in the UART slot and one in each of the   *)
(* two SPI slots.  At most one is selected, and each is back in IDLE a     *)
(* clock after its select goes away, before it can be selected again: one  *)
(* stands for all three.  The bytes that pass are left out.                *)
(***************************************************************************)
EXTENDS Naturals

CONSTANT MaxAck      \* bound: clocks the core takes to acknowledge, and one

ASSUME BridgeAssumption == MaxAck \in Nat

VARIABLES bridge, waited

bridgeVars == <<bridge, waited>>

BridgeTypeOK == bridge \in {"IDLE", "REQ", "DONE"} /\ waited \in 0 .. MaxAck

BridgeInit == bridge = "IDLE" /\ waited = 0

\* `cs' is cs_n low, `ds' is ds_n low: the upper data strobe on this board.
\* A mutant that forgets to invert ds_n.
BridgeIdleMutant(cs, ds) ==
    /\ bridge = "IDLE"
    /\ bridge' = IF cs /\ ~ds THEN "REQ" ELSE "IDLE"
    /\ UNCHANGED waited

BridgeIdle(cs, ds) ==
    /\ bridge = "IDLE"
    /\ bridge' = IF cs /\ ds THEN "REQ" ELSE "IDLE"
    /\ UNCHANGED waited

BridgeWait ==
    /\ bridge = "REQ" /\ waited < MaxAck
    /\ waited' = waited + 1 /\ UNCHANGED bridge

BridgeAck ==
    /\ bridge = "REQ"
    /\ bridge' = "DONE" /\ waited' = 0

BridgeDone(cs) ==
    /\ bridge = "DONE"
    /\ bridge' = IF cs THEN "DONE" ELSE "IDLE"
    /\ UNCHANGED waited

BridgeStep(cs, ds) ==
    BridgeIdle(cs, ds) \/ BridgeWait \/ BridgeAck \/ BridgeDone(cs)
=============================================================================
