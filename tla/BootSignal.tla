----------------------------- MODULE BootSignal -----------------------------
(***************************************************************************)
(* boot_signal.v, the same in three boards: it counts bus cycles after     *)
(* reset, at the rising edge of AS_n, and then raises BOOT.  Until then    *)
(* the decoders map the ROM at address 0 and nothing else.                 *)
(***************************************************************************)
EXTENDS Naturals

CONSTANT BOOT_CYCLE_MAX

ASSUME BootAssumption == BOOT_CYCLE_MAX \in Nat

VARIABLES bus_cycles, BOOT

bootVars == <<bus_cycles, BOOT>>

BootTypeOK == bus_cycles \in 0 .. BOOT_CYCLE_MAX + 1 /\ BOOT \in BOOLEAN

\* The register initialisers of the bitstream.
BootInit == bus_cycles = 0 /\ BOOT = FALSE

\* A rising edge of AS_n; `reset' is RESET_n low at that edge.
BootEdge(reset) ==
    IF reset THEN bus_cycles' = 0 /\ BOOT' = FALSE
    ELSE IF BOOT THEN UNCHANGED bootVars
    ELSE bus_cycles' = bus_cycles + 1 /\ BOOT' = (bus_cycles = BOOT_CYCLE_MAX)
=============================================================================
