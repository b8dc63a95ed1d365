----------------------------- MODULE MackerelF -----------------------------
(***************************************************************************)
(* mackerel_f.v around the memory path: the boot shadow, the slaves that   *)
(* answer at once, the register bridges of the UART and the SPI slots, the *)
(* interrupt acknowledge, and the watchdog that ends the cycles nobody     *)
(* answers.                                                                *)
(***************************************************************************)
EXTENDS MemPath, BusWatchdog, BootSignal, RegisterBridge

CONSTANT MaxSetup    \* bound: clocks from the address strobe of a write to
                     \* its data strobes

ASSUME SetupAssumption == MaxSetup \in Nat

socVars == <<vars, watchdogVars, bridgeVars, bootVars>>

SocTypeOK == TypeOK /\ WatchdogTypeOK /\ BridgeTypeOK /\ BootTypeOK

SocInit == Init /\ WatchdogInit /\ BridgeInit /\ BootInit

\* cs_uart_n, cs_spi_n or cs_spi2_n is low.
Bridged == bus.sel = "bridge"

\* DTACKn, and VPAn: neither is asserted with the address strobe high.
Answered ==
    \/ Selected /\ dtack
    \/ Bridged /\ bridge = "DONE"
    \/ bus.sel \in {"device", "iack"}

\* Before BOOT every cycle is the ROM's, whatever its address.  The core
\* strobes the data of a write a fixed time after the address.
SocCpu ==
    /\ CpuStep(Answered \/ berr)
    /\ ~BOOT => bus'.sel \in {"none", "device"}
    /\ bus.write /\ ~Strobed /\ count >= MaxSetup => bus' # bus

AsRises == ~ASn /\ bus'.sel = "none"

SocTick ==
    /\ SocCpu
    /\ CacheStep(mdtack, mrdata, mrdata32)
    /\ AdapterStep(mem_cs)
    /\ CoreStep
    /\ WatchdogStep(ASn \/ Answered)
    /\ BridgeStep(Bridged, "u" \in bus.ds)
    /\ IF AsRises THEN BootEdge(FALSE) ELSE UNCHANGED bootVars

SocSpec == SocInit /\ [][SocTick]_socVars

\* The clock of the SoC never stops.
SocFairSpec == SocSpec /\ WF_socVars(SocTick)

-----------------------------------------------------------------------------
(* BERRn reaches the CPU only in a cycle that no slave is there to answer: *)
(* to an address nothing decodes, or in the lower lane alone of a bridge,  *)
(* whose ds_n is UDSn (mackerel_f.v:196,258,281, uart.v:36, spi.v:39).  An *)
(* SDRAM access that waits for a refresh, a fill or both bytes of a write, *)
(* and a bridge that waits for its core, answer before the watchdog gives  *)
(* up, and the error of one cycle is gone before the next one starts       *)
(* (mackerel_f.v:366-391).                                                 *)
NoFalseBusError ==
    berr => ASn \/ bus.sel = "unmapped" \/ (Bridged /\ bus.ds = {"l"})

(* A refresh request is served before the next one falls due, however long *)
(* the CPU stretches its cycles: the cache releases the adapter as soon as *)
(* it has the answer (sdram_cache.v:115,124, sdram_controller.v:88-96).    *)
NoRefreshLost == ~(init_seen /\ ref_due /\ ref_cnt >= REFRESH_INT)

(* Every bus cycle that strobes data is terminated.                        *)
EveryCycleAnswered == ~ASn /\ Strobed ~> Answered \/ berr
=============================================================================
