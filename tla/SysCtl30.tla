------------------------------ MODULE SysCtl30 ------------------------------
(***************************************************************************)
(* mackerel-30/system_controller.v: decode, wait states, timer, interrupt  *)
(* latches and DSACK of the 68030 board, with the boot signal.             *)
(*                                                                         *)
(* The CPU is external.  It moves at the falling edges of the clock the    *)
(* registers of the controller rise with: AS_n falls at one such edge,     *)
(* DSACK is sampled at every following one until it is low, and AS_n rises *)
(* at the edge after that; DS_n of a write falls one edge after AS_n.      *)
(* IPL_n is seen one edge late.                                            *)
(***************************************************************************)
EXTENDS BootSignal

CONSTANTS
    IDE_WAIT, DUART_WAIT, TIMER_DIVIDER,
    Spaces,          \* what the program addresses: see Space below
    MaxResets        \* bound: how often the reset button is pressed

(***************************************************************************)
(* The address spaces of the decoder; "on" and "off" are the two timer     *)
(* registers, "hole" is what nothing decodes.                              *)
(***************************************************************************)
Space == {"rom", "sram", "dram", "duart", "ide", "on", "off", "hole"}
Levels == {"ipl3", "ipl4", "ipl5", "ipl6"}
None == "none"

ASSUME SysAssumption ==
    /\ IDE_WAIT \in Nat /\ DUART_WAIT \in Nat /\ TIMER_DIVIDER \in Nat \ {0}
    /\ Spaces \subseteq Space /\ MaxResets \in Nat

VARIABLES
    ide, duart,                      \* the two wait-state generators
    timer_cnt, timer_enable, IRQ_TIMER,
    W5500_int_prev, IRQ_W5500,
    clk,                             \* the level of the clock
    cpu, addr, write, ds, ipl,       \* external: the CPU
    resets,
    cycles, waited, paused, owed     \* history: see below

regs == <<ide, duart, timer_cnt, timer_enable, IRQ_TIMER, W5500_int_prev, IRQ_W5500>>
cpuVars == <<cpu, addr, write, ds, ipl>>
\* Bus cycles since reset; clocks this bus cycle has waited; clocks since
\* the last IDE cycle; the levels whose event no acknowledge has answered.
history == <<cycles, waited, paused, owed>>
sysVars == <<regs, clk, cpuVars, resets, bootVars, history>>

AS == cpu # "idle"
CpuSpace == addr \in {"fpu"} \cup Levels
\* Until BOOT every address but those of CPU space selects the ROM.
Select == IF ~AS THEN None ELSE IF CpuSpace THEN addr ELSE IF BOOT THEN addr ELSE "rom"

\* The mutant takes any acknowledge for that of the level.
IackMutant(l) == Select \in Levels
Iack(l) == Select = l

WaitInit == [waiting |-> FALSE, cnt |-> 0]

SysInit ==
    /\ ide = WaitInit /\ duart = WaitInit
    /\ timer_cnt = 0 /\ timer_enable = FALSE /\ IRQ_TIMER = FALSE
    /\ W5500_int_prev = FALSE /\ IRQ_W5500 = FALSE
    /\ clk = 0 /\ cpu = "idle" /\ addr = None /\ write = FALSE /\ ds = FALSE /\ ipl = None
    /\ resets = 0 /\ BootInit
    /\ cycles = 0 /\ waited = 0 /\ paused = IDE_WAIT + 1 /\ owed = {}

-----------------------------------------------------------------------------
(* What the rising edge does to each part.                                 *)

\* Two mutants: one does not start over, one does not end.
WaitStepMutant(g, cs, max) ==
    [waiting |-> IF g.waiting THEN g.cnt < max ELSE cs,
     cnt |-> IF g.waiting /\ g.cnt < max THEN g.cnt + 1 ELSE g.cnt]

WaitStepStuck(g, cs, max) ==
    [waiting |-> g.waiting \/ cs,
     cnt |-> IF g.waiting /\ g.cnt < max THEN g.cnt + 1 ELSE g.cnt]

\* Idle until selected, then max + 1 clocks: whether the cycle that started
\* it goes on or another one has begun makes no difference.
WaitStep(g, cs, max) ==
    [waiting |-> IF g.waiting THEN g.cnt < max ELSE cs,
     cnt |-> IF ~g.waiting THEN (IF cs THEN 0 ELSE g.cnt)
             ELSE IF g.cnt < max THEN g.cnt + 1 ELSE g.cnt]

TimerWrite(reg) == Select = reg /\ ds /\ write
Rollover == timer_enable /\ timer_cnt = TIMER_DIVIDER - 1

TimerCount == IF timer_enable /\ ~Rollover THEN timer_cnt + 1 ELSE 0

\* The mutant leaves the request of a timer that is disabled.
TimerRequestMutant == ~Iack("ipl6") /\ (Rollover \/ IRQ_TIMER)

\* The later assignments win: a rollover over the write that disables the
\* timer, the acknowledge over a rollover.
TimerRequest == ~Iack("ipl6") /\ (Rollover \/ (IRQ_TIMER /\ ~TimerWrite("off")))

TimerStep ==
    /\ timer_enable' = (TimerWrite("on") \/ (timer_enable /\ ~TimerWrite("off")))
    /\ timer_cnt' = TimerCount
    /\ IRQ_TIMER' = TimerRequest

\* `int' is W5500_INT_n low, an input.
NicEdge(int) == ~W5500_int_prev /\ int

NicStep(int) ==
    /\ W5500_int_prev' = int
    /\ IRQ_W5500' = (NicEdge(int) \/ (IRQ_W5500 /\ ~Iack("ipl4")))

\* irq_encoder: the highest request.
Ipl(irq_duart, ide_int) ==
    IF IRQ_TIMER THEN "ipl6" ELSE IF irq_duart THEN "ipl5"
    ELSE IF IRQ_W5500 THEN "ipl4" ELSE IF ide_int THEN "ipl3" ELSE None

\* The mutant answers for IDE and DUART as soon as they are selected.
DsackMutant(ext) ==
    \/ Select \in Levels \cup {"rom", "ide"}
    \/ (Select \in {"dram", "fpu"} /\ ext)
    \/ (Select \in {"sram", "on", "off", "duart"} /\ ds)

\* DSACK0_n or DSACK1_n low; `ext' is that of the DRAM controller or the FPU.
Dsack(ext) ==
    \/ Select \in Levels \cup {"rom"}
    \/ (Select \in {"dram", "fpu"} /\ ext)
    \/ (Select = "ide" /\ ~ide.waiting)
    \/ (Select = "duart" /\ ds /\ ~duart.waiting)
    \/ (Select \in {"sram", "on", "off"} /\ ds)

Rise ==
    /\ clk = 0 /\ clk' = 1
    /\ ide' = WaitStep(ide, Select = "ide", IDE_WAIT)
    /\ duart' = WaitStep(duart, Select = "duart" /\ ds, DUART_WAIT)
    /\ TimerStep
    /\ \E int \in BOOLEAN :
          /\ NicStep(int)
          /\ owed' = (owed \ IF TimerWrite("off") THEN {"ipl6"} ELSE {})
                     \cup (IF Rollover THEN {"ipl6"} ELSE {})
                     \cup (IF NicEdge(int) THEN {"ipl4"} ELSE {})
    /\ UNCHANGED <<cpuVars, resets, bootVars, cycles, waited, paused>>

-----------------------------------------------------------------------------
(* The CPU, at the falling edge.                                           *)

Pause == paused' = IF paused <= IDE_WAIT THEN paused + 1 ELSE paused

CpuIdle ==
    /\ cpu = "idle" /\ Pause
    /\ UNCHANGED <<cpu, addr, write, ds, cycles, waited, owed>>

Start(a, w) ==
    /\ cpu = "idle" /\ Pause
    /\ cpu' = "cycle" /\ addr' = a /\ write' = w /\ ds' = ~w /\ waited' = 0
    /\ UNCHANGED <<cycles, owed>>

\* The vectors are the first thing the CPU reads, from address 0.
CpuStart ==
    IF cycles < BOOT_CYCLE_MAX
    THEN Start("dram", FALSE)
    ELSE \/ \E a \in Spaces \cup {"rom"}, w \in BOOLEAN : Start(a, w)
         \/ Start("fpu", FALSE)
         \/ (ipl # None /\ Start(ipl, FALSE))

CpuSample(ext) ==
    /\ cpu = "cycle" /\ ds' = TRUE
    /\ IF Dsack(ext)
       THEN cpu' = "latch" /\ UNCHANGED waited
       ELSE /\ waited' = IF waited <= IDE_WAIT THEN waited + 1 ELSE waited
            /\ UNCHANGED cpu
    /\ IF Select = "ide" THEN UNCHANGED paused ELSE Pause
    /\ UNCHANGED <<addr, write, cycles, owed>>

CpuEnd ==
    /\ cpu = "latch" /\ cpu' = "idle"
    /\ addr' = None /\ write' = FALSE /\ ds' = FALSE /\ waited' = 0
    /\ cycles' = IF cycles < BOOT_CYCLE_MAX THEN cycles + 1 ELSE cycles
    /\ IF Select = "ide" THEN paused' = 0 ELSE Pause
    /\ owed' = owed \ {Select}

Fall(ext, irq_duart, ide_int) ==
    /\ clk = 1 /\ clk' = 0
    /\ (CpuIdle \/ CpuStart \/ CpuSample(ext) \/ CpuEnd)
    /\ IF AS /\ cpu' = "idle" THEN BootEdge(FALSE) ELSE UNCHANGED bootVars
    /\ ipl' = Ipl(irq_duart, ide_int)
    /\ UNCHANGED <<regs, resets>>

\* The reset button.  The CPU lets go of AS_n: that is an edge for the boot
\* signal only if AS_n was low.
Reset ==
    /\ resets < MaxResets /\ resets' = resets + 1
    /\ IF AS THEN BootEdge(TRUE) ELSE UNCHANGED bootVars
    /\ ide' = WaitInit /\ duart' = WaitInit
    /\ timer_cnt' = 0 /\ timer_enable' = FALSE /\ IRQ_TIMER' = FALSE
    /\ W5500_int_prev' = FALSE /\ IRQ_W5500' = FALSE
    /\ cpu' = "idle" /\ addr' = None /\ write' = FALSE /\ ds' = FALSE /\ ipl' = None
    /\ cycles' = 0 /\ waited' = 0 /\ paused' = IDE_WAIT + 1 /\ owed' = {}
    /\ UNCHANGED clk

FallAny(ext) == \E irq_duart, ide_int \in BOOLEAN : Fall(ext, irq_duart, ide_int)

SysNext == Rise \/ (\E ext \in BOOLEAN : FallAny(ext)) \/ Reset

SysSpec == SysInit /\ [][SysNext]_sysVars

\* The oscillator runs, and the DRAM controller and the FPU answer in the end.
SysFairSpec ==
    /\ SysSpec
    /\ WF_sysVars(Rise) /\ WF_sysVars(\E ext \in BOOLEAN : FallAny(ext))
    /\ SF_sysVars(AS /\ FallAny(TRUE))

-----------------------------------------------------------------------------
SysTypeOK ==
    /\ ide \in [waiting : BOOLEAN, cnt : 0 .. IDE_WAIT]
    /\ duart \in [waiting : BOOLEAN, cnt : 0 .. DUART_WAIT]
    /\ timer_cnt \in 0 .. TIMER_DIVIDER - 1
    /\ {timer_enable, IRQ_TIMER, W5500_int_prev, IRQ_W5500} \subseteq BOOLEAN
    /\ clk \in {0, 1} /\ cpu \in {"idle", "cycle", "latch"}
    /\ addr \in Space \cup Levels \cup {"fpu", None} /\ ipl \in Levels \cup {None}
    /\ {write, ds} \subseteq BOOLEAN
    /\ owed \subseteq {"ipl4", "ipl6"}
    /\ BootTypeOK

(* An edge of the NIC, or a tick of the enabled timer, stays requested or  *)
(* is being acknowledged until an acknowledge of its own level has ended   *)
(* after it: neither an acknowledge of another level, nor one it collides  *)
(* with, loses it (system_controller.v:210-231).                           *)
NoEventLost ==
    /\ "ipl4" \in owed => IRQ_W5500 \/ Iack("ipl4")
    /\ "ipl6" \in owed => IRQ_TIMER \/ Iack("ipl6")

(* Once the program has switched the timer off, and the write has ended,   *)
(* no request of it is left, not even one that was raised by a rollover at *)
(* the very edge that cleared the enable bit (system_controller.v:189-208).*)
QuietWhenDisabled == ~timer_enable /\ ~TimerWrite("off") => ~IRQ_TIMER

(* The DUART is never answered without its wait states, although its       *)
(* generator starts again when an access goes on after they are over.      *)
DuartWaitHeld ==
    cpu = "latch" /\ Select = "duart" => waited >= DUART_WAIT + 1

(* An IDE access that comes no sooner than the wait of the last one is     *)
(* over gets all its wait states.                                          *)
SpacedIdeWaitHeld ==
    cpu = "latch" /\ Select = "ide" /\ paused > IDE_WAIT => waited >= IDE_WAIT

(* "PIO mode 0 minimum cycle time is 600 ns; at 24 MHz that requires ~14   *)
(* wait clocks" (system_controller.v:126-127): every IDE access waits that *)
(* long.                                                                   *)
IdeWaitHeld == cpu = "latch" /\ Select = "ide" => waited >= IDE_WAIT

(* "ROM at 0xE0000000 (mapped to 0x0000 for the first eight bus cycles)"   *)
(* (system_controller.v:88): after a reset the vectors come from the ROM.  *)
VectorsFromRom == AS /\ cycles < BOOT_CYCLE_MAX => Select = "rom"

(* Every bus cycle ends, but for those nothing decodes.                    *)
CycleEnds == AS ~> (~AS \/ Select = "hole")
=============================================================================
