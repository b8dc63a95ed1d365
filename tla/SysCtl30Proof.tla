--------------------------- MODULE SysCtl30Proof ---------------------------
(***************************************************************************)
(* The safety properties of the Mackerel-30 system controller, for every   *)
(* divider, wait, boot length and number of resets: no event is lost, a    *)
(* timer that is off is quiet, and the wait states are kept.               *)
(***************************************************************************)
EXTENDS SysCtl30, TLAPS

(* What a falling edge is: one of four moves of the CPU, of which only the *)
(* end of a cycle is an edge for the boot signal.                          *)
LEMMA FallCases ==
    ASSUME NEW ext, NEW irq_duart, NEW ide_int, Fall(ext, irq_duart, ide_int)
    PROVE  /\ clk = 1 /\ clk' = 0 /\ UNCHANGED regs
           /\ \/ CpuIdle /\ UNCHANGED bootVars
              \/ (\E a, w : w \in BOOLEAN /\ Start(a, w)) /\ UNCHANGED bootVars
              \/ CpuSample(ext) /\ UNCHANGED bootVars
              \/ CpuEnd
  <1>1. clk = 1 /\ clk' = 0 /\ UNCHANGED regs
    BY DEF Fall
  <1>2. CASE CpuIdle
    BY <1>1, <1>2 DEF Fall, CpuIdle, AS
  <1>3. CASE CpuStart
    <2>1. \E a, w : w \in BOOLEAN /\ Start(a, w)
      BY <1>3 DEF CpuStart
    <2>2. UNCHANGED bootVars
      BY <2>1 DEF Fall, Start, AS
    <2> QED  BY <1>1, <2>1, <2>2
  <1>4. CASE CpuSample(ext)
    BY <1>1, <1>4 DEF Fall, CpuSample, AS
  <1>5. CASE CpuEnd
    BY <1>1, <1>5
  <1> QED  BY <1>2, <1>3, <1>4, <1>5 DEF Fall

(* The slave stays selected while the cycle lasts.                         *)
LEMMA SelectKept ==
    ASSUME AS' = AS, UNCHANGED <<addr, BOOT>>
    PROVE  Select' = Select
  BY DEF Select, CpuSpace

(* The four cases of a step, with the cases of a falling edge.             *)
LEMMA StepCases ==
    ASSUME [SysNext]_sysVars
    PROVE  \/ Rise
           \/ \E ext \in BOOLEAN : FallAny(ext)
           \/ Reset
           \/ UNCHANGED sysVars
  BY DEF SysNext

-----------------------------------------------------------------------------
(* Events.                                                                 *)

LEMMA EventsRise ==
    ASSUME NoEventLost, Rise
    PROVE  NoEventLost'
  <1>1. Select' = Select /\ Iack("ipl4")' = Iack("ipl4") /\ Iack("ipl6")' = Iack("ipl6")
    BY SelectKept DEF Rise, cpuVars, bootVars, AS, Iack
  <1>2. ASSUME "ipl6" \in owed'
        PROVE  IRQ_TIMER' \/ Iack("ipl6")
    <2>1. IRQ_TIMER' = (~Iack("ipl6") /\ (Rollover \/ (IRQ_TIMER /\ ~TimerWrite("off"))))
      BY DEF Rise, TimerStep, TimerRequest
    <2>2. Rollover \/ ("ipl6" \in owed /\ ~TimerWrite("off"))
      BY <1>2 DEF Rise
    <2> QED  BY <2>1, <2>2 DEF NoEventLost
  <1>3. ASSUME "ipl4" \in owed'
        PROVE  IRQ_W5500' \/ Iack("ipl4")
    <2>1. PICK int \in BOOLEAN :
              /\ IRQ_W5500' = (NicEdge(int) \/ (IRQ_W5500 /\ ~Iack("ipl4")))
              /\ owed' = (owed \ IF TimerWrite("off") THEN {"ipl6"} ELSE {})
                         \cup (IF Rollover THEN {"ipl6"} ELSE {})
                         \cup (IF NicEdge(int) THEN {"ipl4"} ELSE {})
      BY DEF Rise, NicStep
    <2>2. NicEdge(int) \/ "ipl4" \in owed
      BY <1>3, <2>1
    <2> QED  BY <2>1, <2>2 DEF NoEventLost
  <1> QED  BY <1>1, <1>2, <1>3 DEF NoEventLost

LEMMA EventsFall ==
    ASSUME NoEventLost, NEW ext, NEW i, NEW j, Fall(ext, i, j)
    PROVE  NoEventLost'
  <1>1. UNCHANGED <<IRQ_TIMER, IRQ_W5500>>
    BY DEF Fall, regs
  <1>2. CASE CpuIdle /\ UNCHANGED bootVars
    <2>1. Select' = Select
      BY <1>2, SelectKept DEF CpuIdle, bootVars, AS
    <2> QED  BY <1>1, <1>2, <2>1 DEF CpuIdle, NoEventLost, Iack
  <1>3. CASE (\E a, w : w \in BOOLEAN /\ Start(a, w)) /\ UNCHANGED bootVars
    \* Nothing was being acknowledged before the cycle.
    BY <1>1, <1>3 DEF Start, NoEventLost, Iack, Select, AS, None
  <1>4. CASE CpuSample(ext) /\ UNCHANGED bootVars
    <2>1. Select' = Select
      BY <1>4, SelectKept DEF CpuSample, bootVars, AS
    <2> QED  BY <1>1, <1>4, <2>1 DEF CpuSample, NoEventLost, Iack
  <1>5. CASE CpuEnd
    \* What was being acknowledged is no longer owed.
    BY <1>1, <1>5 DEF CpuEnd, NoEventLost, Iack
  <1> QED  BY <1>2, <1>3, <1>4, <1>5, FallCases

(* THEOREM: no interrupt event is lost (system_controller.v:189-231): an   *)
(* edge of the NIC or a tick of the timer is requested or being            *)
(* acknowledged until an acknowledge of its level has ended after it.      *)
THEOREM EventsKept == SysSpec => []NoEventLost
  <1>1. SysInit => NoEventLost
    BY DEF SysInit, NoEventLost
  <1>2. NoEventLost /\ [SysNext]_sysVars => NoEventLost'
    <2> SUFFICES ASSUME NoEventLost, [SysNext]_sysVars PROVE NoEventLost'
      OBVIOUS
    <2>1. CASE Rise
      BY <2>1, EventsRise
    <2>2. CASE \E ext \in BOOLEAN : FallAny(ext)
      BY <2>2, EventsFall DEF FallAny
    <2>3. CASE Reset
      BY <2>3 DEF Reset, NoEventLost
    <2>4. CASE UNCHANGED sysVars
      <3>1. Select' = Select
        BY <2>4, SelectKept DEF sysVars, cpuVars, bootVars, AS
      <3> QED  BY <2>4, <3>1 DEF sysVars, regs, history, NoEventLost, Iack
    <2> QED  BY <2>1, <2>2, <2>3, <2>4, StepCases
  <1> QED  BY <1>1, <1>2, PTL DEF SysSpec

-----------------------------------------------------------------------------
(* The timer.  The write that disables it meets two rising edges: after    *)
(* the first the timer is off, and a rollover may just have overruled the  *)
(* clearing of the request; after the second the request is gone too.      *)

Disabling == TimerWrite("off") /\ (cpu = "latch" \/ clk = 1) => ~timer_enable
Cleared == TimerWrite("off") /\ cpu = "latch" /\ clk = 1 => ~IRQ_TIMER
TimerInv == QuietWhenDisabled /\ Disabling /\ Cleared

LEMMA TimerRise ==
    ASSUME TimerInv, Rise
    PROVE  TimerInv'
  <1>1. Select' = Select /\ cpu' = cpu /\ clk = 0
    BY SelectKept DEF Rise, cpuVars, bootVars, AS
  <1>2. TimerWrite("off")' = TimerWrite("off")
    BY <1>1 DEF Rise, cpuVars, TimerWrite
  <1>3. ~(TimerWrite("off") /\ TimerWrite("on"))
    BY DEF TimerWrite
  <1>4. /\ timer_enable' = (TimerWrite("on") \/ (timer_enable /\ ~TimerWrite("off")))
        /\ IRQ_TIMER' = (~Iack("ipl6") /\ (Rollover \/ (IRQ_TIMER /\ ~TimerWrite("off"))))
    BY DEF Rise, TimerStep, TimerRequest
  <1>5. QuietWhenDisabled'
    BY <1>2, <1>4 DEF TimerInv, QuietWhenDisabled, Rollover
  <1>6. Disabling'
    BY <1>2, <1>3, <1>4 DEF Disabling
  <1>7. Cleared'
    BY <1>1, <1>2, <1>4 DEF TimerInv, Disabling, Cleared, Rollover
  <1> QED  BY <1>5, <1>6, <1>7 DEF TimerInv

LEMMA TimerFall ==
    ASSUME TimerInv, NEW ext, NEW i, NEW j, Fall(ext, i, j)
    PROVE  TimerInv'
  <1>1. clk = 1 /\ clk' = 0 /\ UNCHANGED <<IRQ_TIMER, timer_enable>>
    BY DEF Fall, regs
  <1>2. CASE CpuIdle /\ UNCHANGED bootVars
    <2>1. ~TimerWrite("off") /\ ~TimerWrite("off")'
      BY <1>2 DEF CpuIdle, TimerWrite, Select, AS, None
    <2> QED  BY <1>1, <2>1 DEF TimerInv, QuietWhenDisabled, Disabling, Cleared
  <1>3. CASE (\E a, w : w \in BOOLEAN /\ Start(a, w)) /\ UNCHANGED bootVars
    \* A write starts without its data strobe.
    <2>1. PICK a, w : w \in BOOLEAN /\ Start(a, w)
      BY <1>3
    <2>2. ~TimerWrite("off")
      BY <2>1 DEF Start, TimerWrite, Select, AS, None
    <2>3. ~TimerWrite("off")'
      <3>1. ds' = ~w /\ write' = w
        BY <2>1 DEF Start
      <3> QED  BY <3>1 DEF TimerWrite
    <2> QED  BY <1>1, <2>2, <2>3 DEF TimerInv, QuietWhenDisabled, Disabling, Cleared
  <1>4. CASE CpuSample(ext) /\ UNCHANGED bootVars
    <2>1. Select' = Select /\ write' = write
      BY <1>4, SelectKept DEF CpuSample, bootVars, AS
    \* The timer answers at the second sample: the strobe was out at the first.
    <2>2. CASE TimerWrite("off")
      <3>1. TimerWrite("off")' /\ ~timer_enable
        BY <1>1, <1>4, <2>1, <2>2 DEF CpuSample, TimerWrite, TimerInv, Disabling
      <3> QED  BY <1>1, <3>1 DEF TimerInv, QuietWhenDisabled, Disabling, Cleared
    <2>3. CASE ~TimerWrite("off") /\ TimerWrite("off")'
      <3>1. Select = "off" /\ ~ds
        BY <2>1, <2>3 DEF TimerWrite
      <3>2. cpu' = "cycle"
        BY <1>4, <3>1 DEF CpuSample, Dsack, Levels
      <3> QED
        BY <1>1, <2>3, <3>2 DEF TimerInv, QuietWhenDisabled, Disabling, Cleared
    <2>4. CASE ~TimerWrite("off") /\ ~TimerWrite("off")'
      BY <1>1, <2>4 DEF TimerInv, QuietWhenDisabled, Disabling, Cleared
    <2> QED  BY <2>2, <2>3, <2>4
  <1>5. CASE CpuEnd
    <2>1. ~TimerWrite("off")'
      BY <1>5 DEF CpuEnd, TimerWrite, Select, AS, None
    <2>2. ~timer_enable => ~IRQ_TIMER
      BY <1>1, <1>5 DEF CpuEnd, TimerInv, QuietWhenDisabled, Cleared
    <2> QED  BY <1>1, <2>1, <2>2 DEF TimerInv, QuietWhenDisabled, Disabling, Cleared
  <1> QED  BY <1>2, <1>3, <1>4, <1>5, FallCases

(* THEOREM: a timer that has been switched off leaves no request behind,   *)
(* whatever the divider, and although a rollover overrules the clearing    *)
(* write at the edge they share (system_controller.v:189-208).             *)
THEOREM TimerQuiet == SysSpec => []QuietWhenDisabled
  <1>1. SysInit => TimerInv
    BY DEF SysInit, TimerInv, QuietWhenDisabled, Disabling, Cleared
  <1>2. TimerInv /\ [SysNext]_sysVars => TimerInv'
    <2> SUFFICES ASSUME TimerInv, [SysNext]_sysVars PROVE TimerInv'
      OBVIOUS
    <2>1. CASE Rise
      BY <2>1, TimerRise
    <2>2. CASE \E ext \in BOOLEAN : FallAny(ext)
      BY <2>2, TimerFall DEF FallAny
    <2>3. CASE Reset
      BY <2>3 DEF Reset, TimerInv, QuietWhenDisabled, Disabling, Cleared
    <2>4. CASE UNCHANGED sysVars
      <3>1. Select' = Select
        BY <2>4, SelectKept DEF sysVars, cpuVars, bootVars, AS
      <3> QED
        BY <2>4, <3>1 DEF sysVars, regs, cpuVars, TimerInv, QuietWhenDisabled,
                          Disabling, Cleared, TimerWrite
    <2> QED  BY <2>1, <2>2, <2>3, <2>4, StepCases
  <1>3. TimerInv => QuietWhenDisabled
    BY DEF TimerInv
  <1> QED  BY <1>1, <1>2, <1>3, PTL DEF SysSpec

-----------------------------------------------------------------------------
(* The wait generators.  A generator counts on after the cycle that has    *)
(* started it; by the time `paused' exceeds IDE_WAIT it has stopped.       *)

Counters ==
    /\ clk \in {0, 1}
    /\ waited \in 0 .. IDE_WAIT + 1 /\ paused \in 0 .. IDE_WAIT + 1

IdeType == ide.waiting \in BOOLEAN /\ ide.cnt \in 0 .. IDE_WAIT

\* Between IDE cycles a generator still running is no further behind than
\* the pause is long.
Running == Select # "ide" /\ ide.waiting => ide.cnt >= paused + clk

\* In a cycle that met an idle generator, the CPU has waited as long as the
\* generator counts; a generator that is done has held it all the time.
InStep ==
    Select = "ide" /\ paused > IDE_WAIT =>
       /\ cpu = "cycle" /\ ide.waiting => waited + clk >= ide.cnt + 1
       /\ cpu = "cycle" /\ ~ide.waiting => (clk = 0 /\ waited = 0) \/ waited > IDE_WAIT
       /\ cpu # "cycle" => waited > IDE_WAIT

IdeInv == Counters /\ IdeType /\ Running /\ InStep

(* One step of a generator, field by field.                                *)
LEMMA WaitStepIs ==
    ASSUME NEW g, NEW cs \in BOOLEAN, NEW max \in Nat,
           g.waiting \in BOOLEAN, g.cnt \in 0 .. max
    PROVE  /\ WaitStep(g, cs, max).waiting <=> IF g.waiting THEN g.cnt < max ELSE cs
           /\ WaitStep(g, cs, max).cnt =
                 IF ~g.waiting THEN (IF cs THEN 0 ELSE g.cnt)
                 ELSE IF g.cnt < max THEN g.cnt + 1 ELSE g.cnt
           /\ WaitStep(g, cs, max).waiting \in BOOLEAN
           /\ WaitStep(g, cs, max).cnt \in 0 .. max
  <1>1. WaitStep(g, cs, max).waiting = IF g.waiting THEN g.cnt < max ELSE cs
    BY Zenon DEF WaitStep
  <1>2. WaitStep(g, cs, max).cnt =
           IF ~g.waiting THEN (IF cs THEN 0 ELSE g.cnt)
           ELSE IF g.cnt < max THEN g.cnt + 1 ELSE g.cnt
    BY Zenon DEF WaitStep
  <1>3. WaitStep(g, cs, max).waiting \in BOOLEAN
    <2>1. (g.cnt < max) \in BOOLEAN
      OBVIOUS
    <2> QED  BY <1>1, <2>1, Zenon
  <1>4. WaitStep(g, cs, max).cnt \in 0 .. max
    BY <1>2
  <1>5. WaitStep(g, cs, max).waiting <=> IF g.waiting THEN g.cnt < max ELSE cs
    BY <1>1, Zenon
  <1> QED  BY <1>2, <1>3, <1>4, <1>5

LEMMA IdeRise ==
    ASSUME IdeInv, Rise
    PROVE  IdeInv'
  <1>1. IDE_WAIT \in Nat
    BY SysAssumption
  <1>2. Select' = Select /\ UNCHANGED <<cpu, waited, paused>> /\ clk = 0 /\ clk' = 1
    BY SelectKept DEF Rise, cpuVars, bootVars, AS
  <1>3. /\ ide'.waiting <=> IF ide.waiting THEN ide.cnt < IDE_WAIT ELSE Select = "ide"
        /\ ide'.cnt = IF ~ide.waiting THEN (IF Select = "ide" THEN 0 ELSE ide.cnt)
                      ELSE IF ide.cnt < IDE_WAIT THEN ide.cnt + 1 ELSE ide.cnt
        /\ ide'.waiting \in BOOLEAN /\ ide'.cnt \in 0 .. IDE_WAIT
    <2>1. (Select = "ide") \in BOOLEAN
      OBVIOUS
    <2>2. ide' = WaitStep(ide, Select = "ide", IDE_WAIT)
      BY DEF Rise
    <2>3. ide.waiting \in BOOLEAN /\ ide.cnt \in 0 .. IDE_WAIT
      BY DEF IdeInv, IdeType
    <2>4. /\ WaitStep(ide, Select = "ide", IDE_WAIT).waiting <=>
                IF ide.waiting THEN ide.cnt < IDE_WAIT ELSE Select = "ide"
          /\ WaitStep(ide, Select = "ide", IDE_WAIT).cnt =
                IF ~ide.waiting THEN (IF Select = "ide" THEN 0 ELSE ide.cnt)
                ELSE IF ide.cnt < IDE_WAIT THEN ide.cnt + 1 ELSE ide.cnt
          /\ WaitStep(ide, Select = "ide", IDE_WAIT).waiting \in BOOLEAN
          /\ WaitStep(ide, Select = "ide", IDE_WAIT).cnt \in 0 .. IDE_WAIT
      BY <1>1, <2>1, <2>3, WaitStepIs, Zenon
    <2> QED  BY <2>2, <2>4, Zenon
  <1>4. Counters' /\ IdeType'
    BY <1>2, <1>3 DEF IdeInv, Counters, IdeType
  <1>5. Running'
    BY <1>1, <1>2, <1>3 DEF IdeInv, Counters, IdeType, Running
  <1>6. InStep'
    <2> SUFFICES ASSUME Select = "ide", paused > IDE_WAIT
                 PROVE  /\ cpu = "cycle" /\ ide'.waiting => waited >= ide'.cnt
                        /\ cpu = "cycle" /\ ~ide'.waiting => waited > IDE_WAIT
                        /\ cpu # "cycle" => waited > IDE_WAIT
      BY <1>1, <1>2, <1>3, SMT DEF IdeInv, Counters, InStep
    <2>1. CASE cpu = "cycle"
      <3>1. CASE ide.waiting
        BY <1>1, <1>2, <1>3, <2>1, <3>1 DEF IdeInv, Counters, IdeType, InStep
      <3>2. CASE ~ide.waiting
        BY <1>1, <1>2, <1>3, <2>1, <3>2 DEF IdeInv, Counters, IdeType, InStep
      <3> QED  BY <3>1, <3>2
    <2>2. CASE cpu # "cycle"
      BY <2>2 DEF IdeInv, InStep
    <2> QED  BY <2>1, <2>2
  <1> QED  BY <1>4, <1>5, <1>6 DEF IdeInv

LEMMA IdeFall ==
    ASSUME IdeInv, NEW ext, NEW i, NEW j, Fall(ext, i, j)
    PROVE  IdeInv'
  <1>1. IDE_WAIT \in Nat
    BY SysAssumption
  <1>2. clk = 1 /\ clk' = 0 /\ UNCHANGED ide
    BY DEF Fall, regs
  <1>3. ide.waiting \in BOOLEAN /\ ide.cnt \in 0 .. IDE_WAIT /\ IdeType'
    BY <1>2 DEF IdeInv, IdeType
  <1>4. waited \in 0 .. IDE_WAIT + 1 /\ paused \in 0 .. IDE_WAIT + 1
    BY DEF IdeInv, Counters
  \* What a clock outside the IDE's cycles does to the pause.
  <1>5. ASSUME Pause, Select # "ide"
        PROVE  paused' \in 0 .. IDE_WAIT + 1 /\ (ide.waiting => ide.cnt >= paused')
    BY <1>1, <1>2, <1>3, <1>4, <1>5 DEF Pause, IdeInv, Running
  <1>6. CASE CpuIdle /\ UNCHANGED bootVars
    <2>1. Select # "ide" /\ Select' # "ide"
      BY <1>6 DEF CpuIdle, Select, AS, None
    <2>2. Pause /\ UNCHANGED waited
      BY <1>6 DEF CpuIdle
    <2> QED  BY <1>2, <1>3, <1>4, <1>5, <2>1, <2>2 DEF IdeInv, Counters, Running, InStep
  <1>7. CASE (\E a, w : w \in BOOLEAN /\ Start(a, w)) /\ UNCHANGED bootVars
    <2>1. Select # "ide"
      BY <1>7 DEF Start, Select, AS, None
    <2>2. Pause /\ waited' = 0 /\ cpu' = "cycle"
      BY <1>7 DEF Start
    <2>3. paused' \in 0 .. IDE_WAIT + 1 /\ (ide.waiting => ide.cnt >= paused')
      BY <1>5, <2>1, <2>2
    \* If the pause was long enough the generator is idle.
    <2>4. InStep'
      BY <1>1, <1>2, <1>3, <2>2, <2>3 DEF InStep
    <2> QED
      BY <1>1, <1>2, <1>3, <2>2, <2>3, <2>4 DEF IdeInv, Counters, Running
  <1>8. CASE CpuSample(ext) /\ UNCHANGED bootVars
    <2>1. Select' = Select /\ cpu = "cycle"
      BY <1>8, SelectKept DEF CpuSample, bootVars, AS
    <2>2. CASE Select = "ide"
      <3>1. paused' = paused
        BY <1>8, <2>2 DEF CpuSample
      <3>2. Dsack(ext) <=> ~ide.waiting
        BY <2>2 DEF Dsack, Levels
      <3>3. IF ide.waiting
            THEN cpu' = "cycle" /\ waited' = IF waited <= IDE_WAIT THEN waited + 1 ELSE waited
            ELSE cpu' = "latch" /\ waited' = waited
        BY <1>8, <2>1, <3>2 DEF CpuSample
      <3>4. waited' \in 0 .. IDE_WAIT + 1
        BY <1>1, <1>3, <1>4, <3>3
      <3>5. InStep'
        BY <1>1, <1>2, <1>3, <1>4, <2>1, <2>2, <3>1, <3>3 DEF IdeInv, InStep
      <3> QED
        BY <1>2, <1>3, <1>4, <2>1, <2>2, <3>1, <3>4, <3>5 DEF IdeInv, Counters, Running
    <2>3. CASE Select # "ide"
      <3>1. Pause
        BY <1>8, <2>3 DEF CpuSample
      <3>2. waited' \in 0 .. IDE_WAIT + 1
        BY <1>1, <1>4, <1>8 DEF CpuSample
      <3> QED
        BY <1>1, <1>2, <1>3, <1>5, <2>1, <2>3, <3>1, <3>2
           DEF IdeInv, Counters, Running, InStep
    <2> QED  BY <2>2, <2>3
  <1>9. CASE CpuEnd
    <2>1. Select' # "ide" /\ waited' = 0
      BY <1>9 DEF CpuEnd, Select, AS, None
    <2>2. paused' \in 0 .. IDE_WAIT + 1 /\ (ide.waiting => ide.cnt >= paused')
      <3>1. CASE Select = "ide"
        BY <1>1, <1>3, <1>9, <3>1 DEF CpuEnd
      <3>2. CASE Select # "ide"
        BY <1>5, <1>9, <3>2 DEF CpuEnd
      <3> QED  BY <3>1, <3>2
    <2> QED
      BY <1>1, <1>2, <1>3, <2>1, <2>2 DEF IdeInv, Counters, Running, InStep
  <1> QED  BY <1>6, <1>7, <1>8, <1>9, FallCases

(* THEOREM: an IDE access that comes no sooner than the wait of the last   *)
(* one is over is held for all its wait states, for every IDE_WAIT         *)
(* (system_controller.v:126-156).                                          *)
THEOREM IdeWaitsHeld == SysSpec => []SpacedIdeWaitHeld
  <1>1. SysInit => IdeInv
    BY SysAssumption
       DEF SysInit, IdeInv, Counters, IdeType, Running, InStep, WaitInit, Select, AS, None
  <1>2. IdeInv /\ [SysNext]_sysVars => IdeInv'
    <2> SUFFICES ASSUME IdeInv, [SysNext]_sysVars PROVE IdeInv'
      OBVIOUS
    <2>1. CASE Rise
      BY <2>1, IdeRise
    <2>2. CASE \E ext \in BOOLEAN : FallAny(ext)
      BY <2>2, IdeFall DEF FallAny
    <2>3. CASE Reset
      <3>1. Select' = None
        BY <2>3 DEF Reset, Select, AS
      <3>2. /\ clk' = clk /\ waited' = 0 /\ paused' = IDE_WAIT + 1
            /\ ide'.waiting = FALSE /\ ide'.cnt = 0
        BY <2>3 DEF Reset, WaitInit
      <3>3. Select' # "ide"
        BY <3>1 DEF None
      <3>4. Counters'
        BY SysAssumption, <3>2 DEF IdeInv, Counters
      <3>5. IdeType'
        <4>1. 0 \in 0 .. IDE_WAIT /\ FALSE \in BOOLEAN
          BY SysAssumption
        <4> QED  BY <3>2, <4>1, Zenon DEF IdeType
      <3>6. Running' /\ InStep'
        BY <3>2, <3>3, Zenon DEF Running, InStep
      <3> QED  BY <3>4, <3>5, <3>6 DEF IdeInv
    <2>4. CASE UNCHANGED sysVars
      <3>1. Select' = Select
        BY <2>4, SelectKept DEF sysVars, cpuVars, bootVars, AS
      <3> QED
        BY <2>4, <3>1
           DEF sysVars, regs, cpuVars, history, IdeInv, Counters, IdeType, Running, InStep
    <2> QED  BY <2>1, <2>2, <2>3, <2>4, StepCases
  <1>3. IdeInv => SpacedIdeWaitHeld
    BY SysAssumption DEF IdeInv, Counters, InStep, SpacedIdeWaitHeld
  <1> QED  BY <1>1, <1>2, <1>3, PTL DEF SysSpec

-----------------------------------------------------------------------------
(* The generator of the DUART, with the one wait clock that DUART_WAIT = 0 *)
(* gives: it ends at every edge at which it runs.                          *)

DuartType == clk \in {0, 1} /\ waited \in Nat /\ duart.waiting \in BOOLEAN /\ duart.cnt = 0

\* While the DUART is not strobed the generator is idle after an edge; in the
\* first clock of a strobed access it is idle before the edge and runs after.
DuartPhase ==
    /\ clk = 1 /\ ~(Select = "duart" /\ ds) => ~duart.waiting
    /\ cpu = "cycle" /\ Select = "duart" /\ waited = 0 =>
          /\ clk = 0 => ~duart.waiting
          /\ clk = 1 /\ ds => duart.waiting

DuartInv == DuartType /\ DuartPhase /\ DuartWaitHeld

LEMMA DuartRise ==
    ASSUME DUART_WAIT = 0, DuartInv, Rise
    PROVE  DuartInv'
  <1>1. Select' = Select /\ UNCHANGED <<cpu, ds, waited>> /\ clk = 0 /\ clk' = 1
    BY SelectKept DEF Rise, cpuVars, bootVars, AS
  <1>2. /\ duart'.waiting <=> ~duart.waiting /\ Select = "duart" /\ ds
        /\ duart'.waiting \in BOOLEAN /\ duart'.cnt = 0
    <2> DEFINE cs == Select = "duart" /\ ds
    <2>1. cs \in BOOLEAN /\ 0 \in Nat
      OBVIOUS
    <2>2. duart' = WaitStep(duart, cs, 0)
      BY DEF Rise
    <2>3. duart.waiting \in BOOLEAN /\ duart.cnt \in 0 .. 0 /\ duart.cnt = 0
      BY DEF DuartInv, DuartType
    <2>4. /\ WaitStep(duart, cs, 0).waiting <=> IF duart.waiting THEN duart.cnt < 0 ELSE cs
          /\ WaitStep(duart, cs, 0).waiting \in BOOLEAN
          /\ WaitStep(duart, cs, 0).cnt \in 0 .. 0
      <3> HIDE DEF cs
      <3> QED  BY <2>1, <2>3, WaitStepIs, Zenon
    <2>5. ~(duart.cnt < 0)
      BY <2>3
    <2>6. WaitStep(duart, cs, 0).cnt = 0
      BY <2>4
    <2> QED  BY <2>2, <2>4, <2>5, <2>6, Zenon
  <1>3. DuartType'
    BY <1>1, <1>2 DEF DuartInv, DuartType
  <1>4. DuartPhase'
    BY <1>1, <1>2 DEF DuartInv, DuartPhase
  <1>5. DuartWaitHeld'
    BY <1>1 DEF DuartInv, DuartWaitHeld
  <1> QED  BY <1>3, <1>4, <1>5 DEF DuartInv

LEMMA DuartFall ==
    ASSUME DUART_WAIT = 0, DuartInv, NEW ext, NEW i, NEW j, Fall(ext, i, j)
    PROVE  DuartInv'
  <1>1. clk = 1 /\ clk' = 0 /\ UNCHANGED duart
    BY DEF Fall, regs
  <1>2. waited \in Nat /\ IDE_WAIT \in Nat
    BY SysAssumption DEF DuartInv, DuartType
  <1>3. CASE CpuIdle /\ UNCHANGED bootVars
    BY <1>1, <1>2, <1>3
       DEF CpuIdle, Select, AS, None, DuartInv, DuartType, DuartPhase, DuartWaitHeld
  <1>4. CASE (\E a, w : w \in BOOLEAN /\ Start(a, w)) /\ UNCHANGED bootVars
    <2>1. Select # "duart" /\ waited' = 0 /\ cpu' = "cycle"
      BY <1>4 DEF Start, Select, AS, None
    <2>2. ~duart.waiting
      BY <1>1, <2>1 DEF DuartInv, DuartPhase
    <2> QED  BY <1>1, <2>1, <2>2 DEF DuartInv, DuartType, DuartPhase, DuartWaitHeld
  <1>5. CASE CpuSample(ext) /\ UNCHANGED bootVars
    <2>1. Select' = Select /\ cpu = "cycle"
      BY <1>5, SelectKept DEF CpuSample, bootVars, AS
    <2>2. CASE Dsack(ext)
      <3>1. cpu' = "latch" /\ waited' = waited
        BY <1>5, <2>2 DEF CpuSample
      \* The DUART answers when it is strobed and the generator has ended.
      <3>2. Select = "duart" => ds /\ ~duart.waiting
        BY <2>2 DEF Dsack, Levels
      <3>3. Select = "duart" => waited # 0
        BY <1>1, <2>1, <3>2 DEF DuartInv, DuartPhase
      <3> QED
        BY <1>1, <1>2, <2>1, <3>1, <3>3 DEF DuartInv, DuartType, DuartPhase, DuartWaitHeld
    <2>3. CASE ~Dsack(ext)
      <3>1. cpu' = "cycle" /\ waited' = IF waited <= IDE_WAIT THEN waited + 1 ELSE waited
        BY <1>5, <2>1, <2>3 DEF CpuSample
      <3>2. waited' \in Nat /\ waited' # 0
        BY <1>2, <3>1
      <3> QED
        BY <1>1, <2>1, <3>1, <3>2 DEF DuartInv, DuartType, DuartPhase, DuartWaitHeld
    <2> QED  BY <2>2, <2>3
  <1>6. CASE CpuEnd
    BY <1>1, <1>6 DEF CpuEnd, DuartInv, DuartType, DuartPhase, DuartWaitHeld
  <1> QED  BY <1>3, <1>4, <1>5, <1>6, FallCases

(* THEOREM: with the wait the code has, no access of the DUART is answered *)
(* without it, although the generator starts again while an access goes on *)
(* (system_controller.v:157-168).                                          *)
THEOREM DuartWaitsHeld ==
    ASSUME DUART_WAIT = 0
    PROVE  SysSpec => []DuartWaitHeld
  <1>1. SysInit => DuartInv
    BY DEF SysInit, WaitInit, DuartInv, DuartType, DuartPhase, DuartWaitHeld
  <1>2. DuartInv /\ [SysNext]_sysVars => DuartInv'
    <2> SUFFICES ASSUME DuartInv, [SysNext]_sysVars PROVE DuartInv'
      OBVIOUS
    <2>1. CASE Rise
      BY <2>1, DuartRise
    <2>2. CASE \E ext \in BOOLEAN : FallAny(ext)
      BY <2>2, DuartFall DEF FallAny
    <2>3. CASE Reset
      <3>1. /\ clk' = clk /\ waited' = 0 /\ cpu' = "idle"
            /\ duart'.waiting = FALSE /\ duart'.cnt = 0
        BY <2>3 DEF Reset, WaitInit
      <3>2. DuartType'
        BY <3>1 DEF DuartInv, DuartType
      <3>3. DuartPhase' /\ DuartWaitHeld'
        BY <3>1 DEF DuartPhase, DuartWaitHeld
      <3> QED  BY <3>2, <3>3 DEF DuartInv
    <2>4. CASE UNCHANGED sysVars
      <3>1. Select' = Select
        BY <2>4, SelectKept DEF sysVars, cpuVars, bootVars, AS
      <3> QED
        BY <2>4, <3>1 DEF sysVars, regs, cpuVars, history, DuartInv, DuartType,
                          DuartPhase, DuartWaitHeld
    <2> QED  BY <2>1, <2>2, <2>3, <2>4, StepCases
  <1>3. DuartInv => DuartWaitHeld
    BY DEF DuartInv
  <1> QED  BY <1>1, <1>2, <1>3, PTL DEF SysSpec
=============================================================================
