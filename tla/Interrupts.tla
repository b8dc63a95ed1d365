----------------------------- MODULE Interrupts -----------------------------
(***************************************************************************)
(* The interrupts of Mackerel-F from the devices to the handlers: timer.v, *)
(* the receiver of the 16550 (external), irq_encoder.v, the 68000's mask   *)
(* and stack (external), and the two programs that use them: irqtest.c,    *)
(* and the timed reads of sdread.c.                                        *)
(*                                                                         *)
(* Everything shares one clock, and an access to a register or an          *)
(* instruction takes one, or for the timer's registers up to two.  What    *)
(* happens when is left to the loops, which take a few turns more or less, *)
(* and to the line.  No program opens the gate of the NIC's request.       *)
(***************************************************************************)
EXTENDS TimerF, Sequences

CONSTANTS
    Enter, Other,    \* the bytes that are typed
    FifoSize,        \* of the receiver: 16
    RxSize,          \* g_rx: 64
    DelayTurns,      \* turns of a delay loop, and of a read
    Slack,           \* and how many more it may take
    GuardLimit,      \* 60000000
    MaxTyped         \* bound: bytes typed

ASSUME InterruptsAssumption ==
    /\ FifoSize \in Nat \ {0} /\ RxSize \in Nat \ {0}
    /\ DelayTurns \in Nat /\ Slack \in Nat /\ GuardLimit \in Nat /\ MaxTyped \in Nat

VARIABLES
    pc, level, frames,   \* the CPU: its mask, and what interrupts have stacked
    held,                \* a write to the timer has lasted a clock
    main,                \* the locals of main
    g_ticks, g_rx, g_rx_count, g_rx_done,
    b,                   \* of uart_isr
    rda, fifo, typed,    \* external: IER, the FIFO, how much has been typed
    arrived,             \* history: what the FIFO took since g_rx was emptied
    raised,              \* history: ticks raised since g_ticks was zeroed
    elapsed              \* history: clocks since the timer was switched on

uartVars == <<rda, fifo, typed, arrived>>
rxVars == <<g_rx, g_rx_count, g_rx_done, b>>
cpuVars == <<pc, level, frames, held>>
vars == <<timerVars, uartVars, rxVars, cpuVars, main, g_ticks, raised, elapsed>>

\* The levels of a program.
Masked == 7
TimerLevel == 6
UartLevel == 5
\* The mutant clears one bit too few of the mask.
OpenMutant == 6
Open == 0

Locals == [wait |-> 0, round |-> 0, prev |-> 0, seen |-> FALSE, climbing |-> TRUE,
           passed |-> FALSE, guard |-> 0]

Init ==
    /\ TimerInit /\ rda = FALSE /\ fifo = <<>> /\ typed = 0 /\ arrived = <<>>
    /\ pc \in {"irqtest", "sweep"} /\ level = Masked /\ frames = <<>> /\ held = FALSE
    /\ main = Locals /\ g_ticks = 0 /\ raised = 0 /\ elapsed = 0
    /\ g_rx = <<>> /\ g_rx_count = 0 /\ g_rx_done = FALSE /\ b = Other

-----------------------------------------------------------------------------
\* The request the encoder shows the CPU: the highest.
UartRequest == rda /\ fifo # <<>>
Ipl == IF pending THEN TimerLevel ELSE IF UartRequest THEN UartLevel ELSE 0

\* A clock of the timer, with its history.
Timer(w) ==
    /\ TimerClock(w)
    /\ raised' = IF pending /\ w.reg = "ctrl" /\ ~w.on THEN raised - 1
                 ELSE IF ~pending /\ pending' THEN raised + 1 ELSE raised
    /\ elapsed' = IF ~enable /\ enable' THEN 0 ELSE IF enable THEN elapsed + 1 ELSE elapsed

\* A clock of the receiver: a byte may come, and is lost when the FIFO is full.
Line(left, taken) ==
    \/ fifo' = left /\ arrived' = taken /\ UNCHANGED typed
    \/ /\ typed < MaxTyped /\ typed' = typed + 1
       /\ \E byte \in {Enter, Other} :
              IF Len(left) < FifoSize
              THEN fifo' = Append(left, byte) /\ arrived' = Append(taken, byte)
              ELSE fifo' = left /\ arrived' = taken

Typing == Line(fifo, arrived)

\* A clock in which no register of a device is written and no byte read.
Inside == Timer(NoWrite) /\ Typing /\ UNCHANGED rda

\* An instruction at p: the CPU looks at the request before each.
Runs(p) == pc = p /\ (held \/ Ipl <= level)
To(p) == pc' = p /\ UNCHANGED <<frames, held>>

-----------------------------------------------------------------------------
\* The request is above the mask: an autovector.
Interrupt ==
    /\ ~held /\ Ipl > level
    /\ frames' = Append(frames, [pc |-> pc, level |-> level])
    /\ level' = Ipl
    /\ pc' = IF Ipl = TimerLevel THEN "timer_isr" ELSE "uart_isr"
    /\ Inside /\ UNCHANGED <<held, main, g_ticks, rxVars>>

Rte ==
    /\ Runs("rte") /\ frames # <<>>
    /\ LET frame == frames[Len(frames)] IN pc' = frame.pc /\ level' = frame.level
    /\ frames' = SubSeq(frames, 1, Len(frames) - 1)
    /\ Inside /\ UNCHANGED <<held, main, g_ticks, rxVars>>

\* A register of the timer is written, in one clock or two.
WriteTimer(p, w, next) ==
    /\ Runs(p) /\ Timer(w) /\ Typing
    /\ \/ ~held /\ held' = TRUE /\ pc' = p
       \/ held' = FALSE /\ pc' = next
    /\ UNCHANGED <<rda, level, frames, main, g_ticks, rxVars>>

\* timer_isr.
Acknowledge == WriteTimer("timer_isr", Ack, "timer_count")
Count ==
    /\ Runs("timer_count") /\ g_ticks' = g_ticks + 1
    /\ To("rte") /\ Inside /\ UNCHANGED <<level, main, rxVars>>

\* uart_isr: until the FIFO is empty.
Poll ==
    /\ Runs("uart_isr") /\ To(IF fifo # <<>> THEN "uart_read" ELSE "rte")
    /\ Inside /\ UNCHANGED <<level, main, g_ticks, rxVars>>

ReadByte ==
    /\ Runs("uart_read") /\ b' = Head(fifo) /\ Line(Tail(fifo), arrived) /\ To("uart_store")
    /\ Timer(NoWrite)
    /\ UNCHANGED <<rda, level, main, g_ticks, g_rx, g_rx_count, g_rx_done>>

\* The mutant takes the number of bytes for the number of the last.
RoomMutant == g_rx_count <= RxSize
Room == g_rx_count < RxSize

StoreByte ==
    /\ Runs("uart_store")
    /\ g_rx' = IF Room THEN Append(g_rx, b) ELSE g_rx
    /\ g_rx_count' = g_rx_count + 1
    /\ g_rx_done' = (g_rx_done \/ b = Enter)
    /\ To("uart_isr") /\ Inside /\ UNCHANGED <<level, main, g_ticks, b>>

-----------------------------------------------------------------------------
\* set_interrupts.
SetInterrupts(p, mask, next) ==
    /\ Runs(p) /\ level' = mask /\ To(next)
    /\ Inside /\ UNCHANGED <<main, g_ticks, rxVars>>

\* The handlers, and g_ticks: with interrupts off.
ZeroTicks(p, next) ==
    /\ Runs(p) /\ g_ticks' = 0 /\ To(next)
    /\ TimerClock(NoWrite) /\ raised' = 0 /\ UNCHANGED elapsed
    /\ Typing /\ UNCHANGED <<rda, level, main, rxVars>>

\* A loop that takes its time, and what main notes when it is over.
Turns(p) ==
    /\ Runs(p) /\ main.wait < DelayTurns + Slack
    /\ main' = [main EXCEPT !.wait = @ + 1] /\ To(p)
    /\ Inside /\ UNCHANGED <<level, g_ticks, rxVars>>

Note(p, noted, next) ==
    /\ Runs(p) /\ main' = [noted EXCEPT !.wait = 0] /\ To(next)
    /\ Inside /\ UNCHANGED <<level, g_ticks, rxVars>>

Over(p, noted, next) == main.wait >= DelayTurns /\ Note(p, noted, next)

SwitchIer(p, on, next) ==
    /\ Runs(p) /\ rda' = on /\ To(next)
    /\ Timer(NoWrite) /\ Typing /\ UNCHANGED <<level, main, g_ticks, rxVars>>

-----------------------------------------------------------------------------
\* irqtest.c, the timer: masked, counting, and switched off.
Sleeping ==
    [main EXCEPT !.round = @ + 1, !.climbing = @ /\ g_ticks > main.prev, !.prev = g_ticks]
TimerTest ==
    \/ SetInterrupts("irqtest", Masked, "zero_1") \/ ZeroTicks("zero_1", "on_1")
    \/ WriteTimer("on_1", Ctrl(TRUE), "masked")
    \/ Turns("masked")
    \/ Over("masked", [main EXCEPT !.seen = pending], "unmask_1")
    \/ SetInterrupts("unmask_1", Open, "first")
    \/ Note("first", [main EXCEPT !.prev = g_ticks], "sleep")
    \/ Turns("sleep")
    \/ Over("sleep", Sleeping, IF main.round < 2 THEN "sleep" ELSE "mask_1")
    \/ SetInterrupts("mask_1", Masked, "off_1")
    \/ WriteTimer("off_1", Ctrl(FALSE), "freeze")
    \/ Note("freeze", [main EXCEPT !.prev = g_ticks], "frozen")
    \/ Turns("frozen")
    \/ Over("frozen", [main EXCEPT !.passed =
                main.seen /\ main.climbing /\ g_ticks = main.prev /\ g_ticks > 0], "flush")

\* The receiver, with the timer running: stale bytes first.
Flush ==
    /\ Runs("flush") /\ fifo # <<>> /\ Line(Tail(fifo), arrived) /\ To("flush")
    /\ Timer(NoWrite) /\ UNCHANGED <<rda, level, main, g_ticks, rxVars>>

Flushed ==
    /\ Runs("flush") /\ fifo = <<>> /\ To("on_2")
    /\ g_rx' = <<>> /\ g_rx_count' = 0 /\ g_rx_done' = FALSE /\ g_ticks' = 0
    /\ TimerClock(NoWrite) /\ raised' = 0 /\ Line(<<>>, <<>>)
    /\ UNCHANGED <<elapsed, rda, level, main, b>>

Guard ==
    /\ Runs("loop") /\ ~g_rx_done /\ main.guard < GuardLimit
    /\ main' = [main EXCEPT !.guard = @ + 1] /\ To("loop")
    /\ Inside /\ UNCHANGED <<level, g_ticks, rxVars>>

GuardOver ==
    /\ Runs("loop") /\ (g_rx_done \/ main.guard = GuardLimit)
    /\ To("ier_off") /\ Inside /\ UNCHANGED <<level, main, g_ticks, rxVars>>

Report ==
    /\ Runs("report")
    /\ main' = [main EXCEPT !.passed =
                   @ /\ g_rx_done /\ g_rx_count > 0 /\ g_ticks > 0]
    /\ To("done") /\ Inside /\ UNCHANGED <<level, g_ticks, rxVars>>

UartTest ==
    \/ Flush \/ Flushed
    \/ WriteTimer("on_2", Ctrl(TRUE), "ier_on") \/ SwitchIer("ier_on", TRUE, "unmask_2")
    \/ SetInterrupts("unmask_2", Open, "loop") \/ Guard \/ GuardOver
    \/ SwitchIer("ier_off", FALSE, "off_2") \/ WriteTimer("off_2", Ctrl(FALSE), "mask_2")
    \/ SetInterrupts("mask_2", Masked, "report") \/ Report

\* sdread.c: a read is timed by the ticks that fall into it.
Sweep ==
    \/ SetInterrupts("sweep", Masked, "zero_s") \/ ZeroTicks("zero_s", "on_s")
    \/ WriteTimer("on_s", Ctrl(TRUE), "unmask_s")
    \/ SetInterrupts("unmask_s", Open, "read")
    \/ Turns("read") \/ Over("read", main, "mask_s")
    \/ SetInterrupts("mask_s", Masked, "off_s")
    \/ WriteTimer("off_s", Ctrl(FALSE), "ms")
    \/ Note("ms", [main EXCEPT !.round = @ + 1], IF main.round < 2 THEN "sweep" ELSE "swept")

Handlers == Acknowledge \/ Count \/ Poll \/ ReadByte \/ StoreByte \/ Rte
Next == Interrupt \/ Handlers \/ TimerTest \/ UartTest \/ Sweep

Spec == Init /\ [][Next]_vars

-----------------------------------------------------------------------------
\* Every tick the timer has raised is counted once, neither lost nor doubled,
\* whatever it meets: a mask, the handler of the receiver, its own
\* acknowledge (timer.v:119-121) or the write that withdraws it.
InIsr == (pc = "timer_isr" /\ held) \/ pc = "timer_count"
TicksCounted ==
    raised = g_ticks + (IF pending THEN 1 ELSE 0) + (IF InIsr THEN 1 ELSE 0)

\* The bytes that the FIFO took since g_rx was emptied are stored in their
\* order, none twice and none left out, and the first of them in g_rx, while
\* the timer interrupts the handler that stores them.
Min2(m, n) == IF m < n THEN m ELSE n
Taken == g_rx_count + (IF "uart_store" \in {pc} \cup {frames[i].pc : i \in DOMAIN frames}
                       THEN 1 ELSE 0)
Listening == rda \/ pc \in {"off_2", "mask_2", "report"}
BytesInOrder ==
    Listening =>
        /\ g_rx = SubSeq(arrived, 1, Min2(g_rx_count, RxSize))
        /\ fifo = SubSeq(arrived, Taken + 1, Len(arrived))
        /\ Taken = g_rx_count + 1 => b = arrived[Taken]

\* The verdict of irqtest (irqtest.c:128-131) is about the interrupts: on this
\* machine the timer passes, and the receiver fails only where no Enter came
\* before the guard ran out, or where it came before the first tick.
HonestVerdict ==
    /\ pc \in {"flush", "on_2"} => main.passed
    /\ pc = "done" => main.passed \/ main.guard = GuardLimit \/ g_ticks = 0

\* What sdread prints as the time of a read (g_ticks * 10, sdread.c:147) is
\* never longer than the timer ran, and short of it by no more than a tick and
\* the clocks in which the program masks and disables it.
Period == Reload[3] + 1
SwitchingOff == 2
TimeMeasured ==
    pc = "ms" => /\ g_ticks * Period <= elapsed
                 /\ elapsed < (g_ticks + 1) * Period + SwitchingOff
=============================================================================
