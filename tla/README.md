# A TLA+ model of the Mackerel 68k computers

This directory models the parts of the repository whose correctness depends on
order and timing: the bus and memory logic of the boards (Verilog under
`src/pld`) and the bootloader's protocols (C under `src/firmware`). TLC checks
the models on small instances; TLAPS proves the main results for all values of
the constants. `PROJECT.json` lists the runs, the source lines behind each
definition, the hazards and the theorems.

## 1. The system

Mackerel is a family of four computers that share one firmware source. Three
boards are built from CPUs, memory chips and programmable logic; Mackerel-F is
a whole system in an FPGA. What can go wrong in the logic are clocks: each
part is a state machine that advances at every edge, side by side with the CPU
and the memory. What can go wrong in the firmware is the outside: serial
lines, disks and network peers.

### 1.1 Components

| Component | Source | State | Operations, partners | Hard behaviour | What makes it correct |
|---|---|---|---|---|---|
| 68000 bus of Mackerel-F | `pld/mackerel-f/mackerel_f.v`, fx68k (external) | address, strobes, data | starts and ends cycles; decode picks one slave; DTACK, VPA or BERR ends it | TAS keeps AS low over two transfers | every cycle ends; BERR only where nothing answers |
| SDRAM cache | `pld/mackerel-f/sdram_cache.v` | tags, lines, request latch, FSM | answers the bus, asks the adapter | registered lookup, fill, write-through with invalidation | never answers with old data; writes go through |
| SDRAM adapter | `pld/mackerel-f/sdram_controller.v`, SDRAM core (external) | FSM, command port, refresh timer | serves the cache, commands the core byte by byte | busy one clock late, refresh competing with accesses | both bytes of a word written; no refresh lost |
| Bus watchdog | `pld/mackerel-f/bus_watchdog.v` | counter, BERR | watches AS, DTACK, VPA | counting through legitimate waits | fires for dead cycles only |
| Boot signal | `boot_signal.v` on three boards | cycle counter, BOOT | clocked by AS; switches the memory map | reset seen only at an edge | the vectors come from ROM |
| Mackerel-30 system controller | `pld/mackerel-30/system_controller` | wait generators, timer, interrupt latches | decode, DSACK, IPL; acknowledged by the CPU | events colliding with acknowledges and register writes | no event lost, wait states kept, cycles end |
| Mackerel-30 DRAM controller | `pld/mackerel-30/dram_controller` | FSM, refresh generator, synchronisers | strobes two banks of chips, DSACK to the CPU | two clock domains, late withdrawal of DSACK, refresh | writes land in their lanes, reads see the memory, no contention |
| Mackerel-10 DRAM and system controllers | `pld/mackerel-10` | as above, simpler | as above | raw AS in RW5, no wait after precharge | as above |
| Mackerel-F interrupt controller, timer | `mackerel_f.v`, `timer.v`, `irq_encoder.v` | pending, enable, divider | registers, IPL, handlers in `irqtest.c` and `sdread.c` | acknowledge, rollover and CTRL at one clock; a handler inside a handler | every tick raised is counted once |
| Register bridges | `uart.v`, `spi.v` (F and 10) | IDLE/REQ/DONE | 68000 bus to Wishbone core | a strobe of the upper lane only, a core that takes its time | one core access per bus access; an answer before the watchdog |
| WS2812 driver | `ws2812.v` | bit FSM | register write starts a frame | write during a frame | whole frames only |
| YMODEM receiver | `firmware/ymodem.c` | expected block, header and trailer flags, idle count, buffer | `ymodem` command; sender over the UART | lost, damaged, repeated blocks and answers; timeouts | stored data is the file; success means all of it |
| FAT16 reader, boot command | `firmware/fat16.c`, `bootloader.c`, `sdread.c` | partition, cached FAT sector (both static), read position | `boot`, autoboot, sdread; block read of SD or IDE | failed reads, damaged chains, state kept between commands | only the complete file is started |
| SD and IDE drivers | `sd.c`, `sd_spi.c`, `spi*.c`, `ide.c` | card type (static), chip select; drive registers | bring-up, block reads; called through `block_read` | commands, tokens and DRQ that are not answered, answers left in the card | a success has transferred the blocks asked for; the card is released |
| Memory and GPIO commands | `bootloader.c` | RAM, data cache, GPIO register | `peek`, `poke`, `zero`, `mem8/16/32`, `cache`, `cinv`, `dtest`, `gpio` | a cache between test and memory, unrolled loops, a register shared with the chip select | a test's verdict is about the memory |
| Interrupt test | `irqtest.c`, `mackerel.c` | `g_ticks`, `g_rx`, mask | handlers and `main` share globals | nesting, masks, delays | its verdict is about the interrupts |
| W5500 driver, netboot | `w5500.c`, `netboot.c` | socket, read pointer | TCP receive, image load | size read in two bytes, close racing data, no timeout | the image is the stream |
| Mackerel-08 glue | `pld/mackerel-08/*.pld` | none | combinational decode | - | - |
| Command line, console, startup | `bootloader.c`, `console.c`, `start.c`, ... | line buffer | formatting, register access | - | - |

How they meet: the CPU's bus is shared by all slaves (each watches AS and its
chip select); cache and adapter talk through a request line and an acknowledge
that both must take down; controller and memory share the command port;
interrupts travel as levels, acknowledges as bus cycles in CPU space; firmware
calls its drivers through a function pointer (`fat16_init`) and returns to one
prompt.

### 1.2 Not modelled, and why

- Mackerel-08's GALs hold no state. `pll.v` is generated; fx68k, the SDRAM
  core, `uart_top` and the SPI core are third-party and not in the repository:
  where a model needs them they are external definitions written from how the
  code uses them. Board files, releases and host tools are not programs with a
  protocol of their own.
- The line editor and parser of the prompt, console, terminal and number
  formatting, `dump`, `info`, `help` and `rgb`, startup code and `syscalls.c`
  are linear register access. `readline` does not bound its buffer, and a
  missing argument is `strtoul(NULL)`, whose result the C library decides.
- `ch376s.c`, `uarttest.c` and most test programs: single sequences of register
  accesses with printed results. `sd_read` of `sd.c` is used by `sdtest.c` only.
- The Mackerel-10 DRAM and system controllers are the simpler predecessors of
  the Mackerel-30 ones; what differs is listed as a hazard. The
  WS2812 driver is a short sequencer in front of parts the repository does not
  hold. Of the register bridges `RegisterBridge` has the state machine, on
  which the end of a bus cycle depends, and not the bytes; a TAS, which no
  program makes to a register, is made to the SDRAM only.

## 2. Modules

| Module | Extends | Models |
|---|---|---|
| `M68kBus` | | the 68000 cycle as the slaves see it: read, write with late data strobes, TAS |
| `SdramCache` | `M68kBus` | `sdram_cache.v`, one action per branch |
| `SdramController` | `M68kBus` | `sdram_controller.v` and the core behind its command port |
| `BusMemory` | | what the memory path promises: a word memory with byte writes |
| `MemPath` | both | bus, cache, adapter and core in lockstep; refinement of `BusMemory` |
| `BusWatchdog`, `BootSignal` | | the two small machines, with parameters |
| `RegisterBridge` | | the state machine of `uart.v` and `spi.v` between the bus and their cores |
| `MackerelF` | `MemPath`, `BusWatchdog`, `BootSignal`, `RegisterBridge` | the bus of the SoC with all ways to end a cycle |
| `SysCtl30` | `BootSignal` | the system controller of the 68030 board |
| `Dram30` | | its DRAM controller, the CPU's clock domain and the chips |
| `Ymodem` | | the receiver, a sender, and the line between them |
| `BlockDevice` | | what the disk drivers share: the call through `read_sector`, the pins |
| `SdSpi`, `SdBitbang`, `Ide` | `BlockDevice` (`SdBitbang`: `SdSpi`) | the drivers of Mackerel-F, of Mackerel-08, and of Mackerel-10 and 30, with the card and the drive |
| `Volume` | | external: a disk, and what its blocks hold |
| `Fat16` | the drivers, `Volume` | `fat16.c`: boot sector, directory, chain, FAT cache |
| `MemoryCommands` | | the memory commands, a memory with faults, the data cache of the 68030 |
| `Bootloader` | `Fat16`, `MemoryCommands` | prompt, `boot`, automatic boot, `gpio`, `run`; `sdread.c` |
| `TimerF` | | `timer.v` |
| `Interrupts` | `TimerF` | timer, UART, encoder, CPU mask and stack; `irqtest.c`; the timed reads of `sdread.c` |
| `Netboot` | | netboot command, W5500 socket driver, the chip's receive memory, the server |
| `MC*` | each its module | sets and initial contents for TLC |
| `MemPathProof`, `MackerelFProof`, `SysCtl30Proof`, `Dram30Proof`, `InterruptsProof`, `YmodemProof`, `NetbootProof`, `BootloaderProof` | each its module | theorems |

How state and actions correspond to the code:

- In the logic modules a step is one clock edge and every register gets its
  next value from the values before the edge, as nonblocking assignments do. One action per
  state and branch of a `case`; the later of two assignments to a register
  wins, as in the source. Signals that are active low in the source are TRUE
  when asserted.
- Asynchronous inputs (an interrupt line, another clock domain) are chosen
  with `\E` at the edge that samples them.
- A register nobody samples in a state is set to `None` there, to keep the
  state space small; the one-clock pulses `ctrl_rd`, `ctrl_wr`, `ctrl_refresh`
  are one command value; valid bit, tag and data of a cache line are one
  function value or `None`.
- The external CPU is as free as its data sheet: it starts any cycle at any
  clock, delays its data strobes, stretches its cycles. In `SysCtl30` and
  `Dram30` it moves at its own clock edges, and samples DSACK there.
- In `Ymodem` a step is one way through the receiver's loop; one item of the
  line is one block, or one byte outside a block. Data is counted in half
  blocks so that the last block of a file may be padded.
- In the modules of the boot path a step ends where the program looks at
  something that may fail: an answer of the card, a status of the drive, the
  result of a call. The call of a driver is one record (`io`): who calls fills
  it in, the driver of the board ends it, and `got` lists the blocks that have
  gone into the buffer even when it fails. A block is known by its number;
  data is counted in half sectors, so that the last cluster and the last
  sector may be partly used. `fat16.c`'s two buffers on the stack keep what was
  in them when their read fails, swapped once more.
- In `Interrupts` a step is one clock, in which the CPU makes an instruction
  or an access of a bus cycle; a write to the timer lasts one clock or two. A
  delay loop takes `DelayTurns` turns and up to `Slack` more. An interrupt is
  taken before an instruction.
- In `Netboot` a step of the driver is one SPI frame, and the frame that reads
  the received size is two steps, because the chip may receive between its
  bytes. The value is the first byte's high part with the second byte's low
  part (`Torn`). A byte of the stream is named by its connection and its
  position, so that a stale byte of the receive memory is never mistaken for a
  new one.
- Definitions whose name ends in `Mutant` (and `...Silent`, `...Stuck`,
  `...Short`, `...Late`) are plausible bugs of the definition below them. They
  are used by no specification; each breaks the property it is listed for in
  `PROJECT.json`, which shows that the property says something of the code.

## 3. Runs

Constants not named here are model values.

| Run | States | Shows |
|---|---|---|
| `mem_path` | 167,359 | Without TAS: `Coherent` (a valid line equals the SDRAM at every clock), `ReadsSeeMemory`, `WritesLand` (a finished write is in the SDRAM), `ImplementsMemory` (refinement of `BusMemory`), `TypeOK` |
| `mem_path_tas` | violation | With TAS `WritesLand` fails, see section 6 |
| `mackerel_f` | 59,731 | `NoFalseBusError` (only a cycle that no slave is there to answer ends in a bus error), `NoRefreshLost`, `EveryCycleAnswered`, with TAS |
| `sysctl30` | 75,406 | `NoEventLost` (edges of the NIC and ticks of the timer against acknowledges), `QuietWhenDisabled`, `DuartWaitHeld`, `SpacedIdeWaitHeld`, `CycleEnds` |
| `sysctl30_ide` | violation | `IdeWaitHeld` fails |
| `sysctl30_reset` | violation | `VectorsFromRom` fails |
| `dram30` | 907,734 | `MemoryCorrect` (byte for byte), `ReadSeesMemory`, `NoContention`, `NoRefreshLost`, `Ends`, with a reset in any state |
| `ymodem` | 48,030 | `StoredIsPrefix`, `AckedIsStored`, `CompleteIfOk`, `Ends`, `TypeOK` |
| `bootloader` | 1,193,471 | Disk: `ReadHonest` (a read that succeeds is the blocks asked for), `HitIsCurrent`, `StartedIsFile`, `CardReleased` (no command leaves the card selected), `CommandEnds`. Memory: `Verdict` (a test finds the faults it is made for and no others), `CacheCurrent`, `ZeroExact`. `TypeOK` |
| `bootloader_ide` | violation | `HitIsCurrent` fails if a drive reports an error after the data |
| `netboot` | 47,391 | `ReceivedIsStream`, `ShortOnlyIfCut`, `LoadEnds`, `TypeOK` |
| `interrupts` | 578,764 | `TicksCounted`, `BytesInOrder`, `HonestVerdict` (of `irqtest`), `TimeMeasured` (by `sdread`) |

### 3.1 Bounds, and why they are enough

- `mem_path`: two lines that share a cache index and differ in tag and word,
  two byte values, both lanes, SDRAM latency 0, `REFRESH_INT` 7, so that a refresh
  falls due in every phase of an access. Lines with different indexes do not
  interact. The theorems remove these bounds.
- `mackerel_f`: one byte value (the question is timing), latency 0 or 1,
  `REFRESH_INT` 14 and `TIMEOUT` 24 for 340 and 4096 in the code. The margins
  were found by lowering them: with latency 1 `NoRefreshLost` holds from 11
  and fails at 10, `NoFalseBusError` holds from 19 and fails at 18. The core
  behind a bridge acknowledges after `MaxAck` 1 clocks at most beyond the first
  (the two cores are external); with a `TIMEOUT` of 24 the property holds up to
  a `MaxAck` of 20 and fails at 21, which is the bound of the theorem. The
  theorems of `MackerelFProof` say which bounds are enough for every latency. `MaxSetup`
  bounds the clocks between address and data strobe of a write, which are
  fixed in fx68k: without it the watchdog may fire first.
- `sysctl30`: `IDE_WAIT` 3 (14), `TIMER_DIVIDER` 5 (240,000),
  `BOOT_CYCLE_MAX` 2 (8), one reset, all address spaces. The divider is
  shorter than an acknowledge cycle can be, so rollovers meet every phase of
  one.
- `dram30`: two or three controller clocks to a clock of the CPU, freely
  varying, which covers every phase between the oscillators; a write may hold
  its data strobe back `MaxSlow` 5 CPU clocks; two long words in different
  sides, rows and columns, and an access to the middle of a long word.
  `REFRESH_CYCLE_CNT` is 40 (781). A cycle holds a refresh back, and
  `NoRefreshLost` is a statement about how long it can: it fails at 25 with
  slow writes, at 18 without. One reset, in any state. The other fifteen lane
  patterns are proved.
- `ymodem`: a file of nine half blocks (five blocks, the last one padded),
  buffers smaller and larger than it, block numbers modulo 4 so that they
  wrap within the file, three failures of the line, four
  retries and replies. `MAX_IDLE` is 4 (10).
- `bootloader`: all four boards, three cards (SDHC, an old card, a small card
  that knows CMD8), six disks: last cluster full, last cluster partial, a chain
  too short that ends in 0xFFFF, one that ends in 0xFFF8, one that leads in a
  circle, a partition that is not at block 2048. Complete files end in 0xFFFF,
  in 0xFFF8 and in 0. Two
  entries to a FAT sector and four half sectors to a cluster, so that the
  chains go back and forth between FAT sectors. Two `boot` commands after an
  automatic boot, each answer of the card or drive coming or not; retry limits
  are 2 (10, 1000, 5), because the third try meets nothing the second does not.
  A session has commands of the disk or of the memory: they share the prompt
  and no state. Memory: four cells of two data lines with any single stuck
  line, joined lines or aliased address; three commands; tests on all cells, on
  two, on none; `zero` of 0, 3, 29 and 39 bytes, which pass all three loops;
  `dtest` with two random reads (1024).
- `interrupts`: a tick every eleven clocks (756,000), longer than both
  handlers together as in the machine, and delays of two or three of them;
  a FIFO and a buffer of two bytes (16, 64) and three typed, so that both
  overflow; the guard runs out within two ticks. All nestings of the handlers,
  an overrun of the FIFO, and both verdicts occur.
- `netboot`: a byte has three values and a pointer nine, the length has two
  bytes, the receive memory three (256, 65536, 4 and 2048). A full memory
  needs the high byte of the size, so it is torn both ways; the pointers wrap
  within one image of eight bytes. Images of 0, 3 and 8 bytes, two commands,
  two polls of a connection that does not come.

### 3.2 Fairness

Clocks do not stop: weak fairness of the clock step in `MackerelF`, `SysCtl30`
(`Rise` and `Fall`) and `Dram30`. `SysCtl30` also assumes strong fairness of a
falling edge at which the DRAM controller or FPU answers while a cycle is open;
that the DRAM controller does is `Ends` of `Dram30`. The external SDRAM core is
busy for at most `MaxLatency` clocks, which is part of the model and not an
assumption. In `Ymodem` the receiver runs (its polling loops are bounded by
`YM_POLLS_PER_MS`) and the sender reads its answers or times out; the line is
not fair. In `Bootloader` the program runs (`Program`): every loop of the
drivers counts, so an answer that never comes is a step too; the operator need
not type, and a started program need not come back. In `Netboot` the driver runs
and the server goes on until it closes, or the connection is reset: TCP and the
server script do that. A peer that stays silent with the connection open is
excluded, and would hold the command for ever.

`CHECK_DEADLOCK FALSE` stands in `MCYmodem.cfg` (a finished transfer stops),
in the two of `Bootloader` and in `MCNetboot.cfg` (a started program has left the
bootloader; the number of commands is bounded) and in `MCInterrupts.cfg` (the
programs end).

## 4. Proofs

`MemPathProof` proves for every set of tags, indexes and byte values, every
`REFRESH_INT` and latency, **with TAS included**, that `Spec` implies
`[]TypeOK` (`TypeCorrect`), `[]Coherent` (`CacheCoherence`) and
`[]ReadsSeeMemory` (`ReadCorrectness`).

None of the last two is inductive. The invariant is

    IInv == TypeOK /\ CpuInv /\ CacheInv /\ AdapterInv /\ Coherent /\ ReadsSeeMemory

- `CpuInv`: what holds of the bus in each phase of a cycle.
- `CacheInv`: in each state of the cache, what its latch has to do with the
  bus and with the lookup. `Coherent` needs it: the line a fill stores is that
  of the latched address, which is the address on the bus.
- `AdapterInv`: in each state of the adapter, which command is on the port
  or in the core, for which byte, and that data on its way to the cache is
  that of the memory. Without it a step of `S_RD` could deliver anything.

There is one lemma per machine and conjunct (`CacheInvStep`, `AdapterInvStep`,
`CoherentStep`, ...), each with one step per action; `StepInv` joins them.

Its second part adds `RefInv` (what is still to be written, in each state of
a write) and proves under `~RMW`, that is for a CPU that does not execute TAS
on the SDRAM, that `Spec` implies `ImplementsMemory` (`MemoryRefinement`) and
`WritesLand` (`NoWriteLost`). The mapping takes `todo` from how far cache and
adapter have come; lemmas `RefinesIdle`, `RefinesRead`, `RefinesWrite` and
`RefinesAck` map each step to a step of `BusMemory` or to a stutter. The
assumption is needed: `mem_path_tas` shows the counterexample without it.

`MackerelFProof` proves the two safety properties of the whole Mackerel-F that
are about time, for every latency, interval, watchdog and delay of the data
strobes within a bound that is a hypothesis.

- `NoRefreshLost` (`RefreshServed`) holds where an interval has room for the
  longest access (`RoomToRefresh`: `2 * MaxLatency + 9 <= REFRESH_INT`). That is
  sharp for the latency of the run: TLC finds the property violated one below.
  With the 340 of the code it allows a latency of 165 clocks. `ReleaseLeft`
  counts the clocks until the adapter is back in `S_IDLE`, less by one at every
  clock while a request waits (`ReleaseCounts`), and `RefreshInv` says that the
  counter has room for them. None of this looks at the bus: no CPU and no
  watchdog can lose a refresh.
- `NoFalseBusError` (`NoFalseErrors`) also needs a watchdog that leaves
  room for two refreshes, both bytes of a write and the delay of its strobes
  (`RoomToAnswer`: `MaxSetup + 4 * MaxLatency + 18 <= TIMEOUT`, four clocks more
  than TLC needs in the run; the code has 4096). It is an induction together
  with the invariant `IInv` of the memory path: the path keeps to `IInv` as long
  as no BERR ends its cycles (`SocIsTick`), and no BERR does as long as the
  cache and the adapter are where `IInv` has them. `TurnLeft` counts the clocks
  until the adapter takes the access, with a refresh under way and one that
  falls due meanwhile; a second one never does, since an interval is longer.
  For a bridge it needs that the core's answer comes in time (`RoomToAnswer`
  again: `MaxSetup + MaxAck + 3 <= TIMEOUT`); `BridgeLeft` counts the clocks to
  it, and `BridgeInv` says that a bridge strobes its core for the cycle on the
  bus only.
- `PathIsUndisturbed`: from the same hypotheses `SocSpec` implies `Spec`, so that
  the theorems of `MemPathProof` hold in the whole machine.

`MaxLatency` bounds the initialisation of the core as well. That of the board
takes longer than a command, but is over long before the CPU leaves its reset,
which lasts 2^23 clocks from the PLL lock that starts it (`mackerel_f.v:49,341`).

`Dram30Proof` proves that the lane table of the DRAM controller equals its
definition by byte offsets, for all sixteen combinations
(`LaneTableCorrect`), and for every address, refresh interval and ratio of the
clocks `MemoryCorrect` (`MemoryHolds`), `ReadSeesMemory` (`ReadsSeeMemory`) and
`NoContention` (`ChipsLeaveBus`). The invariant says in each state of the
machine what the strobes, the column and the bus are; that the synchronised
strobe is the sampled one, which lags the CPU by a clock; that `RW5` outlasts
the CPU's cycle, so that no cycle finds the `DSACK` of the one before; and what
of a write is in the chips once their column strobe has fallen (`Written`).
The assumption `DramAssumption` is `2 <= CLK_MIN`: the controller has at least
two clocks to one of the CPU, as on the board. With one, TLC finds
`NoContention` violated.

`NoRefreshLost` (`RefreshKept`) holds where an interval has room for the longest
cycle: `((MaxSlow + 3) * CLK_MAX) + 16 <= REFRESH_CYCLE_CNT`. On the board the
interval is 781, so that with three clocks to one of the CPU a write may hold
its data strobe back for 252 CPU clocks; the run's 40 meets the bound exactly.
`RefreshInv` counts, for each state of the machine and of the CPU's cycle, the
clocks until a wanted refresh is made and done with (`Left`), which every clock
lowers; what is left is never more than what the interval has left. The longest
is that of a write that has just begun. A reset in the middle of a refresh is the
exception that the property makes.

`SysCtl30Proof` proves the safety properties of the Mackerel-30 system
controller for every divider, wait, boot length and number of resets.

- `NoEventLost` (`EventsKept`) is inductive as it stands.
- `QuietWhenDisabled` (`TimerQuiet`) is not: a rollover may set the request at
  the edge at which the program's write clears it. `TimerInv` says what the write
  has achieved in each clock: its first edge leaves the timer off
  (`Disabling`), its second the request withdrawn (`Cleared`), and the CPU does
  not let go between the two, because the timer answers at the second sample.
- `SpacedIdeWaitHeld` (`IdeWaitsHeld`) needs `IdeInv`: between IDE cycles a
  generator still running has counted at least as far as the pause is long
  (`Running`), so that after a long enough pause it is idle; in a cycle that
  met it idle, the CPU has waited as long as it counts (`InStep`).
- `DuartWaitHeld` (`DuartWaitsHeld`) assumes `DUART_WAIT = 0`, the code's value.
  The generator then changes at every edge of an access, and `DuartPhase` says
  in which clock it is where.

`NetbootProof` proves `TypeOK` (`TypeCorrect`), `ReceivedIsStream`
(`StreamReceived`) and `ShortOnlyIfCut` (`ShortIsCut`) of the netboot command
for every size of the receive memory that divides the range of the pointers,
every width of a byte and of the length, and any number of commands.
`ReceivedIsStream` speaks of what the driver has read, and is not inductive:
what it reads next is in the memory of the chip. The invariant adds

- `WindowInv`: with a connection, the bytes from what has been given back to
  what has been sent stand in their places of the receive memory, and `wr`,
  `taken` and `rd` are these counts modulo the range of the pointers;
- `LocalInv`: the first byte of the size is no larger than the window
  (`seen`), nor is the size the driver has read (`rsr`). This is where the
  order of the two bytes matters (lemma `TornIs`).

`ShortOnlyIfCut` rests on that and on `EndInv`, what a load knows when it ends:
the size is read only while something is missing; it is read again only when
the server has ended the connection, after which both bytes are of one count
(`TornSame`), so that a size of 0 says that all that was sent has been read;
and as that is less than the whole image, the server has cut it off. That the
driver knows the length is `DecodeIs`: the bytes of a number determine it
(`DigitsTell`). This is an induction over the width of the length, which
`InductionOn` makes one over a set, from the least element that a set of
numbers has. The provers have no axioms for `^`; `PowerAssumption` says what a
power is, and TLC evaluates it. The first section of the module proves the
facts on remainders it needs from the division theorem.

`InterruptsProof` proves `TicksCounted` (`TicksAreCounted`): for every reload
value, size of FIFO and buffer, length of delay and guard, the ticks raised
since `g_ticks` was zeroed are those counted, the pending one, and the one
whose handler has acknowledged and not yet counted. The equation is not
inductive. `Typed` is the type of what it speaks of; `HandlerAlone` says that
the handler of the timer is at the top, with a mask that lets nothing
interrupt it, whenever it is at work, and that no stacked frame is inside it;
`MainMasks` says where `main` runs masked, so that it zeroes `g_ticks` and
withdraws the timer while no handler is at work. Without the last a zeroing
between acknowledge and count would leave `g_ticks` one too large. There is a
lemma for each operator that the programs are written with (`TurnsStep`,
`CtrlStep`, ...), one for each step of a handler, and one per program that
joins them.

It also proves `BytesInOrder` (`BytesAreInOrder`), for every size of the FIFO
and of `g_rx`. `Stack` bounds the nesting: `main` at the bottom, the UART's
handler above it, the timer's at the top, since the mask of each keeps the
others out. `InOrder` then ties what is stored, the byte the UART's handler
holds and the FIFO into one increasing sequence, in each step of that handler
and under each interruption of it.

The other two are about how long things take, and each has the bound it needs
as a hypothesis. `HonestVerdict` (`VerdictIsHonest`) assumes
`Reload[3] < DelayTurns`, that a delay loop outlasts a tick (on the board two
million turns, or 500 ms, against 756,000 clocks, or 10 ms): while `main` loops,
the timer has rolled over or has counted as far as the loop (`HonestAt`), so
that each loop ends with a tick that the one before had not.
`TimeMeasured` (`TimesAreMeasured`) assumes `4 <= Reload[3]`, that a tick is not
shorter than its handler: the clocks since the timer was switched on are the
ticks raised times the period, and what it has counted since (`Counting`), which
is to say that no rollover falls into an acknowledge or meets a pending tick;
`InTime` says how far the timer may have counted at each step of the handler.
Both bounds are sharp: with `Reload[3] = DelayTurns`, and with `Reload[3] = 3`,
TLC finds the property violated.

`YmodemProof` proves the four safety properties of the YMODEM receiver for every
file, buffer, range of block numbers and number of failures. The line is half
duplex: the invariant says whose turn it is, and that an item on the way is the
only one but for the two CANs of a sender that gives up. `InSync` compares the
receiver's block number with the sender's: the block on the way is the expected
one or the one before it, which is why a byte is enough to tell them apart.
`WholeFile` says what an EOT means. Damage that turns an item into an EOT
(`stray`) is the exception in `AckedIsStored` and `CompleteIfOk`, because the
protocol cannot see it.

`BootloaderProof` proves all safety properties of the run `bootloader` for
every set of disks that `Volume` describes, every card, retry limit, memory,
pattern and fault. It has three parts, each with its own invariant.

- `MemInv`, for the memory commands: a test of a sound memory has written what
  it will read back (`SoundMemory`), and a fault is no longer `Unnoticed` once
  the cell that shows it has been compared. `CacheOff` is where the exception
  of `Verdict` comes from: the data cache of the 68030 answers no read of a
  test that runs without it. Gives `Verdict` (`TestsTell`), `CacheCurrent`
  (`CacheStaysCurrent`) and `ZeroExact` (`ZeroIsExact`).
- `DiskInv`, for calls and static data. `DriverInv` says of a call, for all
  three drivers, how much of it has been read (`Calling`), where the card is
  in its stream (`Place`) and that what has been read is what was asked for
  (`Honest`); `Waiting` and `Asked` which call each step of the program waits
  for; `Counting` that the driver counts as the card does, once it has been
  brought up; `Cached` that the FAT sector named is the one held; `Selected`
  where the chip select may be low. The block numbers of IDE have 24 bits,
  and the byte addresses of an old SD card 32: the proof that no sum of
  `fat16.c` leaves them (`Reach`, lemma `SumsTyped`) is the reason for the field
  widths in `Geometry` and for the place of the partition in `Disk`. Gives `TypeOK` (`TypeCorrect`),
  `ReadHonest` (`ReadsAreHonest`), `HitIsCurrent` (`HitsAreCurrent`) and
  `CardReleased` (`CardIsReleased`).
- `FileInv`, for `fat16_read_file`: `Loop` says in each state which cluster of
  the chain is current, how many half sectors are in the buffer and which
  blocks are being read, and that each half sector in the buffer is that of
  its place in the file (`Half`). Two lemmas carry it: `TakeRight`, that the
  blocks read from sector `s` of cluster `i` continue the file, and
  `NextInChain`, that the FAT leads from cluster `i` to cluster `i + 1`.
  `PartFound` says that a boot sector with a FAT came from the partition.
  Gives `StartedIsFile` (`StartedIsTheFile`).

`HitsAreCurrent` and `StartedIsTheFile` assume `~LateErrors`, that no drive
reports an error after it has sent the data: `bootloader_ide` shows that the
first fails otherwise. Reads of data and of the FAT may fail at any time before;
what the properties except is in section 5.

The assumptions are the named `ASSUME`s of the modules, which TLC evaluates in
the runs. Those of the boot path are `VolumeAssumption` and `DisksAssumption` (a
FAT16 volume: clusters from 2 up to 65534, of 32 KB at most, in a partition that
starts in the first gigabyte and past its first 64 KB; a file has each of its
clusters once and an entry in the FAT for it, and any number of 16 bits behind
the last one and in the entries of other clusters), `MemoryAssumption` and
`BootloaderAssumption` (types, and at most six LEDs).

**Only model-checked**: all liveness properties (temporal proofs under
fairness are out of reach of the prover): `EveryCycleAnswered`, `CycleEnds`,
`Ends`, `LoadEnds`, `CommandEnds`. Every safety property of the passing runs is
stated by a theorem.

## 5. Results worth knowing

- The cache needs no handshake for coherence: a write drops its line in the
  first clock of `WRTH`, when the adapter has only just seen the request.
- No acknowledge of the Mackerel-30 loses an event of another level or one
  that comes during it, although the acknowledge wins over a rollover at one
  clock: the acknowledge still in progress is then that of the later tick too.
- A timer that is disabled stays quiet although a rollover may overrule the
  clearing write for a clock: the write is held longer than that.
- The DUART's wait generator restarts like the IDE's, but with one wait clock
  it has ended before the next access can sample it.
- The YMODEM receiver is right against loss, damage and repetition in both
  directions, with one exception it cannot see: damage that turns into an EOT.
- `w5_rw` reads the high byte first, and the size only grows until the driver
  gives bytes back: a torn size is never too large. It may be 0 with bytes
  waiting, and the second read of the size before a short read is reported
  covers that as well as the close that overtakes the last bytes.
- A circular FAT chain ends, because the loop is bounded by the size.
- `fat16.c:223` knows 0xFFFF only of the end marks of FAT16. For a file whose
  chain has clusters enough this does not matter: whatever stands behind the
  last one is never followed. A chain that is too short for its size and ends in
  0xFFF8 to 0xFFFE, in a 0 that an interrupted write has left, or in one of its
  own clusters is read on from there, and what is read is started:
  `StartedIsFile` covers a chain that is too short only where it ends in 0xFFFF.
  With that exception dropped TLC finds the property violated by the disks
  "mark" (0xFFF8) and "circle" of the run. That the last cluster's
  own mark is another than 0xFFFF is no damage; that the chain is too short is.
- The register bridges look at UDSn only (`mackerel_f.v:196,258,281`,
  `uart.v:36`, `spi.v:39`), so that an access to the lower lane alone of the UART
  or an SPI slot has no effect and ends in a bus error after 4096 clocks: the
  exception in `NoFalseBusError`. The timer and the WS2812 answer such an access
  (`timer.v:81`, `ws2812.v:40`) and ignore it. The SPI's data input is taken from
  the lower lane when LDSn is low (`mackerel_f.v:249`), which matters for words
  only. On Mackerel-F the firmware has them at even addresses
  (`spi_tiny.h:16-21`, `uart_16550.h:6-14`).
- Both SD drivers release the card on every way out, and a read that succeeds
  has read its blocks even after a CMD12 whose answer was left in the card:
  zeros that are taken for the answer to CMD18 are never followed by a token.
  Two assumptions are needed (`Addressed`): on Mackerel-F that CMD58 was
  answered, because its R1 is not looked at and an idle line has the bit of a
  block-addressed card (`sd_spi.c:93-100`); on Mackerel-08 that the card counts
  in blocks, because `sd.c` always does. Without them a success may be another
  block.
- `StartedIsFile` also needs that boot sector and directory were read
  (`Sound`), since nobody looks whether they were. What a failed read leaves
  there is one geometry in the model, or the swapped one of an earlier command:
  a sector size of zero, which `fat16.c:188,221` would divide by, and a cluster
  size of zero are not explored.
- `dtest` is the only memory test whose verdict does not depend on the data
  cache, and it leaves both caches off, whatever they were before. `mem8`,
  `mem16` and `mem32` with the data cache on compare what they wrote with the
  cache. `mem16`'s values have D0 equal to D1, so it cannot see the two joined.
- `cache on`, `cache d` and `cinv` clear what they switch on, so no entry from
  before survives; there is no way back on without clearing.
- Each tick the Mackerel-F timer raises is counted once. A rollover in the
  clocks in which an older tick is acknowledged raises none, as the comment in
  `timer.v:119-121` says: it needs a handler that is late by a whole tick.
- `sdread`'s time of a read is never too long, and too short by less than a
  tick and the two clocks of switching off.
- `irqtest` prints FAIL on a sound machine if Enter comes before the first
  tick of its second part, and only there or where no Enter comes at all.

## 6. Disagreements with comments and documents

1. `mem_path_tas`: a TAS to the SDRAM loses its write. The cache holds the
   acknowledge of the read half while AS stays low, so the write half ends
   without entering `WRTH` (`sdram_cache.v:130-135`, against "write-through",
   line 1).
2. `sysctl30_ide`: the IDE wait generator restarts in the clock after
   `ide_waiting` drops, since the chip select is still low. An access that
   follows within that wait gets fewer clocks than "requires ~14 wait clocks"
   (`system_controller.v:126-128`). `SpacedIdeWaitHeld` is what does hold.
3. `sysctl30_reset`: a reset that meets AS high does not clear BOOT
   (`boot_signal.v:12-16`, against line 1 and `system_controller.v:88`). A
   power-on reset is not affected: the register starts at 0.
4. `bootloader_ide`: a FAT sector read that fails after its transfer replaces
   the cached data under the old sector number (`fat16.c:191-196` with
   `ide.c:105-115`); the next `boot` command follows the wrong chain, against "Only read if not
   already cached" (`fat16.c:191`).

Met and without a run: the automatic boot waits 6 * 55 * 10 ms = 3.3 s where its
comment and its message say five (`bootloader.c:536,567`); `dtest` of one to
three bytes divides by zero (`bootloader.c:829,851`), which `MemoryCommands`
contains as the end in a panic; `CACR_CLEAR_ICACHE` is 0x000 (`mackerel.h:91`),
so that `start.c:39` enables the instruction cache without clearing it, while
`handler_cinv` uses 0x008; BOOT rises after `BOOT_CYCLE_MAX + 1` cycles, so the
comments' four and eight are five and nine; the `boot` command reads the
partition at sector 2048 (`bootloader.c:513`) where `src/README.md` says "first
FAT16 partition"; `src/README.md:130-131` puts the block RAM of Mackerel-F below
its ROM (0xFF0000 and 0xFF8000), while the decode has the ROM at 0xFF0000 and
the block RAM at 0xFFC000 (`mackerel_f.v:125-126`).

`w5500_tcp_connect` waits for ESTABLISHED only (`w5500.c:158`): a server that
has sent a whole image of less than 2 KB and closed between two polls leaves
CLOSE_WAIT, and the connect fails after all its polls although the image is
there. `Netboot` contains this behaviour (`ConnectPoll`); nothing wrong is
started. The driver writes the next frame after RECV without waiting for
`Sn_CR` to clear (`w5500.c:188`); the model assumes that the chip is done by
then.

Outside the models, and stated as hazards: the drain of a rejected YMODEM
block has no limit on a line that never falls silent (`ymodem.c:125`); the
FAT cache survives an exchange of the card; a NIC interrupt line that
stays low gives no second edge (`system_controller.v:228`). A reset in the
middle of a refresh leaves `refresh_ack` set, and no refresh is made until the
next access ends (`dram_controller.v:126`): the exception in `NoRefreshLost`.
`IDE_wait_for_device_ready` looks at BSY and DRDY and not at DRQ: the model
assumes that a drive drops the DRQ of an old command before the status is read
after a new one. `SdBitbang` assumes that a complete command takes the place of
what the card still had to send.

## 7. Plan

Done: `MemPath` with its parts, abstract memory and proofs; `MackerelF`;
`SysCtl30`, `Dram30` with its reset, `Ymodem`, `Netboot`, the boot path over
its drivers, the memory commands and the interrupts of Mackerel-F, with the
proofs of section 4.

Left, in this order:

1. Abstract specifications: a memory for the DRAM controller (`BusMemory`
   again), a file transfer for `Ymodem` and `Netboot`, a load-or-nothing for
   `Bootloader`.
2. The Mackerel-10 DRAM controller with TAS, beside `Dram30`.
