----------------------------- MODULE Dram30Proof -----------------------------
(***************************************************************************)
(* What is proved about the DRAM controller of the 68030 board: the lane   *)
(* table, for every size and offset, of which the runs use one; and, for   *)
(* every address and kind of access, that memory holds what was written,   *)
(* that a read finds its long word on the pins and that the chips are off  *)
(* the bus for every other cycle; and for every interval long enough, that *)
(* no refresh is lost.                                                     *)
(***************************************************************************)
EXTENDS Dram30, Integers, TLAPS

(* The size that SIZ1 SIZ0 encodes, in bytes.                              *)
Bytes(s) == IF s = 0 THEN 4 ELSE s

(* The rows of the table for one size.                                     *)
LEMMA Byte1 == \A o \in Offsets : Table[<<1, o>>] = Touched(<<1, o>>)
  BY DEF Table, Touched, Sizes, Offsets, Lanes

LEMMA Byte2 == \A o \in Offsets : Table[<<2, o>>] = Touched(<<2, o>>)
  BY DEF Table, Touched, Sizes, Offsets, Lanes

LEMMA Byte3 == \A o \in Offsets : Table[<<3, o>>] = Touched(<<3, o>>)
  BY DEF Table, Touched, Sizes, Offsets, Lanes

LEMMA Byte4 == \A o \in Offsets : Table[<<0, o>>] = Touched(<<0, o>>)
  BY DEF Table, Touched, Sizes, Offsets, Lanes

(* The lane table strobes the bytes of the operand that lie in the         *)
(* addressed long word, and no others, for every size and offset           *)
(* (dram_controller.v:87-122).                                             *)
THEOREM LaneTableCorrect == LaneTable
<1>1. \A s \in Sizes, o \in Offsets : Table[<<s, o>>] = Touched(<<s, o>>)
  BY Byte1, Byte2, Byte3, Byte4 DEF Sizes
<1>2. QED
  BY <1>1 DEF LaneTable

-----------------------------------------------------------------------------
(* The inductive invariant.                                                *)

Bus == [as : BOOLEAN, ds : BOOLEAN, cs : BOOLEAN, write : BOOLEAN, got : BOOLEAN,
        slow : Nat, addr : Addrs, kind : Sizes \X Offsets, data : Byte]

\* The CPU holds what belongs to a cycle while the cycle lasts only.
BusType ==
    /\ bus \in Bus
    /\ ~bus.as => ~bus.ds /\ ~bus.cs /\ ~bus.got
    /\ bus.got => bus.ds

\* One clock of the controller after an edge of the CPU, the first registers
\* have seen it: the CPU acts on every second clock at most.
Sampled == ph >= 1 => (AS1 <=> bus.as) /\ (CS1 <=> bus.cs) /\ (DS1 <=> bus.ds)

\* What the registers show in a cycle is the cycle, or nothing yet.
SeesCycle ==
    bus.as => /\ AS2 => AS1
              /\ CS2 => CS1 /\ AS2
              /\ CS1 => bus.cs /\ AS1
              /\ DS2 => DS1
              /\ DS1 => bus.ds
              /\ AS1 => CAS = Table[bus.kind]

\* What they show between two cycles is the end of the cycle in RW5.
SeesEnd ==
    ~bus.as => /\ CS1 => AS1 /\ AS2 /\ CS2 /\ DS1 /\ DS2
               /\ CS2 => state = "RW5"

InCycle == bus.as /\ bus.cs /\ AS2 /\ CS2

\* RW5 outlasts the cycle: it may meet the first clock of the next one.
Rw5Is ==
    state = "RW5" =>
       \/ InCycle /\ DS2
       \/ ~bus.as
       \/ bus.as /\ ~AS2 /\ wr /\ ph = 0 /\ ~bus.got

Turn ==
    /\ state \in {"RW1", "RW2", "RW2A", "RW3", "RW4", "RW4A"} => InCycle /\ ~bus.got
    /\ state = "RW4A" => DS2
    /\ dsack => state = "RW5"
    /\ bus.got /\ bus.cs => state = "RW5" /\ InCycle

Open == ras = {bus.addr[1]} /\ row[bus.addr[1]] = bus.addr[2]

\* The outputs, state by state.
Outputs ==
    /\ state \in {"IDLE", "RW1", "RW2", "REFRESH1", "REFRESH2"} => ras = {}
    /\ state \in {"IDLE", "RW1", "RW2", "RW2A", "RW3", "RW4", "REFRESH1", "REFRESH4"} =>
          cas = {}
    /\ state = "RW2" => ADDR_DRAM = bus.addr[2]
    /\ state \in {"RW2A", "RW3"} => Open
    /\ state \in {"RW4", "RW4A"} \/ (state = "RW5" /\ InCycle) =>
          Open /\ ADDR_DRAM = bus.addr[3] /\ (wr <=> bus.write)
    /\ state = "RW4A" \/ (state = "RW5" /\ InCycle) =>
          cas = IF wr THEN Table[bus.kind] ELSE Lanes
    /\ state = "PRECHARGE" /\ ~wr => cas = {} \/ ras = {}

\* A write is in memory from RW4A on.
Written ==
    (state = "RW4A" \/ (state = "RW5" /\ InCycle)) /\ bus.write =>
       \A l \in Touched(bus.kind) : mem[bus.addr][l] = bus.data

IInv ==
    /\ TypeOK /\ BusType /\ Sampled /\ SeesCycle /\ SeesEnd /\ Rw5Is /\ Turn
    /\ Outputs /\ Written /\ MemoryCorrect

-----------------------------------------------------------------------------
(* What the CPU does at a clock of the controller.                         *)

Same ==
    /\ bus'.as /\ (bus'.cs <=> bus.cs) /\ (bus'.write <=> bus.write)
    /\ bus'.addr = bus.addr /\ bus'.kind = bus.kind /\ bus'.data = bus.data

Holds ==
    /\ bus' = bus /\ promised' = promised
    /\ ph' >= 1 => ph' = ph + 1
    /\ ph' = 0 => ph >= 1 /\ ~bus.as

Starts ==
    /\ ph' = 0 /\ ph >= 1 /\ ~bus.as /\ bus'.as /\ ~bus'.got /\ promised' = promised

Goes ==
    /\ ph' = 0 /\ ph >= 1 /\ bus.as /\ ~bus.got /\ Same /\ promised' = promised
    /\ bus.ds => bus'.ds
    /\ bus'.got => bus'.ds /\ (~bus.cs \/ dsack)

Stops ==
    /\ ph' = 0 /\ ph >= 1 /\ bus.as /\ bus.got
    /\ ~bus'.as /\ ~bus'.ds /\ ~bus'.cs /\ ~bus'.got
    /\ promised' = IF bus.cs /\ bus.write
                   THEN [promised EXCEPT ![bus.addr] =
                          [l \in Lanes |-> IF l \in Touched(bus.kind) THEN bus.data ELSE @[l]]]
                   ELSE promised

LEMMA NoBusType == NoBus \in Bus /\ ~NoBus.as /\ ~NoBus.ds /\ ~NoBus.cs /\ ~NoBus.got
  <1>1. (CHOOSE a \in Addrs : TRUE) \in Addrs /\ (CHOOSE b \in Byte : TRUE) \in Byte
    BY DramAssumption
  <1> QED  BY <1>1 DEF NoBus, Bus, Sizes, Offsets

LEMMA CpuMoves ==
    ASSUME TypeOK, BusType, CpuStep
    PROVE  /\ Holds \/ Starts \/ Goes \/ Stops
           /\ bus' \in Bus /\ ph' \in 0 .. CLK_MAX - 1
           /\ bus'.got => bus'.ds
           /\ bus'.as \/ (~bus'.ds /\ ~bus'.cs /\ ~bus'.got)
  <1>1. /\ ph \in Nat /\ ph <= CLK_MAX - 1 /\ CLK_MIN \in Nat /\ CLK_MAX \in Nat
        /\ CLK_MIN >= 2 /\ CLK_MIN <= CLK_MAX
    BY DramAssumption DEF TypeOK
  <1>2. bus \in Bus
    BY DEF BusType
  <1>3. CASE ph + 1 < CLK_MIN
    BY <1>1, <1>2, <1>3 DEF CpuStep, Holds, BusType
  <1>4. CASE ph + 1 >= CLK_MIN /\ ph + 1 < CLK_MAX /\ ph' = ph + 1 /\ UNCHANGED <<bus, promised>>
    BY <1>1, <1>2, <1>4 DEF Holds, BusType
  <1>5. CASE /\ ph + 1 >= CLK_MIN /\ ph' = 0
             /\ CpuRest \/ CpuStart \/ CpuSample \/ CpuSlow \/ CpuEnd
    <2>1. ph >= 1 /\ ph' \in 0 .. CLK_MAX - 1
      BY <1>1, <1>5
    <2>2. CASE CpuRest
      BY <1>2, <1>5, <2>1, <2>2 DEF CpuRest, Holds, BusType
    <2>3. CASE CpuStart
      <3>1. CASE \E a \in Addrs, k \in Kinds, w \in BOOLEAN, b \in Byte :
                   bus' = [bus EXCEPT !.as = TRUE, !.ds = ~w, !.cs = TRUE, !.write = w,
                                      !.addr = a, !.kind = k, !.data = b]
        <4>1. bus' \in Bus
          BY <1>2, <3>1, DramAssumption, ZenonT(60) DEF Bus
        <4>2. bus'.as /\ ~bus'.got
          BY <1>2, <2>3, <3>1 DEF Bus, BusType, CpuStart
        <4> QED  BY <1>5, <2>1, <2>3, <4>1, <4>2 DEF CpuStart, Starts
      <3>2. CASE bus' = [bus EXCEPT !.as = TRUE, !.ds = TRUE]
        <4>1. bus' \in Bus
          BY <1>2, <3>2 DEF Bus
        <4>2. bus'.as /\ ~bus'.got
          BY <1>2, <2>3, <3>2 DEF Bus, BusType, CpuStart
        <4> QED  BY <1>5, <2>1, <2>3, <4>1, <4>2 DEF CpuStart, Starts
      <3> QED  BY <2>3, <3>1, <3>2 DEF CpuStart
    <2>4. CASE CpuSample
      <3>1. dsack \in BOOLEAN /\ bus.cs \in BOOLEAN
        BY <1>2 DEF TypeOK, Bus
      <3>2. bus' \in Bus
        BY <1>2, <2>4, <3>1 DEF CpuSample, Bus
      <3>3. Same /\ bus'.ds /\ (bus'.got => ~bus.cs \/ dsack)
        BY <1>2, <2>4 DEF CpuSample, Bus, Same
      <3> QED  BY <1>5, <2>1, <2>4, <3>2, <3>3 DEF CpuSample, Goes, Same
    <2>5. CASE CpuSlow
      <3>1. bus' \in Bus
        BY <1>2, <2>5 DEF CpuSlow, Bus
      <3>2. Same /\ bus'.ds = bus.ds /\ bus'.got = bus.got
        BY <1>2, <2>5 DEF CpuSlow, Bus, Same
      <3> QED  BY <1>5, <2>1, <2>5, <3>1, <3>2 DEF CpuSlow, Goes, Same
    <2>6. CASE CpuEnd
      <3>1. bus.as
        BY <2>6 DEF CpuEnd, BusType
      <3> QED  BY <1>5, <2>1, <2>6, <3>1, NoBusType DEF CpuEnd, Stops
    <2> QED  BY <1>5, <2>2, <2>3, <2>4, <2>5, <2>6
  <1> QED  BY <1>1, <1>3, <1>4, <1>5 DEF CpuStep

-----------------------------------------------------------------------------
(* The registers.                                                          *)

Moves == Holds \/ Starts \/ Goes \/ Stops

\* Before DSACK a cycle in the registers goes on.
LEMMA Stays ==
    ASSUME Moves, SampleStep, BusType, SeesCycle, InCycle, ~bus.got, ~dsack
    PROVE  /\ InCycle' /\ ~bus'.got /\ Same /\ promised' = promised
           /\ (bus.ds => bus'.ds) /\ (DS2' <=> DS1) /\ CAS' = Table[bus.kind]
  <1>1. Holds \/ Goes
    BY DEF Moves, Starts, Stops, InCycle
  <1>2. Same /\ promised' = promised /\ ~bus'.got /\ (bus.ds => bus'.ds)
    BY <1>1 DEF Holds, Goes, Same, InCycle
  <1>3. AS2' /\ CS2'
    BY DEF SampleStep, SeesCycle, InCycle
  <1> QED  BY <1>2, <1>3 DEF SampleStep, InCycle, Same

LEMMA StepSampled ==
    ASSUME Moves, SampleStep, Sampled, BusType
    PROVE  Sampled'
  <1>1. SUFFICES ASSUME ph' >= 1
                 PROVE  (AS1' <=> bus'.as) /\ (CS1' <=> bus'.cs) /\ (DS1' <=> bus'.ds)
    BY DEF Sampled
  <1>2. bus' = bus
    BY <1>1 DEF Moves, Holds, Starts, Goes, Stops
  <1> QED  BY <1>2 DEF SampleStep

LEMMA StepSees ==
    ASSUME Moves, SampleStep, Sampled, BusType, SeesCycle
    PROVE  SeesCycle'
  <1>1. CASE Holds
    BY <1>1 DEF Holds, SampleStep, SeesCycle
  <1>2. CASE Starts
    BY <1>2 DEF Starts, SampleStep, SeesCycle, Sampled, BusType
  <1>3. CASE Goes
    BY <1>3 DEF Goes, Same, SampleStep, SeesCycle
  <1>4. CASE Stops
    BY <1>4 DEF Stops, SeesCycle
  <1> QED  BY <1>1, <1>2, <1>3, <1>4 DEF Moves

\* While the registers show the cycle and its data strobe, RW5 lasts.
LEMMA Lasts ==
    ASSUME FsmStep, state = "RW5", AS2, CS2, DS1, DS2
    PROVE  state' = "RW5" /\ cas' = cas /\ dsack'
  BY DEF FsmStep, Idle, Rw1, Rw2, Settle, Rw3, Rw4, Rw5, Refresh1, Refresh2, Refresh3,
         Refresh4, Precharge, Goto, Ended, Active

\* A cycle that DSACK has answered is in RW5, and in the registers.
LEMMA Answered ==
    ASSUME BusType, SeesCycle, Rw5Is, Turn, bus.cs, bus.got \/ (bus.as /\ dsack /\ ph >= 1)
    PROVE  state = "RW5" /\ InCycle /\ AS1 /\ CS1 /\ DS1 /\ DS2
  <1>1. state = "RW5" /\ bus.as
    BY DEF Turn, BusType
  <1>2. InCycle /\ DS2
    BY <1>1 DEF Turn, Rw5Is, InCycle, SeesCycle
  <1> QED  BY <1>1, <1>2 DEF SeesCycle, InCycle

LEMMA StepEnd ==
    ASSUME Moves, SampleStep, FsmStep, BusType, SeesCycle, SeesEnd, Rw5Is, Turn
    PROVE  SeesEnd'
  <1>1. CASE Holds /\ ~bus.as
    <2>1. ~CS1'
      BY <1>1 DEF BusType, SampleStep
    <2>2. CASE CS1
      BY <1>1, <2>1, <2>2, Lasts DEF SeesEnd
    <2>3. CASE ~CS1
      BY <2>1, <2>3 DEF SampleStep, SeesEnd
    <2> QED  BY <2>2, <2>3
  <1>2. CASE Stops /\ bus.cs
    <2>1. state = "RW5" /\ InCycle /\ AS1 /\ CS1 /\ DS1 /\ DS2
      BY <1>2, Answered DEF Stops
    <2>2. AS1' /\ AS2' /\ CS2' /\ DS1' /\ DS2'
      BY <1>2, <2>1 DEF SampleStep, BusType, Stops
    <2>3. state' = "RW5"
      BY <2>1, Lasts DEF InCycle
    <2> QED  BY <2>2, <2>3 DEF SeesEnd
  <1>3. CASE Stops /\ ~bus.cs
    BY <1>3 DEF Stops, SeesCycle, SampleStep, SeesEnd
  <1>4. CASE bus'.as
    BY <1>4 DEF SeesEnd
  <1> QED  BY <1>1, <1>2, <1>3, <1>4 DEF Moves, Holds, Starts, Goes, Same

LEMMA StepRw5 ==
    ASSUME TypeOK, Moves, SampleStep, FsmStep, BusType, Sampled, SeesCycle, Rw5Is, Turn
    PROVE  Rw5Is'
  <1>1. SUFFICES ASSUME state' = "RW5" PROVE Rw5Is'
    BY DEF Rw5Is
  <1>2. CASE state = "RW4A"
    <2>1. InCycle /\ ~bus.got /\ DS2 /\ ~dsack
      BY <1>2 DEF Turn
    <2>2. InCycle' /\ (DS2' <=> DS1)
      BY <2>1, Stays
    <2> QED  BY <2>1, <2>2 DEF Rw5Is, SeesCycle, InCycle
  <1>3. CASE state = "RW5"
    <2>1. ~Ended /\ wr' = wr
      BY <1>1, <1>3 DEF FsmStep, Idle, Rw1, Rw2, Settle, Rw3, Rw4, Rw5, Refresh1, Refresh2,
                        Refresh3, Refresh4, Precharge, Goto
    <2>2. AS2 /\ CS2 /\ (wr => DS2) /\ (~wr => DS1)
      BY <2>1 DEF Ended, Active
    <2>3. CASE bus.as
      <3>1. InCycle /\ DS2 /\ AS1 /\ CS1 /\ DS1
        BY <1>3, <2>2, <2>3 DEF Rw5Is, SeesCycle, InCycle
      <3>2. CASE Stops
        BY <3>2 DEF Stops, Rw5Is
      <3>3. CASE Holds \/ Goes
        BY <3>1, <3>3 DEF Holds, Goes, Same, SampleStep, InCycle, Rw5Is
      <3> QED  BY <2>3, <3>2, <3>3 DEF Moves, Starts
    <2>4. CASE ~bus.as
      <3>1. CASE Holds
        BY <2>4, <3>1 DEF Holds, Rw5Is
      <3>2. CASE Starts
        <4>1. ~AS1 /\ ~DS1
          BY <2>4, <3>2 DEF Starts, Sampled, BusType
        <4>2. wr'
          BY <2>1, <2>2, <4>1
        <4> QED  BY <3>2, <4>1, <4>2 DEF Starts, SampleStep, Rw5Is
      <3> QED  BY <2>4, <3>1, <3>2 DEF Moves, Goes, Stops
    <2> QED  BY <2>3, <2>4
  <1>4. state \in {"RW4A", "RW5"}
    BY <1>1 DEF FsmStep, Idle, Rw1, Rw2, Settle, Rw3, Rw4, Rw5, Refresh1, Refresh2,
                Refresh3, Refresh4, Precharge, Goto
  <1> QED  BY <1>2, <1>3, <1>4

LEMMA StepTurn ==
    ASSUME TypeOK, Moves, SampleStep, FsmStep, BusType, Sampled, SeesCycle, SeesEnd, Rw5Is, Turn
    PROVE  Turn'
  <1> DEFINE Path == {"RW1", "RW2", "RW2A", "RW3", "RW4", "RW4A"}
  <1>1. ASSUME state' \in Path
        PROVE  InCycle' /\ ~bus'.got /\ (state' = "RW4A" => DS2')
    <2>1. /\ state \in Path \/ (state = "IDLE" /\ Active)
          /\ state' = "RW4A" => DS2 /\ state = "RW4"
      BY <1>1 DEF FsmStep, Idle, Rw1, Rw2, Settle, Rw3, Rw4, Rw5, Refresh1, Refresh2,
                  Refresh3, Refresh4, Precharge, Goto
    <2>2. InCycle /\ ~bus.got /\ ~dsack
      BY <2>1 DEF Turn, Active, SeesEnd, SeesCycle, InCycle
    <2>3. InCycle' /\ ~bus'.got /\ (DS2' <=> DS1)
      BY <2>2, Stays
    <2> QED  BY <2>1, <2>2, <2>3 DEF SeesCycle, InCycle
  <1>2. dsack' => state' = "RW5"
    BY DEF Turn, FsmStep, Idle, Rw1, Rw2, Settle, Rw3, Rw4, Rw5, Refresh1, Refresh2,
           Refresh3, Refresh4, Precharge, Goto, Quiet
  <1>3. ASSUME bus'.got, bus'.cs
        PROVE  state' = "RW5" /\ InCycle'
    <2>1. \/ Holds /\ bus.got /\ bus.cs
          \/ Goes /\ bus.cs /\ dsack
      BY <1>3 DEF Moves, Holds, Starts, Goes, Stops, Same
    <2>2. state = "RW5" /\ InCycle /\ AS1 /\ CS1 /\ DS1 /\ DS2
      BY <2>1, Answered DEF Goes
    <2>3. state' = "RW5"
      BY <2>2, Lasts DEF InCycle
    <2> QED  BY <2>1, <2>2, <2>3 DEF Holds, Goes, Same, SampleStep, InCycle
  <1> QED  BY <1>1, <1>2, <1>3 DEF Turn

-----------------------------------------------------------------------------
(* The chips and the outputs.                                              *)

\* Chips that no CAS reaches keep what they hold, and so do closed ones.
LEMMA ChipsKeep ==
    ASSUME TypeOK, ChipStep, cas' \subseteq cas \/ ras = {}
    PROVE  mem' = mem
  <1>1. mem = [a \in DOMAIN mem |-> mem[a]]
    BY DEF TypeOK, Memory
  <1>2. CASE cas' \subseteq cas
    <2>1. cas' \ cas = {}
      BY <1>2
    <2> QED  BY <2>1 DEF ChipStep
  <1>3. CASE ras = {}
    <2>1. {<<s, row[s], ADDR_DRAM>> : s \in ras} = {}
      BY <1>3
    <2> QED  BY <1>1, <2>1 DEF ChipStep
  <1> QED  BY <1>2, <1>3

LEMMA RowsKeep ==
    ASSUME TypeOK, ChipStep, ras' \subseteq ras
    PROVE  row' = row
  <1>1. row = [s \in Sides |-> row[s]]
    BY DEF TypeOK
  <1>2. ras' \ ras = {}
    OBVIOUS
  <1> QED  BY <1>1, <1>2 DEF ChipStep

\* The RAS of one side takes the row.
LEMMA RowTaken ==
    ASSUME TypeOK, ChipStep, NEW s \in Sides, ras = {}, ras' = {s}
    PROVE  row'[s] = ADDR_DRAM
  BY DEF ChipStep

LEMMA AddrIs ==
    ASSUME NEW a \in Addrs
    PROVE  /\ a[1] \in Sides /\ a[2] \in Coord /\ a[3] \in Coord
           /\ a = <<a[1], a[2], a[3]>>
  BY DramAssumption

LEMMA TouchedLanes == \A k \in Sizes \X Offsets : Table[k] = Touched(k) /\ Touched(k) \subseteq Lanes
  BY LaneTableCorrect DEF LaneTable, Touched

LEMMA BusIs ==
    ASSUME BusType
    PROVE  /\ bus.addr \in Addrs /\ bus.kind \in Sizes \X Offsets /\ bus.data \in Byte
           /\ bus.write \in BOOLEAN /\ bus.cs \in BOOLEAN /\ bus.as \in BOOLEAN
           /\ bus.ds \in BOOLEAN /\ bus.got \in BOOLEAN
  BY DEF BusType, Bus

\* The CAS of a write stores its bytes in its long word.
LEMMA Stored ==
    ASSUME TypeOK, BusType, ChipStep, Open, ADDR_DRAM = bus.addr[3], wr, bus.ds,
           cas = {}, cas' = Touched(bus.kind)
    PROVE  /\ mem' \in Memory
           /\ \A a \in DOMAIN mem, l \in Lanes :
                 mem'[a][l] = IF a = bus.addr /\ l \in Touched(bus.kind) THEN bus.data
                              ELSE mem[a][l]
  <1>1. {<<s, row[s], ADDR_DRAM>> : s \in ras} = {bus.addr}
    BY BusIs, AddrIs DEF Open
  <1>2. cas' \ cas = Touched(bus.kind)
    OBVIOUS
  <1>3. Touched(bus.kind) \subseteq Lanes
    BY BusIs, TouchedLanes
  <1>4. CASE Touched(bus.kind) = {}
    <2>1. mem' = mem
      BY <1>4, ChipsKeep
    <2> QED  BY <1>4, <2>1 DEF TypeOK
  <1>5. CASE Touched(bus.kind) # {}
    <2>1. mem' = [a \in DOMAIN mem |-> IF a \in {bus.addr}
                    THEN [l \in Lanes |-> IF l \in Touched(bus.kind) THEN bus.data ELSE mem[a][l]]
                    ELSE mem[a]]
      BY <1>1, <1>2, <1>5 DEF ChipStep
    <2>2. mem \in Memory /\ bus.data \in Byte
      BY BusIs DEF TypeOK
    <2>3. mem' \in Memory
      BY <2>1, <2>2 DEF Memory
    <2>4. ASSUME NEW a \in DOMAIN mem, NEW l \in Lanes
          PROVE  mem'[a][l] = IF a = bus.addr /\ l \in Touched(bus.kind) THEN bus.data
                              ELSE mem[a][l]
      BY <2>1
    <2> QED  BY <2>3, <2>4
  <1> QED  BY <1>4, <1>5

-----------------------------------------------------------------------------
(* One clock of the controller.                                            *)

\* The states in which a cycle that is not answered runs.
LEMMA InPath ==
    ASSUME IInv, Tick, state \in {"RW1", "RW2", "RW2A", "RW3", "RW4", "RW4A"}
    PROVE  /\ InCycle /\ ~bus.got /\ InCycle' /\ Same /\ promised' = promised
           /\ CAS = Table[bus.kind] /\ bus.addr \in Addrs
  <1>1. InCycle /\ ~bus.got /\ ~dsack
    BY DEF IInv, Turn
  <1>2. Moves
    BY CpuMoves DEF IInv, Tick, Moves
  <1>3. InCycle' /\ Same /\ promised' = promised
    BY <1>1, <1>2, Stays DEF IInv, Tick
  <1>4. CAS = Table[bus.kind]
    BY <1>1 DEF IInv, SeesCycle, InCycle
  <1> QED  BY <1>1, <1>3, <1>4, BusIs DEF IInv

\* In RW5 the cycle on the bus is the one that was there before.
LEMMA InRw5 ==
    ASSUME IInv, Tick, state = "RW5", state' = "RW5", InCycle'
    PROVE  InCycle /\ ~Ended /\ Same
  <1>1. ~Ended
    BY DEF Tick, FsmStep, Idle, Rw1, Rw2, Settle, Rw3, Rw4, Rw5, Refresh1, Refresh2,
           Refresh3, Refresh4, Precharge, Goto
  <1>2. AS2 /\ CS2
    BY <1>1 DEF Ended, Active
  <1>3. Moves
    BY CpuMoves DEF IInv, Tick, Moves
  <1>4. CASE bus.as
    <2>1. InCycle
      BY <1>2, <1>4 DEF IInv, SeesCycle, InCycle
    <2> QED  BY <1>1, <1>3, <1>4, <2>1 DEF Moves, Holds, Starts, Goes, Stops, Same, InCycle
  <1>5. CASE ~bus.as
    <2>1. Starts
      BY <1>3, <1>5 DEF Moves, Holds, Goes, Stops, InCycle
    <2>2. ~AS1
      BY <1>5, <2>1 DEF Starts, IInv, Sampled
    <2> QED  BY <2>2 DEF Tick, SampleStep, InCycle
  <1> QED  BY <1>4, <1>5

LEMMA StepOutputs ==
    ASSUME IInv, Tick
    PROVE  Outputs'
  <1>1. TypeOK /\ ChipStep /\ Outputs
    BY DEF IInv, Tick
  <1>2. CASE Idle
    BY <1>1, <1>2 DEF Idle, Goto, Quiet, Outputs
  <1>3. CASE Rw1
    BY <1>1, <1>3, InPath DEF Rw1, Goto, Outputs, Same
  <1>4. CASE Rw2
    <2>1. InCycle' /\ Same /\ bus.addr \in Addrs
      BY <1>4, InPath DEF Rw2
    <2>2. bus.addr[1] \in Sides
      BY <2>1, AddrIs
    <2>3. /\ ras = {} /\ cas' = {} /\ ADDR_DRAM = bus.addr[2] /\ state' = "RW2A"
          /\ ras' = {bus.addr[1]}
      BY <1>1, <1>4 DEF Rw2, Goto, Outputs
    <2>4. row'[bus.addr[1]] = bus.addr[2]
      BY <1>1, <2>2, <2>3, RowTaken
    <2> QED  BY <2>1, <2>3, <2>4 DEF Outputs, Open, Same
  <1>5. CASE Settle
    <2>1. Same /\ row' = row
      BY <1>1, <1>5, InPath, RowsKeep DEF Settle, Quiet
    <2>2. Open' <=> Open
      BY <1>5, <2>1 DEF Settle, Quiet, Open, Same
    <2> QED  BY <1>1, <1>5, <2>1, <2>2 DEF Settle, Goto, Quiet, Outputs, Same
  <1>6. CASE Rw3
    <2>1. Same /\ row' = row
      BY <1>1, <1>6, InPath, RowsKeep DEF Rw3
    <2>2. Open' <=> Open
      BY <1>6, <2>1 DEF Rw3, Open, Same
    <2> QED  BY <1>1, <1>6, <2>1, <2>2 DEF Rw3, Goto, Outputs, Same
  <1>7. CASE Rw4
    <2>1. Same /\ row' = row /\ InCycle /\ CAS = Table[bus.kind]
      BY <1>1, <1>7, InPath, RowsKeep DEF Rw4
    <2>2. Open' <=> Open
      BY <1>7, <2>1 DEF Rw4, Open, Same
    <2> QED  BY <1>1, <1>7, <2>1, <2>2 DEF Rw4, Goto, Outputs, Same, Active, InCycle
  <1>8. CASE Rw5
    <2>1. CASE Ended
      BY <1>8, <2>1 DEF Rw5, Goto, Outputs
    <2>2. CASE ~Ended
      <3>1. state' = "RW5" /\ UNCHANGED <<ras, cas, wr, ADDR_DRAM>>
        BY <1>8, <2>2 DEF Rw5
      <3>2. SUFFICES ASSUME InCycle'
                     PROVE  /\ Open' /\ ADDR_DRAM' = bus'.addr[3] /\ (wr' <=> bus'.write)
                            /\ cas' = IF wr' THEN Table[bus'.kind] ELSE Lanes
        BY <3>1 DEF Outputs
      <3>3. InCycle /\ Same
        BY <1>8, <3>1, <3>2, InRw5 DEF Rw5
      <3>4. row' = row
        BY <1>1, <3>1, RowsKeep
      <3>5. /\ Open /\ ADDR_DRAM = bus.addr[3] /\ (wr <=> bus.write)
            /\ cas = IF wr THEN Table[bus.kind] ELSE Lanes
        BY <1>1, <1>8, <3>3 DEF Rw5, Outputs
      <3> QED  BY <3>1, <3>3, <3>4, <3>5 DEF Open, Same
    <2> QED  BY <2>1, <2>2
  <1>9. CASE Refresh1 \/ Refresh2 \/ Refresh3 \/ Refresh4 \/ Precharge
    BY <1>1, <1>9 DEF Refresh1, Refresh2, Refresh3, Refresh4, Precharge, Goto, Outputs
  <1> QED  BY <1>2, <1>3, <1>4, <1>5, <1>6, <1>7, <1>8, <1>9 DEF Tick, FsmStep

\* The one step that writes to memory.
WriteStep == Rw4 /\ Active /\ DS2 /\ wr

LEMMA MemKept ==
    ASSUME IInv, Tick, ~WriteStep
    PROVE  mem' = mem
  <1>1. TypeOK /\ ChipStep /\ Outputs
    BY DEF IInv, Tick
  <1>2. CASE Rw4
    <2>1. cas' \subseteq cas \/ ~wr
      BY <1>2 DEF Rw4, WriteStep
    <2>2. CASE ~wr
      BY <1>1, <2>2 DEF ChipStep
    <2> QED  BY <1>1, <2>1, <2>2, ChipsKeep
  <1>3. CASE Refresh1
    BY <1>1, <1>3, ChipsKeep DEF Refresh1, Outputs
  <1>4. CASE Idle \/ Rw1 \/ Rw2 \/ Settle \/ Rw3 \/ Rw5 \/ Refresh2 \/ Refresh3 \/ Refresh4
             \/ Precharge
    <2>1. cas' \subseteq cas
      BY <1>4 DEF Idle, Rw1, Rw2, Settle, Rw3, Rw5, Refresh2, Refresh3, Refresh4, Precharge, Quiet
    <2> QED  BY <1>1, <2>1, ChipsKeep
  <1> QED  BY <1>2, <1>3, <1>4 DEF Tick, FsmStep

LEMMA MemWritten ==
    ASSUME IInv, Tick, WriteStep
    PROVE  /\ Same /\ promised' = promised /\ bus.cs /\ bus.write /\ mem' \in Memory
           /\ \A a \in DOMAIN mem, l \in Lanes :
                 mem'[a][l] = IF a = bus.addr /\ l \in Touched(bus.kind) THEN bus.data
                              ELSE mem[a][l]
  <1>1. TypeOK /\ BusType /\ ChipStep /\ Outputs /\ SeesCycle
    BY DEF IInv, Tick
  <1>2. InCycle /\ Same /\ promised' = promised /\ CAS = Table[bus.kind]
    BY InPath DEF WriteStep, Rw4
  <1>3. bus.ds
    BY <1>1, <1>2 DEF WriteStep, SeesCycle, InCycle
  <1>4. cas = {} /\ Open /\ ADDR_DRAM = bus.addr[3] /\ bus.write
    BY <1>1 DEF WriteStep, Rw4, Outputs
  <1>5. cas' = Touched(bus.kind)
    BY <1>1, <1>2, BusIs, TouchedLanes DEF WriteStep, Rw4
  <1> QED  BY <1>1, <1>2, <1>3, <1>4, <1>5, Stored DEF WriteStep, InCycle

LEMMA StepWritten ==
    ASSUME IInv, Tick, Outputs'
    PROVE  Written'
  <1>1. TypeOK /\ BusType
    BY DEF IInv
  <1>2. SUFFICES ASSUME state' = "RW4A" \/ (state' = "RW5" /\ InCycle'), bus'.write,
                        NEW l \in Touched(bus'.kind)
                 PROVE  mem'[bus'.addr][l] = bus'.data
    BY DEF Written
  <1>3. CASE state' = "RW4A"
    <2>1. Rw4 /\ state = "RW4" /\ Active /\ DS2 /\ wr' = wr
      BY <1>3 DEF Tick, FsmStep, Idle, Rw1, Rw2, Settle, Rw3, Rw4, Rw5, Refresh1, Refresh2,
                  Refresh3, Refresh4, Precharge, Goto
    <2>2. WriteStep
      BY <1>2, <1>3, <2>1 DEF Outputs, WriteStep
    <2>3. bus.addr \in DOMAIN mem /\ l \in Touched(bus.kind) /\ l \in Lanes
      BY <1>1, <1>2, <2>2, MemWritten, BusIs, AddrIs, DramAssumption
         DEF Same, Touched, TypeOK, Memory
    <2> QED  BY <2>2, <2>3, MemWritten DEF Same
  <1>4. CASE state' = "RW5" /\ InCycle'
    <2>1. /\ state \in {"RW4A", "RW5"} /\ ~WriteStep
          /\ Same /\ (state = "RW5" => InCycle)
      <3>1. state \in {"RW4A", "RW5"}
        BY <1>4 DEF Tick, FsmStep, Idle, Rw1, Rw2, Settle, Rw3, Rw4, Rw5, Refresh1, Refresh2,
                    Refresh3, Refresh4, Precharge, Goto
      <3> QED  BY <1>4, <3>1, InPath, InRw5 DEF WriteStep, Rw4
    <2>2. mem' = mem
      BY <2>1, MemKept
    <2> QED  BY <1>2, <2>1, <2>2 DEF IInv, Written, Same
  <1> QED  BY <1>2, <1>3, <1>4

LEMMA StepMemory ==
    ASSUME IInv, Tick
    PROVE  MemoryCorrect' /\ mem' \in Memory /\ promised' \in Memory
  <1>1. TypeOK /\ BusType /\ MemoryCorrect /\ mem \in Memory /\ promised \in Memory
    BY DEF IInv, TypeOK
  <1>2. CASE WriteStep
    <2>1. mem' \in Memory /\ DOMAIN mem' = DOMAIN mem
      BY <1>1, <1>2, MemWritten DEF Memory
    <2>2. ASSUME NEW a \in DOMAIN mem, NEW l \in Lanes
          PROVE  \/ mem'[a][l] = promised'[a][l]
                 \/ /\ bus'.cs /\ bus'.write /\ a = bus'.addr /\ l \in Touched(bus'.kind)
                    /\ mem'[a][l] = bus'.data
      BY <1>1, <1>2, MemWritten DEF MemoryCorrect, Same
    <2> QED  BY <1>1, <1>2, <2>1, <2>2, MemWritten DEF MemoryCorrect
  <1>3. CASE ~WriteStep
    <2>1. mem' = mem
      BY <1>3, MemKept
    <2>2. Moves
      BY CpuMoves DEF IInv, Tick, Moves
    <2>3. CASE Holds \/ Goes
      BY <1>1, <2>1, <2>3 DEF Holds, Goes, Same, MemoryCorrect
    <2>4. CASE Starts
      BY <1>1, <2>1, <2>4 DEF Starts, BusType, MemoryCorrect
    <2>5. CASE Stops /\ ~(bus.cs /\ bus.write)
      BY <1>1, <2>1, <2>5 DEF Stops, MemoryCorrect
    <2>6. CASE Stops /\ bus.cs /\ bus.write
      <3>1. state = "RW5" /\ InCycle
        BY <2>6, Answered DEF IInv, Stops
      <3>2. \A l \in Touched(bus.kind) : mem[bus.addr][l] = bus.data
        BY <2>6, <3>1 DEF IInv, Written
      <3>3. promised' = [promised EXCEPT ![bus.addr] =
              [l \in Lanes |-> IF l \in Touched(bus.kind) THEN bus.data ELSE @[l]]]
        BY <2>6 DEF Stops
      <3>4. bus.data \in Byte
        BY <1>1, BusIs
      <3>5. promised' \in Memory
        BY <1>1, <3>3, <3>4 DEF Memory
      <3>6. ASSUME NEW a \in DOMAIN mem, NEW l \in Lanes
            PROVE  mem[a][l] = promised'[a][l]
        <4>1. a \in DOMAIN promised
          BY <1>1 DEF Memory
        <4>2. promised'[a][l] = IF a = bus.addr /\ l \in Touched(bus.kind) THEN bus.data
                                ELSE promised[a][l]
          BY <3>3, <4>1
        <4> QED  BY <1>1, <3>2, <4>2 DEF MemoryCorrect
      <3> QED  BY <1>1, <2>1, <3>5, <3>6 DEF MemoryCorrect
    <2> QED  BY <2>2, <2>3, <2>4, <2>5, <2>6 DEF Moves
  <1> QED  BY <1>2, <1>3

LEMMA StepType ==
    ASSUME IInv, Tick
    PROVE  TypeOK'
  <1>1. TypeOK /\ BusType
    BY DEF IInv
  <1>2. /\ state' \in {"IDLE", "RW1", "RW2", "RW2A", "RW3", "RW4", "RW4A", "RW5",
                       "REFRESH1", "REFRESH2", "REFRESH3", "REFRESH4", "PRECHARGE"}
        /\ trp_wait' \in BOOLEAN /\ refresh_ack' \in BOOLEAN /\ dsack' \in BOOLEAN
    BY <1>1 DEF TypeOK, Tick, FsmStep, Idle, Rw1, Rw2, Settle, Rw3, Rw4, Rw5, Refresh1,
                Refresh2, Refresh3, Refresh4, Precharge, Goto, Quiet
  <1>3. wr' \in BOOLEAN
    BY <1>1, BusIs DEF TypeOK, Tick, FsmStep, Idle, Rw1, Rw2, Settle, Rw3, Rw4, Rw5, Refresh1,
                Refresh2, Refresh3, Refresh4, Precharge, Quiet
  <1>4. ras' \subseteq Sides /\ cas' \subseteq Lanes /\ ADDR_DRAM' \in Coord
    BY <1>1, BusIs, AddrIs
       DEF TypeOK, Tick, FsmStep, Idle, Rw1, Rw2, Settle, Rw3, Rw4, Rw5, Refresh1,
           Refresh2, Refresh3, Refresh4, Precharge, Quiet, Coord
  <1>5. CAS' \subseteq Lanes
    BY <1>1, BusIs, TouchedLanes DEF Tick, SampleStep
  <1>6. /\ AS1' \in BOOLEAN /\ AS2' \in BOOLEAN /\ DS1' \in BOOLEAN /\ DS2' \in BOOLEAN
        /\ CS1' \in BOOLEAN /\ CS2' \in BOOLEAN
    BY <1>1, BusIs DEF TypeOK, Tick, SampleStep
  <1>7. refresh_request' \in BOOLEAN /\ cycle_count' \in 0 .. REFRESH_CYCLE_CNT
    BY <1>1, DramAssumption DEF TypeOK, Tick, RefreshStep
  <1>8. row' \in [Sides -> Coord]
    BY <1>1 DEF TypeOK, Tick, ChipStep
  <1>9. ph' \in 0 .. CLK_MAX - 1
    BY <1>1, CpuMoves DEF Tick
  <1> QED  BY <1>2, <1>3, <1>4, <1>5, <1>6, <1>7, <1>8, <1>9, StepMemory DEF TypeOK

LEMMA TickInv ==
    ASSUME IInv, Tick
    PROVE  IInv'
  <1>1. Moves /\ BusType'
    BY CpuMoves DEF IInv, Tick, Moves, BusType
  <1>2. Sampled' /\ SeesCycle' /\ SeesEnd' /\ Rw5Is' /\ Turn'
    BY <1>1, StepSampled, StepSees, StepEnd, StepRw5, StepTurn DEF IInv, Tick
  <1> QED  BY <1>1, <1>2, StepType, StepOutputs, StepWritten, StepMemory DEF IInv

LEMMA ResetInv ==
    ASSUME IInv, ResetStep
    PROVE  IInv'
  <1>1. TypeOK /\ bus' = NoBus /\ NoBus \in Bus
    BY NoBusType DEF IInv, ResetStep
  <1>2. TypeOK'
    <2>1. CAS' \subseteq Lanes
      BY <1>1, TouchedLanes DEF ResetStep, Bus
    <2>2. 0 \in 0 .. REFRESH_CYCLE_CNT /\ 0 \in 0 .. CLK_MAX - 1
      BY DramAssumption
    <2> QED  BY <1>1, <2>1, <2>2 DEF ResetStep, TypeOK
  <1>3. BusType' /\ Sampled' /\ SeesCycle' /\ SeesEnd' /\ Rw5Is' /\ Turn'
    BY <1>1, NoBusType DEF ResetStep, BusType, Sampled, SeesCycle, SeesEnd, Rw5Is, Turn
  <1>4. Outputs' /\ Written' /\ MemoryCorrect'
    BY DEF ResetStep, Outputs, Written, MemoryCorrect
  <1> QED  BY <1>2, <1>3, <1>4 DEF IInv

LEMMA InitInv == Init => IInv
  <1> SUFFICES ASSUME Init PROVE IInv
    OBVIOUS
  <1>1. TypeOK
    <2>1. 0 \in 0 .. REFRESH_CYCLE_CNT /\ 0 \in 0 .. CLK_MAX - 1
      BY DramAssumption
    <2> QED  BY <2>1 DEF Init, TypeOK, Coord
  <1>2. BusType /\ Sampled /\ SeesCycle /\ SeesEnd /\ Rw5Is /\ Turn
    BY NoBusType DEF Init, BusType, Sampled, SeesCycle, SeesEnd, Rw5Is, Turn
  <1>3. Outputs /\ Written /\ MemoryCorrect
    BY DEF Init, Outputs, Written, MemoryCorrect
  <1> QED  BY <1>1, <1>2, <1>3 DEF IInv

LEMMA StutterInv ==
    ASSUME IInv, UNCHANGED vars
    PROVE  IInv'
  BY DEF IInv, vars, fsmVars, sampleVars, TypeOK, BusType, Sampled, SeesCycle, SeesEnd, Rw5Is,
         Turn, Outputs, Open, Written, MemoryCorrect, InCycle

LEMMA Invariance == Spec => []IInv
  <1>1. IInv /\ [Next]_vars => IInv'
    BY TickInv, ResetInv, StutterInv DEF Next
  <1> QED  BY InitInv, <1>1, PTL DEF Spec

-----------------------------------------------------------------------------
(* THEOREM: the registers and the outputs of the controller keep their     *)
(* types (dram_controller.v, all of it).                                   *)
THEOREM TypeCorrect == Spec => []TypeOK
  <1>1. IInv => TypeOK
    BY DEF IInv
  <1> QED  BY <1>1, Invariance, PTL

(* THEOREM: memory holds what the CPU has written, byte for byte, for      *)
(* every address and kind of access, in whatever phase the two clocks and  *)
(* the refreshes fall (dram_controller.v:141-259).                         *)
THEOREM MemoryHolds == Spec => []MemoryCorrect
  <1>1. IInv => MemoryCorrect
    BY DEF IInv
  <1> QED  BY <1>1, Invariance, PTL

(* THEOREM: while the CPU takes the data of a read, the long word it asked *)
(* for is on the pins: no DSACK outlives its cycle by so much that the     *)
(* next one takes it (dram_controller.v:206-234).                          *)
THEOREM ReadsSeeMemory == Spec => []ReadSeesMemory
  <1>1. IInv => ReadSeesMemory
    <2> SUFFICES ASSUME IInv, bus.got, bus.cs, ~bus.write
                 PROVE  /\ Driving /\ ras = {bus.addr[1]} /\ cas = Lanes
                        /\ row[bus.addr[1]] = bus.addr[2] /\ ADDR_DRAM = bus.addr[3]
      BY DEF ReadSeesMemory
    <2>1. state = "RW5" /\ InCycle
      BY Answered DEF IInv
    <2>2. Open /\ ADDR_DRAM = bus.addr[3] /\ ~wr /\ cas = Lanes
      BY <2>1 DEF IInv, Outputs
    <2>3. Lanes # {}
      BY DEF Lanes
    <2> QED  BY <2>1, <2>2, <2>3 DEF Open, Driving
  <1> QED  BY <1>1, Invariance, PTL

(* THEOREM: the chips are off the data bus by the time another cycle       *)
(* begins: the early look at the data strobe of a read is early enough     *)
(* (dram_controller.v:216-230).                                            *)
THEOREM ChipsLeaveBus == Spec => []NoContention
  <1>1. IInv => NoContention
    <2> SUFFICES ASSUME IInv, Driving, bus.as
                 PROVE  bus.cs /\ ~bus.write
      BY DEF NoContention
    <2>1. state \in {"RW4A", "RW5"}
      <3>1. /\ state \notin {"IDLE", "RW1", "RW2", "REFRESH1", "REFRESH2"}
            /\ state \notin {"RW2A", "RW3", "RW4", "REFRESH4"}
            /\ state # "PRECHARGE" /\ state # "REFRESH3"
        BY DEF IInv, Driving, Outputs
      <3> QED  BY <3>1 DEF IInv, TypeOK
    <2>2. InCycle
      BY <2>1 DEF IInv, Turn, Rw5Is, Driving
    <2> QED  BY <2>1, <2>2 DEF IInv, Outputs, Driving, InCycle
  <1> QED  BY <1>1, Invariance, PTL
-----------------------------------------------------------------------------
(* How long a request can wait.                                            *)

\* Clocks to the e-th falling edge of the CPU's clock from here, at most.
Edges(e) == (e * CLK_MAX) - ph
Larger(a, b) == IF a > b THEN a ELSE b

\* Clocks until the second register shows the data strobe of the cycle.
ToData ==
    IF DS2 THEN 0 ELSE IF DS1 THEN 1 ELSE IF bus.ds THEN 2
    ELSE 2 + Edges((MaxSlow + 1) - bus.slow)
ToRw4 ==
    CASE state = "RW1" -> 4 [] state = "RW2" -> 3 [] state = "RW2A" -> 2
      [] state = "RW3" -> 1 [] OTHER -> 0

\* Clocks until RW5 ends: DSACK rises, the CPU takes it and ends the cycle,
\* and the registers see that.
Rw5Longest == (2 * CLK_MAX) + 4
ToEnd ==
    IF ~Active THEN 1 ELSE IF ~AS1 THEN 2 ELSE IF ~bus.as THEN 3
    ELSE IF bus.got THEN 3 + Edges(1) ELSE IF dsack THEN 3 + Edges(2) ELSE Rw5Longest

\* Clocks until the refresh that is wanted has been made and done with.
Left ==
    CASE state \in {"RW1", "RW2", "RW2A", "RW3", "RW4"} ->
            Larger(ToRw4, ToData) + 2 + Rw5Longest + 8
      [] state = "RW4A" -> 1 + Rw5Longest + 8
      [] state = "RW5" -> ToEnd + 8
      [] state = "PRECHARGE" -> IF refresh_request THEN 8 ELSE 1
      [] state = "IDLE" -> IF trp_wait THEN 7 ELSE 6
      [] state = "REFRESH1" -> 5
      [] state = "REFRESH2" -> 4
      [] state = "REFRESH3" -> 3
      [] OTHER -> 2

Refreshing == state \in {"REFRESH1", "REFRESH2", "REFRESH3", "REFRESH4"}
Wanted == refresh_request \/ Refreshing \/ (state = "PRECHARGE" /\ refresh_ack /\ resets = 0)

RefreshInv ==
    /\ bus.slow <= MaxSlow /\ resets \in Nat
    /\ state \in {"REFRESH2", "REFRESH3", "REFRESH4"} => refresh_ack
    /\ refresh_ack /\ resets = 0 =>
          state \in {"REFRESH2", "REFRESH3", "REFRESH4", "PRECHARGE"}
    /\ Wanted => cycle_count + Left <= REFRESH_CYCLE_CNT

-----------------------------------------------------------------------------
LEMMA Consts ==
    /\ CLK_MAX \in Nat \ {0} /\ CLK_MAX >= 2 /\ MaxSlow \in Nat /\ REFRESH_CYCLE_CNT \in Nat
  BY DramAssumption

\* What the CPU does at an edge of its clock, and between two.
LEMMA EdgeIs ==
    ASSUME TypeOK, BusType, CpuStep, bus.slow <= MaxSlow
    PROVE  /\ bus'.slow \in Nat /\ bus'.slow <= MaxSlow
           /\ \/ ph' = ph + 1 /\ bus' = bus
              \/ /\ ph' = 0
                 /\ bus.as /\ ~bus.got /\ ~bus.ds => bus'.ds \/ bus'.slow = bus.slow + 1
                 /\ bus.as /\ ~bus.got /\ bus.ds => (bus'.got <=> ~bus.cs \/ dsack)
                 /\ bus.as /\ bus.got => ~bus'.as
  <1>1. bus \in Bus /\ bus.slow \in Nat /\ bus.as \in BOOLEAN /\ bus.got \in BOOLEAN
        /\ bus.ds \in BOOLEAN /\ dsack \in BOOLEAN /\ bus.cs \in BOOLEAN
    BY DEF BusType, Bus, TypeOK
  <1>2. CASE ph' = ph + 1 /\ bus' = bus
    BY <1>1, <1>2
  <1>3. CASE ph' = 0 /\ CpuRest
    BY <1>1, <1>3 DEF CpuRest
  <1>4. CASE ph' = 0 /\ CpuStart
    <2>1. ~bus.as /\ bus'.slow = bus.slow
      BY <1>1, <1>4 DEF CpuStart, Bus
    <2> QED  BY <1>1, <1>4, <2>1
  <1>5. CASE ph' = 0 /\ CpuSample
    <2>1. bus'.slow = 0 /\ bus'.ds /\ bus'.got = (~bus.cs \/ dsack) /\ ~bus.got
      BY <1>1, <1>5 DEF CpuSample, Bus
    <2> QED  BY <1>1, <1>5, <2>1, Consts
  <1>6. CASE ph' = 0 /\ CpuSlow
    <2>1. bus'.slow = bus.slow + 1 /\ bus.slow < MaxSlow /\ ~bus.got /\ ~bus.ds
      BY <1>1, <1>6 DEF CpuSlow, Bus
    <2> QED  BY <1>1, <1>6, <2>1, Consts
  <1>7. CASE ph' = 0 /\ CpuEnd
    <2>1. bus'.slow = 0 /\ ~bus'.as /\ bus.got
      BY <1>7 DEF CpuEnd, NoBus
    <2> QED  BY <1>1, <1>7, <2>1, Consts
  <1> QED  BY <1>2, <1>3, <1>4, <1>5, <1>6, <1>7 DEF CpuStep

\* What an edge and a clock without one take off the time to an edge.
LEMMA Countdown ==
    ASSUME NEW c \in Nat \ {0}, NEW e \in Nat \ {0}, NEW p \in 0 .. c - 1
    PROVE  /\ e * c \in Nat /\ (e - 1) * c \in Nat /\ (e - 1) * c = (e * c) - c
           /\ (e * c) - p >= 1 /\ (e * c) - p \in Nat
           /\ (e * c) - (p + 1) = ((e * c) - p) - 1
           /\ ((e - 1) * c) - 0 <= ((e * c) - p) - 1
  <1>1. e * c \in Nat /\ (e - 1) * c \in Nat /\ (e - 1) * c = (e * c) - c
    OBVIOUS
  <1>2. e * c >= c
    BY <1>1
  <1> QED  BY <1>1, <1>2

\* What the registers make of the data strobe is waited for in RW4.
LEMMA DataNears ==
    ASSUME IInv, RefreshInv, Tick, state \in {"RW1", "RW2", "RW2A", "RW3", "RW4"}
    PROVE  /\ ToData \in Nat /\ ToData' \in Nat /\ ToData' <= ToData
           /\ ~DS2 => ToData' <= ToData - 1
  <1>1. /\ InCycle /\ ~bus.got /\ (bus.ds => bus'.ds) /\ (DS2' <=> DS1) /\ (DS1' <=> bus.ds)
        /\ DS2 => DS1 /\ bus.ds
    <2>1. InCycle /\ ~bus.got /\ ~dsack
      BY DEF IInv, Turn
    <2>2. Moves
      BY CpuMoves DEF IInv, Tick, Moves
    <2>3. (bus.ds => bus'.ds) /\ (DS2' <=> DS1)
      BY <2>1, <2>2, Stays DEF IInv, Tick
    <2> QED  BY <2>1, <2>3 DEF Tick, SampleStep, IInv, SeesCycle, InCycle
  <1>2. DS1 => bus.ds
    BY <1>1 DEF IInv, SeesCycle, InCycle
  <1>3. /\ bus.slow \in Nat /\ bus.slow <= MaxSlow /\ bus'.slow \in Nat /\ bus'.slow <= MaxSlow
        /\ ph \in 0 .. CLK_MAX - 1
        /\ \/ ph' = ph + 1 /\ bus' = bus
           \/ ph' = 0 /\ (~bus.ds => bus'.ds \/ bus'.slow = bus.slow + 1)
    BY <1>1, EdgeIs DEF IInv, RefreshInv, Tick, InCycle, BusType, Bus, TypeOK
  <1> DEFINE e == (MaxSlow + 1) - bus.slow
  <1>4. e \in Nat \ {0}
    BY <1>3, Consts
  <1>5. CASE bus.ds
    BY <1>1, <1>2, <1>5 DEF ToData
  <1>6. CASE ~bus.ds
    <2>1. ToData = 2 + ((e * CLK_MAX) - ph) /\ ~DS2
      BY <1>1, <1>2, <1>6 DEF ToData, Edges
    <2>2. (e * CLK_MAX) - ph >= 1 /\ (e * CLK_MAX) - ph \in Nat
      BY <1>3, <1>4, Consts, Countdown
    <2>3. CASE bus'.ds
      <3>1. ToData' = 2
        BY <1>1, <1>2, <1>6, <2>3 DEF ToData
      <3> QED  BY <2>1, <2>2, <3>1
    <2>4. CASE ~bus'.ds
      <3>1. ToData' = 2 + ((((MaxSlow + 1) - bus'.slow) * CLK_MAX) - ph')
        BY <1>1, <1>2, <1>6, <2>4 DEF ToData, Edges
      <3>2. CASE ph' = ph + 1 /\ bus' = bus
        <4>1. ToData' = 2 + ((e * CLK_MAX) - (ph + 1))
          BY <3>1, <3>2
        <4>2. (e * CLK_MAX) - (ph + 1) = ((e * CLK_MAX) - ph) - 1
          BY <1>3, <1>4, Consts, Countdown
        <4> HIDE DEF e
        <4> QED  BY <2>1, <2>2, <4>1, <4>2
      <3>3. CASE ph' = 0 /\ bus'.slow = bus.slow + 1
        <4>1. (MaxSlow + 1) - bus'.slow = e - 1
          BY <1>3, <3>3, Consts
        <4>2. ToData' = 2 + (((e - 1) * CLK_MAX) - 0)
          BY <3>1, <3>3, <4>1
        <4>3. /\ ((e - 1) * CLK_MAX) - 0 <= ((e * CLK_MAX) - ph) - 1
              /\ (e - 1) * CLK_MAX \in Nat
          BY <1>3, <1>4, Consts, Countdown
        <4> HIDE DEF e
        <4> QED  BY <2>1, <2>2, <4>2, <4>3
      <3> QED  BY <1>3, <1>6, <2>4, <3>2, <3>3
    <2> QED  BY <2>3, <2>4
  <1> QED  BY <1>5, <1>6

\* RW5 ends within the time of two edges.
LEMMA EndIs ==
    ASSUME TypeOK, BusType
    PROVE  ToEnd \in Nat /\ ToEnd >= 1 /\ ToEnd <= Rw5Longest /\ Rw5Longest \in Nat
  <1>1. ph \in 0 .. CLK_MAX - 1 /\ CLK_MAX \in Nat /\ CLK_MAX >= 2
    BY Consts DEF TypeOK
  <1>2. Edges(1) = CLK_MAX - ph /\ Edges(2) = (2 * CLK_MAX) - ph
    BY <1>1 DEF Edges
  <1> QED  BY <1>1, <1>2 DEF ToEnd, Rw5Longest

EndType == ToEnd \in Nat /\ ToEnd <= Rw5Longest
LEMMA EndNext == (TypeOK /\ BusType)' => EndType'
  <1>1. TypeOK /\ BusType => EndType
    BY EndIs DEF EndType
  <1> QED  BY <1>1, PTL

LEMMA EndNears ==
    ASSUME IInv, RefreshInv, Tick, state = "RW5", state' = "RW5"
    PROVE  ToEnd' <= ToEnd - 1
  <1>1. /\ ~Ended /\ dsack'
    BY DEF Tick, FsmStep, Idle, Rw1, Rw2, Settle, Rw3, Rw4, Rw5, Refresh1, Refresh2,
           Refresh3, Refresh4, Precharge, Goto
  <1>2. Active /\ (AS2' <=> AS1) /\ (AS1' <=> bus.as)
    BY <1>1 DEF Ended, Tick, SampleStep
  <1>3. /\ ph \in 0 .. CLK_MAX - 1 /\ CLK_MAX \in Nat /\ CLK_MAX >= 2
        /\ ph' \in 0 .. CLK_MAX - 1
    BY Consts, CpuMoves DEF TypeOK, IInv, Tick
  <1>4. CASE ~AS1
    <2>1. ToEnd = 2 /\ ToEnd' = 1
      BY <1>2, <1>4 DEF ToEnd, Active
    <2> QED  BY <2>1
  <1>5. CASE AS1 /\ ~bus.as
    <2>1. ToEnd = 3 /\ ToEnd' \in {1, 2}
      BY <1>2, <1>5 DEF ToEnd, Active
    <2> QED  BY <2>1
  <1>6. CASE AS1 /\ bus.as
    <2>1. InCycle /\ DS2 /\ DS1 /\ bus.ds /\ bus.cs
      BY <1>2, <1>6 DEF IInv, Rw5Is, SeesCycle, InCycle, Active
    <2>2. \/ ph' = ph + 1 /\ bus' = bus
          \/ /\ ph' = 0
             /\ ~bus.got => (bus'.got <=> dsack)
             /\ bus.got => ~bus'.as
      BY <1>6, <2>1, EdgeIs DEF IInv, RefreshInv, Tick
    <2>3. /\ Edges(1) = CLK_MAX - ph /\ Edges(2) = (2 * CLK_MAX) - ph
          /\ Edges(1)' = CLK_MAX - ph' /\ Edges(2)' = (2 * CLK_MAX) - ph'
      BY <1>3 DEF Edges
    <2>4. ToEnd' \in {1, 2, 3, 3 + (CLK_MAX - ph'), 3 + ((2 * CLK_MAX) - ph')}
          /\ (bus'.got => ToEnd' \in {1, 2, 3, 3 + (CLK_MAX - ph')})
          /\ (~bus'.as => ToEnd' \in {1, 2, 3})
      BY <1>1, <2>3 DEF ToEnd
    <2>5. CASE bus.got
      <3>1. ToEnd = 3 + (CLK_MAX - ph)
        BY <1>2, <1>6, <2>3, <2>5 DEF ToEnd
      <3>2. CASE ph' = ph + 1 /\ bus' = bus
        BY <1>3, <2>4, <2>5, <3>1, <3>2
      <3>3. CASE ~bus'.as
        BY <1>3, <2>4, <3>1, <3>3
      <3> QED  BY <2>2, <2>5, <3>2, <3>3
    <2>6. CASE ~bus.got /\ dsack
      <3>1. ToEnd = 3 + ((2 * CLK_MAX) - ph)
        BY <1>2, <1>6, <2>3, <2>6 DEF ToEnd
      <3>2. CASE ph' = ph + 1
        BY <1>3, <2>4, <3>1, <3>2
      <3>3. CASE ph' = 0 /\ bus'.got
        BY <1>3, <2>4, <3>1, <3>3
      <3> QED  BY <2>2, <2>6, <3>2, <3>3
    <2>7. CASE ~bus.got /\ ~dsack
      <3>1. ToEnd = (2 * CLK_MAX) + 4
        BY <1>2, <1>6, <2>3, <2>7 DEF ToEnd, Rw5Longest
      <3>2. \A x \in {1, 2, 3, 3 + (CLK_MAX - ph'), 3 + ((2 * CLK_MAX) - ph')} :
               x <= ((2 * CLK_MAX) + 4) - 1
        <4>1. /\ 1 <= ((2 * CLK_MAX) + 4) - 1 /\ 2 <= ((2 * CLK_MAX) + 4) - 1
              /\ 3 <= ((2 * CLK_MAX) + 4) - 1
          BY <1>3
        <4>2. \A c, p \in Nat :
                 /\ 3 + (c - p) <= ((2 * c) + 4) - 1
                 /\ 3 + ((2 * c) - p) <= ((2 * c) + 4) - 1
          OBVIOUS
        <4>3. ph' \in Nat
          BY <1>3
        <4> QED  BY <1>3, <4>1, <4>2, <4>3, Zenon
      <3> QED  BY <2>4, <3>1, <3>2, Zenon
    <2> QED  BY <2>5, <2>6, <2>7
  <1> QED  BY <1>4, <1>5, <1>6

-----------------------------------------------------------------------------
Longest == ((MaxSlow + 3) * CLK_MAX) + 16

\* The longest that anything can hold a refresh back is a slow write that has
\* just begun.
LEMMA LeftIs ==
    ASSUME TypeOK, BusType, bus.slow <= MaxSlow
    PROVE  Left \in Nat /\ Left >= 1 /\ Left <= Longest /\ Longest \in Nat
  <1>1. ToEnd \in Nat /\ ToEnd >= 1 /\ ToEnd <= Rw5Longest /\ Rw5Longest = (2 * CLK_MAX) + 4
        /\ Rw5Longest \in Nat
    BY EndIs DEF Rw5Longest
  <1>2. /\ bus.slow \in Nat /\ ph \in 0 .. CLK_MAX - 1
    BY DEF BusType, Bus, TypeOK
  <1>3. /\ (MaxSlow + 1) * CLK_MAX \in Nat /\ (MaxSlow + 1) * CLK_MAX >= CLK_MAX
        /\ (MaxSlow + 3) * CLK_MAX = ((MaxSlow + 1) * CLK_MAX) + (2 * CLK_MAX)
    BY Consts
  <1>4. ToData \in Nat /\ ToData <= ((MaxSlow + 1) * CLK_MAX) + 2
    <2> DEFINE e == (MaxSlow + 1) - bus.slow
    <2>1. e \in Nat \ {0} /\ e <= MaxSlow + 1
      BY <1>2, Consts
    <2>2. (e * CLK_MAX) - ph \in Nat /\ e * CLK_MAX \in Nat
      BY <1>2, <2>1, Consts, Countdown
    <2>3. e * CLK_MAX <= (MaxSlow + 1) * CLK_MAX
      BY <2>1, Consts
    <2>4. Edges(e) = (e * CLK_MAX) - ph
      BY DEF Edges
    <2> HIDE DEF e
    <2>5. Edges(e) \in Nat /\ Edges(e) <= (MaxSlow + 1) * CLK_MAX
      BY <1>2, <1>3, <2>2, <2>3, <2>4
    <2>6. ToData \in {0, 1, 2, 2 + Edges(e)}
      BY DEF ToData, e
    <2> QED  BY <1>3, <2>5, <2>6
  <1>5. ToRw4 \in 0 .. 4
    BY DEF ToRw4
  <1>6. /\ Larger(ToRw4, ToData) \in Nat
        /\ Larger(ToRw4, ToData) <= ((MaxSlow + 1) * CLK_MAX) + 2
    BY <1>3, <1>4, <1>5, Consts DEF Larger
  <1>7. Longest = (((MaxSlow + 1) * CLK_MAX) + (2 * CLK_MAX)) + 16 /\ Longest \in Nat
    BY <1>3, Consts DEF Longest
  <1>8. Left \in {Larger(ToRw4, ToData) + 2 + Rw5Longest + 8, 1 + Rw5Longest + 8, ToEnd + 8,
                  8, 7, 6, 5, 4, 3, 2, 1}
    BY DEF Left
  <1> HIDE DEF Longest
  <1> QED  BY <1>1, <1>3, <1>6, <1>7, <1>8, Consts

LeftType == Left \in Nat /\ Left <= Longest
LEMMA LeftNext == (TypeOK /\ BusType /\ bus.slow <= MaxSlow)' => LeftType'
  <1>1. TypeOK /\ BusType /\ bus.slow <= MaxSlow => LeftType
    BY LeftIs DEF LeftType
  <1> QED  BY <1>1, PTL

\* Every clock takes one off.
LEMMA LeftFalls ==
    ASSUME IInv, RefreshInv, Tick, Wanted, Wanted'
    PROVE  Left' <= Left - 1
  <1>1. TypeOK /\ BusType /\ FsmStep /\ resets' = resets
        /\ refresh_request' = (~refresh_ack /\ (cycle_count = REFRESH_CYCLE_CNT \/ refresh_request))
    BY DEF IInv, Tick, RefreshStep
  <1>2. ToEnd \in Nat /\ ToEnd >= 1 /\ Rw5Longest \in Nat
    BY <1>1, EndIs
  <1>3. ToEnd' \in Nat /\ ToEnd' <= Rw5Longest
    <2>1. TypeOK' /\ BusType'
      BY TickInv DEF IInv
    <2> QED  BY <2>1, EndNext DEF EndType, Rw5Longest
  <1>4. CASE Idle
    BY <1>1, <1>4 DEF Idle, Goto, Wanted, Refreshing, Left
  <1>5. CASE state \in {"RW1", "RW2", "RW2A", "RW3"}
    <2>1. ToData \in Nat /\ ToData' \in Nat /\ ToData' <= ToData
      BY <1>5, DataNears
    <2>2. /\ ToRw4 \in Nat /\ ToRw4' = ToRw4 - 1 /\ state' \in {"RW2", "RW2A", "RW3", "RW4"}
          /\ state' = "RW4" => ToRw4 = 1
      BY <1>1, <1>5 DEF FsmStep, Idle, Rw1, Rw2, Settle, Rw3, Rw4, Rw5, Refresh1, Refresh2,
                   Refresh3, Refresh4, Precharge, Goto, ToRw4
    <2>3. ~DS2 => ToData' <= ToData - 1
      BY <1>5, DataNears
    <2>4. DS2 => ToData = 0
      BY DEF ToData
    <2>5. Larger(ToRw4, ToData)' <= Larger(ToRw4, ToData) - 1
          /\ Larger(ToRw4, ToData) \in Nat /\ Larger(ToRw4, ToData)' \in Nat
      <3>1. ToRw4' \in Nat /\ ToRw4 >= 1
        BY <1>5, <2>2 DEF ToRw4
      <3> QED  BY <2>1, <2>2, <2>3, <2>4, <3>1 DEF Larger
    <2>6. /\ Left = Larger(ToRw4, ToData) + 2 + Rw5Longest + 8
          /\ Left' = Larger(ToRw4, ToData)' + 2 + Rw5Longest + 8
      BY <1>5, <2>2 DEF Left, Rw5Longest
    <2> QED  BY <1>2, <2>5, <2>6
  <1>6. CASE Rw4
    <2>1. /\ ToData \in Nat /\ ToData' \in Nat
          /\ ~DS2 => ToData' <= ToData - 1
      BY <1>6, DataNears DEF Rw4
    <2>2. Active
      BY <1>6, InPath DEF Rw4, InCycle, Active
    <2>3. ToRw4 = 0
      BY <1>6 DEF Rw4, ToRw4
    <2>4. Left = ToData + 2 + Rw5Longest + 8
      BY <1>6, <2>1, <2>3 DEF Rw4, Left, Larger
    <2>5. CASE DS2
      <3>1. Left' = 1 + Rw5Longest + 8
        BY <1>6, <2>2, <2>5 DEF Rw4, Goto, Left, Rw5Longest
      <3> QED  BY <1>2, <2>1, <2>4, <3>1
    <2>6. CASE ~DS2
      <3>1. state' = "RW4" /\ ToRw4' = 0
        BY <1>6, <2>2, <2>6 DEF Rw4, ToRw4
      <3>2. Left' = ToData' + 2 + Rw5Longest + 8
        BY <2>1, <3>1 DEF Left, Larger, Rw5Longest
      <3>3. \A x, y \in Nat : x <= y - 1 =>
               x + 2 + Rw5Longest + 8 <= (y + 2 + Rw5Longest + 8) - 1
        BY <1>2
      <3> QED  BY <2>1, <2>4, <2>6, <3>2, <3>3, Zenon
    <2> QED  BY <2>5, <2>6
  <1>7. CASE state = "RW4A"
    <2>1. state' = "RW5"
      BY <1>1, <1>7 DEF FsmStep, Idle, Rw1, Rw2, Settle, Rw3, Rw4, Rw5, Refresh1, Refresh2,
                   Refresh3, Refresh4, Precharge, Goto
    <2>2. Left = 1 + Rw5Longest + 8 /\ Left' = ToEnd' + 8
      BY <1>7, <2>1 DEF Left
    <2>3. \A x, y \in Nat : x <= y => x + 8 <= (1 + y + 8) - 1
      OBVIOUS
    <2>4. ToEnd' + 8 <= (1 + Rw5Longest + 8) - 1
      BY <1>2, <1>3, <2>3, Zenon
    <2> QED  BY <2>2, <2>4, Zenon
  <1>8. CASE Rw5
    <2>1. Left = ToEnd + 8
      BY <1>8 DEF Rw5, Left
    <2>2. CASE state' = "RW5"
      <3>1. Left' = ToEnd' + 8 /\ ToEnd' <= ToEnd - 1
        BY <1>8, <2>2, EndNears DEF Rw5, Left
      <3>2. \A x, y \in Nat : x <= y - 1 => x + 8 <= (y + 8) - 1
        OBVIOUS
      <3> QED  BY <1>2, <1>3, <2>1, <3>1, <3>2, Zenon
    <2>3. CASE state' = "PRECHARGE"
      <3>1. Left' \in {8, 1}
        BY <2>3 DEF Left
      <3> QED  BY <1>2, <2>1, <3>1
    <2> QED  BY <1>8, <2>2, <2>3 DEF Rw5, Goto
  <1>9. CASE Refresh1 \/ Refresh2 \/ Refresh3
    BY <1>9 DEF Refresh1, Refresh2, Refresh3, Goto, Left
  <1>10. CASE Refresh4
    <2>1. ~refresh_request'
      BY <1>1, <1>10 DEF Refresh4, RefreshInv
    <2> QED  BY <1>10, <2>1 DEF Refresh4, Goto, Left
  <1>11. CASE Precharge
    <2>1. refresh_request /\ state' = "IDLE" /\ trp_wait'
      BY <1>1, <1>11 DEF Precharge, Goto, Wanted, Refreshing
    <2> QED  BY <1>11, <2>1 DEF Precharge, Left
  <1> QED
    BY <1>1, <1>4, <1>5, <1>6, <1>7, <1>8, <1>9, <1>10, <1>11
       DEF FsmStep, Rw1, Rw2, Settle, Rw3

LEMMA RefreshTick ==
    ASSUME Longest <= REFRESH_CYCLE_CNT, IInv, RefreshInv, Tick
    PROVE  RefreshInv'
  <1>1. /\ TypeOK /\ BusType /\ FsmStep /\ resets' = resets /\ RefreshStep /\ CpuStep
        /\ cycle_count \in 0 .. REFRESH_CYCLE_CNT /\ bus.slow <= MaxSlow
    BY DEF IInv, TypeOK, Tick, RefreshInv
  <1>2. bus'.slow <= MaxSlow
    BY <1>1, EdgeIs
  <1>3. /\ state' \in {"REFRESH2", "REFRESH3", "REFRESH4"} => refresh_ack'
        /\ refresh_ack' /\ resets' = 0 =>
              state' \in {"REFRESH2", "REFRESH3", "REFRESH4", "PRECHARGE"}
    BY <1>1 DEF RefreshInv, FsmStep, Idle, Rw1, Rw2, Settle, Rw3, Rw4, Rw5, Refresh1, Refresh2,
                Refresh3, Refresh4, Precharge, Goto
  <1>4. Left \in Nat /\ Left >= 1
    BY <1>1, LeftIs
  <1>5. Left' \in Nat /\ Left' <= Longest /\ Longest \in Nat
    <2>1. TypeOK' /\ BusType'
      BY TickInv DEF IInv
    <2>2. Longest \in Nat
      BY <1>1, LeftIs
    <2> QED  BY <1>2, <2>1, <2>2, LeftNext DEF LeftType, Longest
  <1>6. ASSUME Wanted', Wanted
        PROVE  cycle_count' + Left' <= REFRESH_CYCLE_CNT
    <2>1. Left' <= Left - 1
      BY <1>6, LeftFalls
    <2>2. cycle_count + Left <= REFRESH_CYCLE_CNT
      BY <1>6 DEF RefreshInv
    <2>3. cycle_count # REFRESH_CYCLE_CNT
      BY <1>1, <1>4, <2>2, Consts
    <2>4. cycle_count' = cycle_count + 1
      BY <1>1, <2>3 DEF RefreshStep
    <2>5. cycle_count \in Nat /\ cycle_count' \in Nat
      BY <1>1, <2>4, Consts
    <2>6. \A x \in Nat : x <= Left - 1 => (cycle_count + 1) + x <= REFRESH_CYCLE_CNT
      BY <1>4, <2>2, <2>5, Consts
    <2> QED  BY <1>5, <2>1, <2>4, <2>6, Zenon
  <1>7. ASSUME Wanted', ~Wanted
        PROVE  cycle_count' + Left' <= REFRESH_CYCLE_CNT
    <2>1. refresh_request'
      BY <1>1, <1>7 DEF Wanted, Refreshing, RefreshInv, FsmStep, Idle, Rw1, Rw2, Settle, Rw3,
            Rw4, Rw5, Refresh1, Refresh2, Refresh3, Refresh4, Precharge, Goto
    <2>2. cycle_count' = 0
      BY <1>1, <1>7, <2>1 DEF RefreshStep, Wanted
    <2>3. \A x \in Nat : x <= Longest => 0 + x <= REFRESH_CYCLE_CNT
      BY <1>5, Consts
    <2> QED  BY <1>5, <2>2, <2>3, Zenon
  <1>8. resets' \in Nat
    BY <1>1 DEF RefreshInv
  <1> QED  BY <1>2, <1>3, <1>6, <1>7, <1>8 DEF RefreshInv

LEMMA RefreshReset ==
    ASSUME Longest <= REFRESH_CYCLE_CNT, IInv, RefreshInv, ResetStep
    PROVE  RefreshInv'
  <1>1. bus'.slow = 0 /\ state' = "IDLE" /\ ~trp_wait' /\ cycle_count' = 0
    BY DEF ResetStep, NoBus
  <1>2. resets' # 0 /\ resets' \in Nat
    BY DEF RefreshInv, ResetStep
  <1>3. Left' = 6
    BY <1>1 DEF Left
  <1>4. Longest >= 6 /\ Longest \in Nat
    <2>1. (MaxSlow + 3) * CLK_MAX \in Nat
      BY Consts
    <2> QED  BY <2>1 DEF Longest
  <1> QED  BY <1>1, <1>2, <1>3, <1>4, Consts DEF RefreshInv

LEMMA RefreshInit ==
    ASSUME Init
    PROVE  RefreshInv
  <1>1. bus.slow = 0
    BY DEF Init, NoBus
  <1> QED  BY <1>1, Consts DEF Init, RefreshInv, Wanted, Refreshing

LEMMA RefreshStutter ==
    ASSUME RefreshInv, UNCHANGED vars
    PROVE  RefreshInv'
  <1>1. Left' = Left /\ Wanted' = Wanted
    BY DEF vars, fsmVars, sampleVars, Left, Larger, ToRw4, ToData, ToEnd, Rw5Longest, Edges,
           Active, Wanted, Refreshing
  <1> QED  BY <1>1 DEF vars, fsmVars, sampleVars, RefreshInv

(* THEOREM: a refresh is made and done with when the next one falls due,   *)
(* for every interval that leaves room for the longest cycle of the CPU: a *)
(* write that holds its data strobe back for MaxSlow clocks                *)
(* (dram_controller.v:55-72, 141-259).                                     *)
THEOREM RefreshKept ==
    ASSUME ((MaxSlow + 3) * CLK_MAX) + 16 <= REFRESH_CYCLE_CNT
    PROVE  Spec => []NoRefreshLost
  <1>1. Longest <= REFRESH_CYCLE_CNT
    BY DEF Longest
  <1>2. Init => IInv /\ RefreshInv
    BY InitInv, RefreshInit
  <1>3. (IInv /\ RefreshInv) /\ [Next]_vars => (IInv /\ RefreshInv)'
    BY <1>1, TickInv, ResetInv, StutterInv, RefreshTick, RefreshReset, RefreshStutter DEF Next
  <1>4. IInv /\ RefreshInv => NoRefreshLost
    <2> SUFFICES ASSUME IInv, RefreshInv, cycle_count = REFRESH_CYCLE_CNT
                 PROVE  /\ ~refresh_request
                        /\ refresh_ack => resets > 0 /\ state \notin {"REFRESH2", "REFRESH3", "REFRESH4"}
      BY DEF NoRefreshLost
    <2>1. Left \in Nat /\ Left >= 1
      BY LeftIs DEF IInv, RefreshInv
    <2>2. ~Wanted
      BY <2>1, Consts DEF RefreshInv
    <2> QED  BY <2>2 DEF Wanted, Refreshing, RefreshInv
  <1> QED  BY <1>2, <1>3, <1>4, PTL DEF Spec
=============================================================================
