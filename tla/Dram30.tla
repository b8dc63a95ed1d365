------------------------------- MODULE Dram30 -------------------------------
(***************************************************************************)
(* mackerel-30/dram_controller.v: two sides of dynamic memory behind the   *)
(* bus of the 68030.  The controller runs at about twice the clock of the  *)
(* CPU and samples the strobes through two registers; it answers with      *)
(* DSACK, which it withdraws only some clocks after the strobes.           *)
(*                                                                         *)
(* The CPU and the memory chips are external.  A step is one clock of the  *)
(* controller; the falling edge of the CPU's clock, where the CPU acts, is *)
(* there every CLK_MIN to CLK_MAX of them.                                 *)
(***************************************************************************)
EXTENDS Naturals

CONSTANTS
    REFRESH_CYCLE_CNT,
    CLK_MIN, CLK_MAX,  \* controller clocks to one clock of the CPU
    Addrs,             \* what the program touches, <<side, row, column>>
    Kinds,             \* sizes and offsets it uses, <<SIZ1 SIZ0, ADDR[1:0]>>
    Byte,              \* what a byte can hold
    MaxSlow,           \* bound: CPU clocks a slow write holds back its data strobe
    MaxResets          \* bound: resets

Sides == {0, 1}
Coord == {0, 1}        \* a row, or a column
Lanes == 0 .. 3        \* CAS0_n .. CAS3_n; lane 3 has the byte at offset 0
Sizes == 0 .. 3        \* SIZ1 SIZ0: 0 is a long word, else the bytes
Offsets == 0 .. 3

ASSUME DramAssumption ==
    /\ REFRESH_CYCLE_CNT \in Nat
    /\ CLK_MIN \in Nat /\ CLK_MAX \in Nat /\ 2 <= CLK_MIN /\ CLK_MIN <= CLK_MAX
    /\ Addrs # {} /\ Addrs \subseteq Sides \X Coord \X Coord /\ Kinds \subseteq Sizes \X Offsets
    /\ Byte # {} /\ MaxSlow \in Nat /\ MaxResets \in Nat

VARIABLES
    state, trp_wait,
    refresh_request, refresh_ack, cycle_count,
    AS1, AS2, DS1, DS2, CS1, CS2,      \* active high here
    CAS,                               \* the registered lane table
    ras, cas, wr, ADDR_DRAM, dsack,    \* the outputs, active high
    bus, ph,                           \* external: the CPU, its clock
    row, mem,                          \* external: the chips
    promised,                          \* history: what the CPU has written
    resets                             \* bound: how many resets there were

sampleVars == <<AS1, AS2, DS1, DS2, CS1, CS2, CAS>>
fsmVars == <<state, trp_wait, refresh_ack, ras, cas, wr, ADDR_DRAM, dsack>>
vars == <<fsmVars, refresh_request, cycle_count, sampleVars, bus, ph, row, mem,
          promised, resets>>

Memory == [Sides \X Coord \X Coord -> [Lanes -> Byte]]

-----------------------------------------------------------------------------
(* The lane table, from the size and the offset.                           *)

Table == [
    k \in Sizes \X Offsets |->
      CASE k = <<1, 0>> -> {3}       [] k = <<1, 1>> -> {2}
        [] k = <<1, 2>> -> {1}       [] k = <<1, 3>> -> {0}
        [] k = <<2, 0>> -> {3, 2}    [] k = <<2, 1>> -> {2, 1}
        [] k = <<2, 2>> -> {1, 0}    [] k = <<2, 3>> -> {0}
        [] k = <<3, 0>> -> {3, 2, 1} [] k = <<3, 1>> -> {2, 1, 0}
        [] k = <<3, 2>> -> {1, 0}    [] k = <<3, 3>> -> {0}
        [] k = <<0, 0>> -> Lanes     [] k = <<0, 1>> -> {2, 1, 0}
        [] k = <<0, 2>> -> {1, 0}    [] k = <<0, 3>> -> {0}]

\* What it has to be: the bytes of the operand from the offset to the end
\* of the long word.
Touched(k) ==
    LET bytes == IF k[1] = 0 THEN 4 ELSE k[1]
    IN {l \in Lanes : k[2] <= 3 - l /\ 3 - l < k[2] + bytes}

(* For every size and offset the table strobes the bytes of the operand    *)
(* that lie in the addressed long word, and no others (Table 7-4 of the    *)
(* processor manual, dram_controller.v:87-122).                            *)
LaneTable == \A k \in Sizes \X Offsets : Table[k] = Touched(k)

-----------------------------------------------------------------------------
NoBus == [as |-> FALSE, ds |-> FALSE, cs |-> FALSE, write |-> FALSE, got |-> FALSE, slow |-> 0,
          addr |-> CHOOSE a \in Addrs : TRUE, kind |-> <<0, 0>>,
          data |-> CHOOSE b \in Byte : TRUE]

Init ==
    /\ state = "IDLE" /\ trp_wait = FALSE
    /\ refresh_request = FALSE /\ refresh_ack = FALSE /\ cycle_count = 0
    /\ AS1 = FALSE /\ AS2 = FALSE /\ DS1 = FALSE /\ DS2 = FALSE
    /\ CS1 = FALSE /\ CS2 = FALSE /\ CAS = {}
    /\ ras = {} /\ cas = {} /\ wr = FALSE /\ ADDR_DRAM = 0 /\ dsack = FALSE
    /\ bus = NoBus /\ ph = 0
    /\ row = [s \in Sides |-> 0]
    /\ mem \in Memory /\ promised = mem /\ resets = 0

-----------------------------------------------------------------------------
(* The CPU: an edge of its clock starts a cycle, strobes the data of a     *)
(* write and samples DSACK, or ends the cycle one clock after DSACK.       *)

CpuRest == ~bus.as /\ UNCHANGED <<bus, promised>>

CpuStart ==
    /\ ~bus.as
    /\ \/ \E a \in Addrs, k \in Kinds, w \in BOOLEAN, b \in Byte :
             bus' = [bus EXCEPT !.as = TRUE, !.ds = ~w, !.cs = TRUE, !.write = w,
                                !.addr = a, !.kind = k, !.data = b]
       \/ bus' = [bus EXCEPT !.as = TRUE, !.ds = TRUE]
    /\ UNCHANGED promised

CpuSample ==
    /\ bus.as /\ ~bus.got
    /\ bus' = [bus EXCEPT !.ds = TRUE, !.got = ~bus.cs \/ dsack, !.slow = 0]
    /\ UNCHANGED promised

\* "RMW write half / slow write".
CpuSlow ==
    /\ bus.as /\ ~bus.got /\ ~bus.ds /\ bus.slow < MaxSlow
    /\ bus' = [bus EXCEPT !.slow = @ + 1]
    /\ UNCHANGED promised

CpuEnd ==
    /\ bus.got
    /\ bus' = NoBus
    /\ promised' =
         IF bus.cs /\ bus.write
         THEN [promised EXCEPT ![bus.addr] =
                [l \in Lanes |-> IF l \in Touched(bus.kind) THEN bus.data ELSE @[l]]]
         ELSE promised

CpuStep ==
    IF ph + 1 < CLK_MIN
    THEN ph' = ph + 1 /\ UNCHANGED <<bus, promised>>
    ELSE \/ ph' = 0 /\ (CpuRest \/ CpuStart \/ CpuSample \/ CpuSlow \/ CpuEnd)
         \/ ph + 1 < CLK_MAX /\ ph' = ph + 1 /\ UNCHANGED <<bus, promised>>

-----------------------------------------------------------------------------
(* What every clock does: refresh generator, input registers, lane table.  *)

RefreshStep ==
    /\ cycle_count' = IF cycle_count = REFRESH_CYCLE_CNT THEN 0 ELSE cycle_count + 1
    /\ refresh_request' = (~refresh_ack /\ (cycle_count = REFRESH_CYCLE_CNT \/ refresh_request))

SampleStep ==
    /\ AS1' = bus.as /\ AS2' = AS1
    /\ DS1' = bus.ds /\ DS2' = DS1
    /\ CS1' = bus.cs /\ CS2' = CS1
    /\ CAS' = Table[bus.kind]

-----------------------------------------------------------------------------
(* The state machine.                                                      *)

Active == AS2 /\ CS2
Goto(s) == state' = s
Quiet == UNCHANGED <<ras, cas, wr, ADDR_DRAM, dsack>>

\* The mutant does not consume the flag.
IdleMutant ==
    /\ state = "IDLE"
    /\ Goto(IF trp_wait THEN "IDLE" ELSE IF refresh_request THEN "REFRESH1"
            ELSE IF Active THEN "RW1" ELSE "IDLE")
    /\ Quiet /\ UNCHANGED <<trp_wait, refresh_ack>>

Idle ==
    /\ state = "IDLE"
    /\ trp_wait' = FALSE
    /\ Goto(IF trp_wait THEN "IDLE" ELSE IF refresh_request THEN "REFRESH1"
            ELSE IF Active THEN "RW1" ELSE "IDLE")
    /\ Quiet /\ UNCHANGED refresh_ack

Rw1 ==
    /\ state = "RW1" /\ Goto("RW2")
    /\ ADDR_DRAM' = bus.addr[2]
    /\ UNCHANGED <<trp_wait, refresh_ack, ras, cas, wr, dsack>>

Rw2 ==
    /\ state = "RW2" /\ Goto("RW2A")
    /\ ras' = {bus.addr[1]}
    /\ UNCHANGED <<trp_wait, refresh_ack, cas, wr, ADDR_DRAM, dsack>>

Settle ==
    /\ \/ state = "RW2A" /\ Goto("RW3")
       \/ state = "RW4A" /\ Goto("RW5")
    /\ Quiet /\ UNCHANGED <<trp_wait, refresh_ack>>

Rw3 ==
    /\ state = "RW3" /\ Goto("RW4")
    /\ ADDR_DRAM' = bus.addr[3] /\ wr' = bus.write
    /\ UNCHANGED <<trp_wait, refresh_ack, ras, cas, dsack>>

\* The mutant does not wait for the data strobe of a write.
Rw4Mutant ==
    /\ state = "RW4"
    /\ IF ~Active THEN Goto("PRECHARGE") /\ UNCHANGED cas
       ELSE Goto("RW4A") /\ cas' = IF wr THEN CAS ELSE Lanes
    /\ UNCHANGED <<trp_wait, refresh_ack, ras, wr, ADDR_DRAM, dsack>>

\* A read strobes every lane, for the cache of the CPU.
Rw4 ==
    /\ state = "RW4"
    /\ IF ~Active THEN Goto("PRECHARGE") /\ UNCHANGED cas
       ELSE IF DS2 THEN Goto("RW4A") /\ cas' = IF wr THEN CAS ELSE Lanes
       ELSE UNCHANGED <<state, cas>>
    /\ UNCHANGED <<trp_wait, refresh_ack, ras, wr, ADDR_DRAM, dsack>>

\* The mutant takes the data strobe of a read after both registers.
EndedLate == ~Active \/ ~DS2

\* The data strobe of a read is taken one register early.
Ended == ~Active \/ (IF wr THEN ~DS2 ELSE ~DS1)

\* The mutant leaves it to the precharge to withdraw DSACK.
Rw5Mutant ==
    /\ state = "RW5"
    /\ IF Ended
       THEN Goto("PRECHARGE") /\ cas' = (IF wr THEN cas ELSE {}) /\ UNCHANGED dsack
       ELSE dsack' = TRUE /\ UNCHANGED <<state, cas>>
    /\ UNCHANGED <<trp_wait, refresh_ack, ras, wr, ADDR_DRAM>>

Rw5 ==
    /\ state = "RW5"
    /\ IF Ended
       THEN /\ Goto("PRECHARGE") /\ dsack' = FALSE
            /\ cas' = IF wr THEN cas ELSE {}
       ELSE dsack' = TRUE /\ UNCHANGED <<state, cas>>
    /\ UNCHANGED <<trp_wait, refresh_ack, ras, wr, ADDR_DRAM>>

\* CAS before RAS.
Refresh1 ==
    /\ state = "REFRESH1" /\ Goto("REFRESH2")
    /\ refresh_ack' = TRUE /\ cas' = Lanes /\ wr' = FALSE
    /\ UNCHANGED <<trp_wait, ras, ADDR_DRAM, dsack>>

Refresh2 ==
    /\ state = "REFRESH2" /\ Goto("REFRESH3")
    /\ ras' = Sides
    /\ UNCHANGED <<trp_wait, refresh_ack, cas, wr, ADDR_DRAM, dsack>>

Refresh3 ==
    /\ state = "REFRESH3" /\ Goto("REFRESH4")
    /\ cas' = {}
    /\ UNCHANGED <<trp_wait, refresh_ack, ras, wr, ADDR_DRAM, dsack>>

Refresh4 ==
    /\ state = "REFRESH4" /\ Goto("PRECHARGE")
    /\ ras' = {}
    /\ UNCHANGED <<trp_wait, refresh_ack, cas, wr, ADDR_DRAM, dsack>>

\* The mutant leaves the acknowledge of a refresh.
PrechargeMutant ==
    /\ state = "PRECHARGE" /\ Goto("IDLE")
    /\ ras' = {} /\ cas' = {} /\ ADDR_DRAM' = 0 /\ dsack' = FALSE
    /\ trp_wait' = TRUE
    /\ UNCHANGED <<wr, refresh_ack>>

Precharge ==
    /\ state = "PRECHARGE" /\ Goto("IDLE")
    /\ refresh_ack' = FALSE
    /\ ras' = {} /\ cas' = {} /\ ADDR_DRAM' = 0 /\ dsack' = FALSE
    /\ trp_wait' = TRUE
    /\ UNCHANGED wr

FsmStep ==
    \/ Idle \/ Rw1 \/ Rw2 \/ Settle \/ Rw3 \/ Rw4 \/ Rw5
    \/ Refresh1 \/ Refresh2 \/ Refresh3 \/ Refresh4 \/ Precharge

-----------------------------------------------------------------------------
(* The chips: a side latches its row when its RAS falls; a lane is written *)
(* when its CAS falls while RAS and WE are low.                            *)

\* Before the data strobe the CPU drives anything.
ChipStep ==
    /\ row' = [s \in Sides |-> IF s \in ras' \ ras THEN ADDR_DRAM ELSE row[s]]
    /\ LET written == {<<s, row[s], ADDR_DRAM>> : s \in ras}
           lanes == cas' \ cas IN
       IF wr /\ lanes # {}
       THEN \E d \in IF bus.ds THEN {bus.data} ELSE Byte :
              mem' = [a \in DOMAIN mem |-> IF a \in written
                        THEN [l \in Lanes |-> IF l \in lanes THEN d ELSE mem[a][l]]
                        ELSE mem[a]]
       ELSE UNCHANGED mem

Tick ==
    /\ CpuStep /\ RefreshStep /\ SampleStep /\ FsmStep /\ ChipStep
    /\ UNCHANGED resets

(* RST_n, which is low for many clocks, so that the CPU has left the bus   *)
(* and the input registers have seen it.  Neither refresh_ack nor a        *)
(* request is reset.  What a write that it cuts short leaves is anything.  *)
ResetStep ==
    /\ resets < MaxResets /\ resets' = resets + 1
    /\ state' = "IDLE" /\ trp_wait' = FALSE
    /\ ras' = {} /\ cas' = {} /\ wr' = FALSE /\ dsack' = FALSE
    /\ cycle_count' = 0
    /\ AS1' = FALSE /\ AS2' = FALSE /\ DS1' = FALSE /\ DS2' = FALSE
    /\ CS1' = FALSE /\ CS2' = FALSE /\ CAS' = Table[NoBus.kind]
    /\ bus' = NoBus /\ ph' = 0 /\ promised' = mem
    /\ UNCHANGED <<refresh_request, refresh_ack, ADDR_DRAM, row, mem>>

Next == Tick \/ ResetStep

Spec == Init /\ [][Next]_vars

\* The oscillators run.
FairSpec == Spec /\ WF_vars(Tick)

-----------------------------------------------------------------------------
TypeOK ==
    /\ state \in {"IDLE", "RW1", "RW2", "RW2A", "RW3", "RW4", "RW4A", "RW5",
                  "REFRESH1", "REFRESH2", "REFRESH3", "REFRESH4", "PRECHARGE"}
    /\ {trp_wait, refresh_request, refresh_ack, wr, dsack} \subseteq BOOLEAN
    /\ {AS1, AS2, DS1, DS2, CS1, CS2} \subseteq BOOLEAN
    /\ cycle_count \in 0 .. REFRESH_CYCLE_CNT
    /\ ras \subseteq Sides /\ cas \subseteq Lanes /\ CAS \subseteq Lanes
    /\ ADDR_DRAM \in Coord /\ row \in [Sides -> Coord]
    /\ ph \in 0 .. CLK_MAX - 1
    /\ mem \in Memory /\ promised \in Memory

(* Memory holds what the CPU has written, byte for byte: a write is there  *)
(* when its cycle has ended, in the lanes its size and offset select and   *)
(* in no other, at its own row and column and nowhere else.                *)
MemoryCorrect ==
    \A a \in DOMAIN mem, l \in Lanes :
        \/ mem[a][l] = promised[a][l]
        \/ /\ bus.cs /\ bus.write /\ a = bus.addr /\ l \in Touched(bus.kind)
           /\ mem[a][l] = bus.data

Driving == ras # {} /\ cas # {} /\ ~wr /\ state \notin {"REFRESH3", "REFRESH4"}

(* While the CPU takes the data of a read, the addressed long word, and    *)
(* nothing else, is on the pins: DSACK was that of this cycle, not of the  *)
(* one before, and CAS is still low.                                       *)
ReadSeesMemory ==
    bus.got /\ bus.cs /\ ~bus.write =>
        /\ Driving /\ ras = {bus.addr[1]} /\ cas = Lanes
        /\ row[bus.addr[1]] = bus.addr[2] /\ ADDR_DRAM = bus.addr[3]

(* "release CAS (stop the SIMM driving the data bus) the moment the CPU    *)
(* ends the data phase" (dram_controller.v:227-228): no other cycle finds  *)
(* the chips on the bus.                                                   *)
NoContention == Driving /\ bus.as => bus.cs /\ ~bus.write

(* When a refresh falls due, the one before has been made and done with.   *)
(* The exception is a reset in the middle of a refresh: the acknowledge it *)
(* leaves clears every request, until a bus cycle ends in PRECHARGE.       *)
NoRefreshLost ==
    cycle_count = REFRESH_CYCLE_CNT =>
        /\ ~refresh_request
        /\ refresh_ack => resets > 0 /\ state \notin {"REFRESH2", "REFRESH3", "REFRESH4"}

(* Every cycle of the CPU ends.                                            *)
Ends == bus.as ~> ~bus.as
=============================================================================
