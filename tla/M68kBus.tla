------------------------------ MODULE M68kBus ------------------------------
(***************************************************************************)
(* The 68000 bus of Mackerel-F as its memory path sees it: the master is   *)
(* the fx68k core (an external core), the decode of the low 8 MB is        *)
(* src/pld/mackerel-f/mackerel_f.v.                                        *)
(*                                                                         *)
(* The CPU runs in the clock domain of the memory path, so a bus value is  *)
(* held for at least one clock edge: every action here is one edge, and    *)
(* the bus changes only on some of them.                                   *)
(*                                                                         *)
(* `bus' is everything the master drives.  An address is a line (tag and   *)
(* index of the cache, addr[22:2]) and a word of it (addr[1]); `ds' is the *)
(* set of data strobes that are asserted, `held' the lane of a             *)
(* read-modify-write (TAS) whose address strobe is still low after its     *)
(* read half.                                                              *)
(***************************************************************************)
EXTENDS Naturals

CONSTANTS
    Tags, Idxs,     \* the values of addr[22:11] and of addr[10:2]
    Byte,           \* what a byte lane can hold
    Addrs,          \* the words the program touches, <<line, word>>
    Targets,        \* who answers a cycle: see Target below
    RMW,            \* whether the program executes TAS
    None            \* no value: a register nobody may sample

Sel   == {0, 1}
Lanes == {"u", "l"}
Word  == [Lanes -> Byte]
Line  == [Sel -> Word]
LineAddr == Tags \X Idxs

(***************************************************************************)
(* "sdram": cs_sdram_n is low.  "device": one of the slaves whose DTACKn   *)
(* is their select (ROM, BSRAM, GPIO, INTC, timer, WS2812).  "bridge": the *)
(* UART or an SPI slot, which answers in time and only in the upper lane   *)
(* (its ds_n is UDSn).  "unmapped": no select is low.  "iack": CPU space,  *)
(* terminated by VPAn.                                                     *)
(***************************************************************************)
Target == {"sdram", "device", "bridge", "unmapped", "iack"}

ASSUME BusAssumption ==
    /\ Tags # {} /\ Idxs # {} /\ Byte # {}
    /\ Addrs \subseteq LineAddr \X Sel
    /\ "sdram" \in Targets /\ Targets \subseteq Target
    /\ RMW \in BOOLEAN
    /\ None \notin Word \cup Line

Cycle == [sel : Target \cup {"none"}, write : BOOLEAN, ds : SUBSET Lanes,
          line : LineAddr, word : Sel, data : Word, held : SUBSET Lanes]

VARIABLE bus

\* The address strobe is high: nothing samples the address or the data.
NoCycle ==
    [sel |-> "none", write |-> FALSE, ds |-> {},
     line |-> CHOOSE a \in LineAddr : TRUE, word |-> 0,
     data |-> CHOOSE w \in Word : TRUE, held |-> {}]

ASn == bus.sel = "none"
\* cs_sdram_n low, and `start' of both state machines behind it.
Selected == bus.sel = "sdram"
Strobed  == bus.ds # {}
Tag == bus.line[1]
Idx == bus.line[2]

BusInit == bus = NoCycle

-----------------------------------------------------------------------------
(* The master.  Reads strobe the data lanes together with the address;     *)
(* writes drive the data and strobe the lanes later.                       *)

CpuHold == UNCHANGED bus

CpuRead ==
    /\ ASn
    /\ \E s \in Targets, a \in Addrs, d \in (SUBSET Lanes) \ {{}} :
          bus' = [NoCycle EXCEPT !.sel = s, !.line = a[1], !.word = a[2], !.ds = d]

CpuWrite ==
    /\ ASn
    /\ \E s \in Targets \ {"iack"}, a \in Addrs :
          bus' = [NoCycle EXCEPT !.sel = s, !.write = TRUE,
                                 !.line = a[1], !.word = a[2]]

\* The write strobes: a TAS writes the one lane it has read.
CpuDrive ==
    /\ bus.write /\ ~Strobed
    /\ \E v \in Word, d \in (SUBSET Lanes) \ {{}} :
          /\ bus.held # {} => d = bus.held
          /\ bus' = [bus EXCEPT !.ds = d, !.data = v]

\* The end of a cycle that `done' (DTACKn, VPAn or BERRn low) terminates.
CpuEnd(done) ==
    /\ ~ASn /\ Strobed /\ done
    /\ bus' = NoCycle

\* A TAS keeps the address strobe low between its read and its write.
CpuTurn(done) ==
    /\ RMW /\ Selected /\ ~bus.write /\ done
    /\ \E l \in Lanes : bus.ds = {l}
    /\ bus' = [bus EXCEPT !.write = TRUE, !.ds = {}, !.held = bus.ds]

CpuStep(done) ==
    CpuHold \/ CpuRead \/ CpuWrite \/ CpuDrive \/ CpuEnd(done) \/ CpuTurn(done)
=============================================================================
