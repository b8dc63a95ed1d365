------------------------------ MODULE MemPath ------------------------------
(***************************************************************************)
(* The memory path of mackerel_f.v: 68000 bus, cache, adapter and SDRAM,   *)
(* all of them at every edge of clk_soc.  The address, the data and the    *)
(* strobes reach the adapter straight from the bus; only its chip select   *)
(* comes from the cache.                                                   *)
(***************************************************************************)
EXTENDS SdramCache, SdramController

vars == <<bus, cacheVars, adapterVars, coreVars>>

TypeOK == bus \in Cycle /\ CacheTypeOK /\ ControllerTypeOK

Init == BusInit /\ CacheInit /\ ControllerInit

\* What terminates a cycle: DTACKn of the SDRAM is the cache's, the other
\* slaves terminate theirs when they like.
Done == Selected => dtack

Tick ==
    /\ CpuStep(Done)
    /\ CacheStep(mdtack, mrdata, mrdata32)
    /\ AdapterStep(mem_cs)
    /\ CoreStep

Spec == Init /\ [][Tick]_vars
FairSpec == Spec /\ WF_vars(Tick)

-----------------------------------------------------------------------------
(* A valid line of the cache holds what the SDRAM holds at its address, at *)
(* every clock: fills race with nothing and a write drops the line before  *)
(* its first byte reaches the SDRAM (sdram_cache.v:3-5).                   *)
Coherent ==
    \A i \in Idxs : lines[i] # None => lines[i].data = mem[<<lines[i].tag, i>>]

(* Whenever the cache acknowledges a read, its data is the word the SDRAM  *)
(* holds at the address on the bus, whether it hit or filled.              *)
ReadsSeeMemory ==
    dtack /\ Selected /\ ~bus.write => rdata = mem[bus.line][bus.word]

(* A write is over for the CPU only when each byte it strobed is in the    *)
(* SDRAM: the cache is write-through (sdram_cache.v:1).                    *)
WritesLand ==
    [][bus.write /\ Selected /\ Strobed /\ bus'.sel = "none"
         => \A l \in bus.ds : mem[bus.line][bus.word][l] = bus.data[l]]_vars

-----------------------------------------------------------------------------
(* The path implements a word memory.  A request exists while the cycle    *)
(* strobes data; the lanes still to be written follow from how far the     *)
(* cache and the adapter have come.                                        *)
InFlight(c) == IF c.cmd = "wr" THEN {c.lane} ELSE {}

AdapterTodo ==
    InFlight(ctrl) \cup InFlight(core) \cup (IF need_second THEN {"l"} ELSE {})

Todo ==
    IF ~(Selected /\ bus.write) THEN {}
    ELSE CASE cstate = "IDLE" -> bus.ds
           [] cstate = "WRTH" /\ astate \in {"S_IDLE", "S_REF"} -> bus.ds
           [] cstate = "WRTH" /\ astate = "S_WR" -> AdapterTodo
           [] OTHER -> {}

Asked ==
    IF Start
    THEN [write |-> bus.write, line |-> bus.line, word |-> bus.word,
          lanes |-> bus.ds, data |-> bus.data]
    ELSE None

Replied == IF dtack /\ Start /\ ~bus.write THEN rdata ELSE None

Memory == INSTANCE BusMemory WITH
    ram <- mem, req <- Asked, todo <- Todo, reply <- Replied

ASSUME RequestAssumption == None \notin Memory!Request

(* Every behaviour of the path is one of the word memory of BusMemory.     *)
ImplementsMemory == Memory!Spec
=============================================================================
