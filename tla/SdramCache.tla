----------------------------- MODULE SdramCache -----------------------------
(***************************************************************************)
(* sdram_cache.v: the direct-mapped read cache between the 68000 bus and   *)
(* the SDRAM adapter.  One action is one branch of its state machine, at   *)
(* one clock edge; every register gets its next value from the values      *)
(* before the edge.                                                        *)
(*                                                                         *)
(* valid, tag_ram and data_ram are one function: a line that is not valid  *)
(* is None.  rdata is None while dtack is low, where nobody samples it.    *)
(***************************************************************************)
EXTENDS M68kBus

VARIABLES
    cstate,               \* `state'
    idx, reqtag, wsel,    \* the latched request
    lines,                \* valid, tag_ram and data_ram
    q,                    \* valid_q, tag_q and data_q: the line under lookup
    rdata, dtack,         \* to the bus
    mem_cs                \* to the adapter: mem_cs_n is low

cacheVars == <<cstate, idx, reqtag, wsel, lines, q, rdata, dtack, mem_cs>>

CacheLine  == [tag : Tags, data : Line]
CacheState == {"IDLE", "LOOK", "FILL", "WRTH", "ACK"}

ASSUME CacheAssumption == None \notin CacheLine

CacheTypeOK ==
    /\ cstate \in CacheState
    /\ idx \in Idxs /\ reqtag \in Tags /\ wsel \in Sel
    /\ lines \in [Idxs -> CacheLine \cup {None}]
    /\ q \in CacheLine \cup {None}
    /\ rdata \in Word \cup {None}
    /\ dtack \in BOOLEAN /\ mem_cs \in BOOLEAN

CacheInit ==
    /\ cstate = "IDLE"
    /\ idx = NoCycle.line[2] /\ reqtag = NoCycle.line[1] /\ wsel = 0
    /\ lines = [i \in Idxs |-> None]
    /\ q = None /\ rdata = None
    /\ dtack = FALSE /\ mem_cs = FALSE

Start == Selected /\ Strobed

\* The block RAM is read at every edge, at the address under lookup.
Lookup == q' = lines[IF cstate = "IDLE" THEN Idx ELSE idx]

\* HitMutant ignores the tag.
HitMutant == q # None
Hit == q # None /\ q.tag = reqtag

CacheIdle ==
    /\ cstate = "IDLE" /\ ~Start
    /\ mem_cs' = FALSE /\ dtack' = FALSE
    /\ UNCHANGED <<cstate, idx, reqtag, wsel, lines, rdata>>

\* The mutant keeps the word of the last request.
LatchMutant == idx' = Idx /\ reqtag' = Tag /\ UNCHANGED wsel
Latch == idx' = Idx /\ reqtag' = Tag /\ wsel' = bus.word

CacheRead ==
    /\ cstate = "IDLE" /\ Start /\ ~bus.write
    /\ Latch
    /\ cstate' = "LOOK"
    /\ mem_cs' = FALSE /\ dtack' = FALSE
    /\ UNCHANGED <<lines, rdata>>

CacheWrite ==
    /\ cstate = "IDLE" /\ Start /\ bus.write
    /\ Latch
    /\ cstate' = "WRTH"
    /\ mem_cs' = TRUE /\ dtack' = FALSE
    /\ UNCHANGED <<lines, rdata>>

CacheHit ==
    /\ cstate = "LOOK" /\ Hit
    /\ rdata' = q.data[wsel]
    /\ dtack' = TRUE
    /\ cstate' = "ACK"
    /\ UNCHANGED <<idx, reqtag, wsel, lines, mem_cs>>

CacheMiss ==
    /\ cstate = "LOOK" /\ ~Hit
    /\ mem_cs' = TRUE
    /\ cstate' = "FILL"
    /\ UNCHANGED <<idx, reqtag, wsel, lines, rdata, dtack>>

\* The mutant keeps the adapter selected until the CPU ends its cycle.
CacheFillMutant(mdtack, word, line) ==
    /\ cstate = "FILL"
    /\ IF mdtack
       THEN /\ lines' = [lines EXCEPT ![idx] = [tag |-> reqtag, data |-> line]]
            /\ rdata' = word
            /\ dtack' = TRUE
            /\ cstate' = "ACK"
            /\ UNCHANGED mem_cs
       ELSE UNCHANGED <<lines, rdata, mem_cs, dtack, cstate>>
    /\ UNCHANGED <<idx, reqtag, wsel>>

\* `mdtack' with the word and the line of the adapter.
CacheFill(mdtack, word, line) ==
    /\ cstate = "FILL"
    /\ IF mdtack
       THEN /\ lines' = [lines EXCEPT ![idx] = [tag |-> reqtag, data |-> line]]
            /\ rdata' = word
            /\ mem_cs' = FALSE
            /\ dtack' = TRUE
            /\ cstate' = "ACK"
       ELSE UNCHANGED <<lines, rdata, mem_cs, dtack, cstate>>
    /\ UNCHANGED <<idx, reqtag, wsel>>

\* The mutant does not drop the line.
CacheWriteThroughMutant(mdtack) ==
    /\ cstate = "WRTH"
    /\ IF mdtack
       THEN mem_cs' = FALSE /\ dtack' = TRUE /\ cstate' = "ACK"
       ELSE UNCHANGED <<mem_cs, dtack, cstate>>
    /\ UNCHANGED <<idx, reqtag, wsel, lines, rdata>>

CacheWriteThrough(mdtack) ==
    /\ cstate = "WRTH"
    /\ lines' = [lines EXCEPT ![idx] = None]
    /\ IF mdtack
       THEN mem_cs' = FALSE /\ dtack' = TRUE /\ cstate' = "ACK"
       ELSE UNCHANGED <<mem_cs, dtack, cstate>>
    /\ UNCHANGED <<idx, reqtag, wsel, rdata>>

CacheAck ==
    /\ cstate = "ACK"
    /\ IF Selected
       THEN UNCHANGED <<dtack, rdata, cstate>>
       ELSE dtack' = FALSE /\ rdata' = None /\ cstate' = "IDLE"
    /\ UNCHANGED <<idx, reqtag, wsel, lines, mem_cs>>

CacheStep(mdtack, word, line) ==
    /\ Lookup
    /\ \/ CacheIdle \/ CacheRead \/ CacheWrite \/ CacheHit \/ CacheMiss
       \/ CacheFill(mdtack, word, line) \/ CacheWriteThrough(mdtack) \/ CacheAck
=============================================================================
