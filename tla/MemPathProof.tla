---------------------------- MODULE MemPathProof ----------------------------
(***************************************************************************)
(* The memory path of Mackerel-F: the cache is coherent, reads return what *)
(* the SDRAM holds, and writes reach it, for every set of tags, indices    *)
(* and bytes, every refresh interval and every latency of the core.        *)
(*                                                                         *)
(* The inductive invariant IInv ties the two state machines together.      *)
(* While the cache waits for the adapter the bus cannot change, because    *)
(* the CPU has no DTACK; while the adapter works the cache waits; and no   *)
(* write is under way unless the line it hits has already been dropped.    *)
(***************************************************************************)
EXTENDS MemPath, TLAPS

CpuInv ==
    /\ ASn => bus = NoCycle
    /\ ~ASn /\ ~bus.write => Strobed
    /\ bus.held # {} => RMW /\ Selected /\ bus.write /\ cstate = "ACK"

\* The request the cache has latched is the one on the bus.
Serving ==
    /\ Start
    /\ idx = Idx /\ reqtag = Tag /\ wsel = bus.word
    /\ (bus.write <=> cstate = "WRTH")

CacheInv ==
    /\ (dtack <=> cstate = "ACK")
    /\ (mem_cs <=> cstate \in {"FILL", "WRTH"})
    /\ cstate \in {"LOOK", "FILL", "WRTH"} => Serving
    /\ cstate = "LOOK" => q = lines[idx]

Quiet == ctrl.cmd = "none" /\ core.cmd = "none"

\* The read of the line on the bus: on the port, in the core, or answered.
Reading ==
    \/ ctrl.cmd = "rd" /\ ctrl.line = bus.line /\ core.cmd = "none"
    \/ ctrl.cmd = "none" /\ core.cmd = "rd" /\ core.line = bus.line
    \/ Quiet /\ dout32 = mem[bus.line]

\* A byte of the write on the bus: on the port, in the core, or written.
ByteOf(c) ==
    /\ c.cmd = "wr" /\ c.line = bus.line /\ c.word = bus.word
    /\ c.lane \in bus.ds /\ c.din = bus.data[c.lane]

Writing ==
    /\ need_second => "l" \in bus.ds
    /\ \/ ByteOf(ctrl) /\ core.cmd = "none"
       \/ ctrl.cmd = "none" /\ ByteOf(core)
       \/ Quiet

AdapterInv ==
    /\ (mdtack <=> astate = "S_ACK")
    /\ astate = "S_IDLE" => ctrl.cmd = "none" /\ core.cmd \in {"none", "init"}
    /\ astate = "S_REF" => \/ ctrl.cmd = "refresh" /\ core.cmd = "none"
                           \/ ctrl.cmd = "none" /\ core.cmd \in {"none", "refresh"}
    /\ astate = "S_RD" => cstate = "FILL" /\ Reading
    /\ astate = "S_WR" => cstate = "WRTH" /\ lines[idx] = None /\ Writing
    /\ astate = "S_ACK" =>
          /\ Quiet
          /\ \/ /\ cstate = "FILL"
                /\ mrdata32 = mem[bus.line] /\ mrdata = mem[bus.line][bus.word]
             \/ cstate \in {"WRTH", "ACK"}

IInv == TypeOK /\ CpuInv /\ CacheInv /\ AdapterInv /\ Coherent /\ ReadsSeeMemory

-----------------------------------------------------------------------------
LEMMA LanesFact == "u" \in Lanes /\ "l" \in Lanes
  BY DEF Lanes

LEMMA IdleCycle ==
    /\ NoCycle \in Cycle
    /\ NoCycle.sel = "none" /\ NoCycle.write = FALSE /\ NoCycle.ds = {}
    /\ NoCycle.held = {} /\ NoCycle.word = 0
    /\ NoCycle.line \in LineAddr /\ NoCycle.data \in Word
  <1>1. \E a \in LineAddr : TRUE
    <2>1. PICK t \in Tags, i \in Idxs : TRUE
      BY BusAssumption DEF BusAssumption
    <2>2. <<t, i>> \in LineAddr
      BY <2>1 DEF LineAddr
    <2>3. QED BY <2>2
  <1>2. \E w \in Word : TRUE
    <2>1. PICK b \in Byte : TRUE
      BY BusAssumption DEF BusAssumption
    <2>2. [l \in Lanes |-> b] \in Word
      BY <2>1 DEF Word
    <2>3. QED BY <2>2
  <1>3. (CHOOSE a \in LineAddr : TRUE) \in LineAddr
    BY <1>1
  <1>4. (CHOOSE w \in Word : TRUE) \in Word
    BY <1>2
  <1>5. QED
    BY <1>3, <1>4 DEF NoCycle, Cycle, Sel, Lanes, Target

\* Every step of the CPU leaves a cycle on the bus.
LEMMA CpuType ==
    ASSUME bus \in Cycle, NEW STATE done, CpuStep(done)
    PROVE  bus' \in Cycle
  <1>1. CASE CpuHold
    BY <1>1 DEF CpuHold
  <1>2. CASE CpuRead
    <2>1. PICK s \in Targets, a \in Addrs, d \in (SUBSET Lanes) \ {{}} :
             bus' = [NoCycle EXCEPT !.sel = s, !.line = a[1], !.word = a[2], !.ds = d]
      BY <1>2 DEF CpuRead
    <2>2. s \in Target /\ a[1] \in LineAddr /\ a[2] \in Sel
      BY BusAssumption DEF BusAssumption
    <2>3. QED
      BY <2>1, <2>2, IdleCycle DEF Cycle
  <1>3. CASE CpuWrite
    <2>1. PICK s \in Targets, a \in Addrs :
             bus' = [NoCycle EXCEPT !.sel = s, !.write = TRUE, !.line = a[1], !.word = a[2]]
      BY <1>3 DEF CpuWrite
    <2>2. s \in Target /\ a[1] \in LineAddr /\ a[2] \in Sel
      BY BusAssumption DEF BusAssumption
    <2>3. QED
      BY <2>1, <2>2, IdleCycle DEF Cycle
  <1>4. CASE CpuDrive
    BY <1>4 DEF CpuDrive, Cycle
  <1>5. CASE CpuEnd(done)
    BY <1>5, IdleCycle DEF CpuEnd
  <1>6. CASE CpuTurn(done)
    BY <1>6 DEF CpuTurn, Cycle
  <1>7. QED
    BY <1>1, <1>2, <1>3, <1>4, <1>5, <1>6 DEF CpuStep

\* A CPU whose access to the SDRAM is not acknowledged keeps the bus as it is.
LEMMA BusStable ==
    ASSUME Start, ~dtack, CpuStep(Done)
    PROVE  bus' = bus
  BY DEF Start, Strobed, Selected, CpuStep, CpuHold, CpuRead, CpuWrite, CpuDrive,
         CpuEnd, CpuTurn, Done, ASn

\* What the CPU may do to a bus that satisfies CpuInv.
LEMMA CpuStepInv ==
    ASSUME TypeOK, CpuInv, CacheInv, CpuStep(Done)
    PROVE  /\ bus' \in Cycle
           /\ ASn' => bus' = NoCycle
           /\ ~ASn' /\ ~bus'.write => Strobed'
           /\ bus'.held # {} => RMW /\ Selected' /\ bus'.write
           /\ bus'.held # {} => Selected /\ cstate = "ACK"
           /\ Selected /\ bus'.sel # "none" => /\ Selected'
                                             /\ bus'.line = bus.line
                                             /\ bus'.word = bus.word
           /\ Selected /\ Selected' /\ ~bus'.write => bus' = bus
  <1> USE DEF ASn, Strobed, Selected
  <1>1. bus' \in Cycle
    BY CpuType DEF TypeOK
  <1>2. CASE CpuHold
    BY <1>1, <1>2 DEF CpuHold, CpuInv
  <1>3. CASE CpuRead
    <2>1. PICK s \in Targets, a \in Addrs, d \in (SUBSET Lanes) \ {{}} :
             bus' = [NoCycle EXCEPT !.sel = s, !.line = a[1], !.word = a[2], !.ds = d]
      BY <1>3 DEF CpuRead
    <2>2. s # "none" /\ bus.sel = "none"
      BY <1>3, BusAssumption DEF BusAssumption, CpuRead, Target
    <2>3. /\ bus'.sel = s /\ bus'.ds = d /\ d # {}
          /\ bus'.held = {} /\ bus'.write = FALSE
      BY <2>1, IdleCycle DEF Cycle
    <2>4. QED
      BY <1>1, <2>2, <2>3
  <1>4. CASE CpuWrite
    <2>1. PICK s \in Targets \ {"iack"}, a \in Addrs :
             bus' = [NoCycle EXCEPT !.sel = s, !.write = TRUE,
                                    !.line = a[1], !.word = a[2]]
      BY <1>4 DEF CpuWrite
    <2>2. s # "none" /\ bus.sel = "none"
      BY <1>4, BusAssumption DEF BusAssumption, CpuWrite, Target
    <2>3. bus'.sel = s /\ bus'.held = {} /\ bus'.write = TRUE
      BY <2>1, IdleCycle DEF Cycle
    <2>4. QED
      BY <1>1, <2>2, <2>3
  <1>5. CASE CpuDrive
    <2>1. bus \in Cycle /\ bus.write /\ bus.sel # "none"
      BY <1>5, IdleCycle DEF CpuDrive, CpuInv, TypeOK
    <2>2. PICK v \in Word, d \in (SUBSET Lanes) \ {{}} :
             bus' = [bus EXCEPT !.ds = d, !.data = v]
      BY <1>5 DEF CpuDrive
    <2>3. /\ bus'.sel = bus.sel /\ bus'.write = bus.write /\ bus'.held = bus.held
          /\ bus'.line = bus.line /\ bus'.word = bus.word
      BY <2>1, <2>2 DEF Cycle
    <2>4. QED
      BY <1>1, <2>1, <2>3 DEF CpuInv
  <1>6. CASE CpuEnd(Done)
    BY <1>1, <1>6, IdleCycle DEF CpuEnd
  <1>7. CASE CpuTurn(Done)
    BY <1>1, <1>7 DEF CpuTurn, CpuInv, Cycle, TypeOK, Done, CacheInv
  <1>8. QED
    BY <1>2, <1>3, <1>4, <1>5, <1>6, <1>7 DEF CpuStep

-----------------------------------------------------------------------------
LEMMA InitInv == Init => IInv
  <1> SUFFICES ASSUME Init PROVE IInv
    OBVIOUS
  <1>1. bus = NoCycle /\ ASn /\ ~Selected /\ bus.held = {}
    BY IdleCycle DEF Init, BusInit, ASn, Selected
  <1>2. CacheTypeOK
    BY IdleCycle DEF Init, CacheInit, CacheTypeOK, CacheState, Sel, LineAddr
  <1>3. ControllerTypeOK
    <2>1. NoCommand \in Command
      BY IdleCycle DEF NoCommand, Command, Sel, Lanes, Word
    <2>2. [NoCommand EXCEPT !.cmd = "init"] \in Command
      BY <2>1 DEF Command
    <2>3. 0 \in 0 .. REFRESH_INT /\ 0 \in 0 .. MaxLatency
      BY ControllerAssumption DEF ControllerAssumption
    <2>4. QED
      BY <2>1, <2>2, <2>3 DEF Init, ControllerInit, ControllerTypeOK, AdapterState
  <1>4. CpuInv
    BY <1>1 DEF CpuInv
  <1>5. CacheInv
    BY DEF Init, CacheInit, CacheInv
  <1>6. AdapterInv
    BY DEF Init, ControllerInit, AdapterInv, NoCommand
  <1>7. Coherent
    BY DEF Init, CacheInit, Coherent
  <1>8. ReadsSeeMemory
    BY DEF Init, CacheInit, ReadsSeeMemory
  <1>9. QED
    BY <1>1, <1>2, <1>3, <1>4, <1>5, <1>6, <1>7, <1>8, IdleCycle DEF IInv, TypeOK

-----------------------------------------------------------------------------
(* The types of the next state.                                            *)

LEMMA CoreType ==
    ASSUME ControllerTypeOK, CoreStep
    PROVE  /\ core' \in Command /\ dout32' \in Line \cup {None}
           /\ latency' \in 0 .. MaxLatency
           /\ mem' \in [LineAddr -> Line]
  <1> USE ControllerAssumption DEF ControllerAssumption
  <1>0. NoCommand \in Command
    BY IdleCycle DEF NoCommand, Command, Sel, Lanes, Word
  <1>1. CASE CoreAccept
    BY <1>1 DEF CoreAccept, ControllerTypeOK
  <1>2. CASE CoreWork
    BY <1>2 DEF CoreWork, ControllerTypeOK
  <1>3. CASE CoreDone
    <2>1. mem' \in [LineAddr -> Line]
      BY <1>3 DEF CoreDone, ControllerTypeOK, Command, Line, Word
    <2>2. QED
      BY <1>0, <1>3, <2>1 DEF CoreDone, ControllerTypeOK, Command
  <1>4. QED
    BY <1>1, <1>2, <1>3 DEF CoreStep

LEMMA TimerType ==
    ASSUME ControllerTypeOK, NEW issued \in BOOLEAN, RefreshTimer(issued)
    PROVE  /\ ref_cnt' \in 0 .. REFRESH_INT
           /\ ref_due' \in BOOLEAN /\ init_seen' \in BOOLEAN
  BY ControllerAssumption DEF ControllerAssumption, ControllerTypeOK, RefreshTimer, busy

LEMMA AdapterType ==
    ASSUME TypeOK, NEW STATE cs, AdapterStep(cs)
    PROVE  /\ astate' \in AdapterState /\ ctrl' \in Command
           /\ need_second' \in BOOLEAN /\ mdtack' \in BOOLEAN
           /\ mrdata' \in Word \cup {None} /\ mrdata32' \in Line \cup {None}
           /\ ref_cnt' \in 0 .. REFRESH_INT
           /\ ref_due' \in BOOLEAN /\ init_seen' \in BOOLEAN
  <1> USE DEF TypeOK
  <1>1. /\ astate \in AdapterState /\ ctrl \in Command
        /\ need_second \in BOOLEAN /\ mdtack \in BOOLEAN
        /\ mrdata \in Word \cup {None} /\ mrdata32 \in Line \cup {None}
        /\ dout32 \in Line \cup {None}
    BY DEF ControllerTypeOK
  <1>2. NoCommand \in Command
    BY IdleCycle DEF NoCommand, Command, Sel, Lanes, Word
  <1>3. /\ bus.line \in LineAddr /\ bus.word \in Sel /\ bus.data \in Word
        /\ bus.data["u"] \in Byte /\ bus.data["l"] \in Byte
    BY LanesFact DEF Cycle, Word
  <1>4. ASSUME NEW issued \in BOOLEAN, RefreshTimer(issued)
        PROVE  /\ ref_cnt' \in 0 .. REFRESH_INT
               /\ ref_due' \in BOOLEAN /\ init_seen' \in BOOLEAN
    BY <1>4, TimerType
  <1>5. CASE AIdle(cs)
    BY <1>1, <1>2, <1>4, <1>5 DEF AIdle, NoIssue
  <1>6. CASE ARefresh
    <2>1. [NoCommand EXCEPT !.cmd = "refresh"] \in Command
      BY <1>2 DEF Command
    <2>2. QED
      BY <1>1, <1>4, <1>6, <2>1 DEF ARefresh, AdapterState
  <1>7. CASE ARead(cs)
    <2>1. ctrl' \in Command
      BY <1>2, <1>3, <1>7, LanesFact DEF ARead, Issue, Command
    <2>2. QED
      BY <1>1, <1>4, <1>7, <2>1 DEF ARead, AdapterState
  <1>8. CASE AWrite(cs)
    <2>1. ctrl' \in Command
      BY <1>3, <1>8, LanesFact DEF AWrite, Issue, Command
    <2>2. need_second' \in BOOLEAN
      <3>1. CASE "u" \in bus.ds
        <4>1. need_second' = ("l" \in bus.ds)
          BY <1>8, <3>1 DEF AWrite
        <4>2. ("l" \in bus.ds) \in BOOLEAN
          OBVIOUS
        <4>3. QED BY <4>1, <4>2
      <3>2. CASE "u" \notin bus.ds
        BY <1>8, <3>2 DEF AWrite
      <3>3. QED BY <3>1, <3>2
    <2>3. QED
      BY <1>1, <1>4, <1>8, <2>1, <2>2 DEF AWrite, AdapterState
  <1>9. CASE ASrd
    <2>1. mrdata' \in Word \cup {None} /\ mrdata32' \in Line \cup {None}
      BY <1>1, <1>3, <1>9 DEF ASrd, Finished, Line
    <2>2. QED
      BY <1>1, <1>2, <1>4, <1>9, <2>1 DEF ASrd, Finished, NoIssue, AdapterState
  <1>10. CASE ASwr
    <2>1. ctrl' \in Command
      BY <1>2, <1>3, <1>10, LanesFact DEF ASwr, Finished, NoIssue, Issue, Command
    <2>2. QED
      BY <1>1, <1>4, <1>10, <2>1 DEF ASwr, Finished, AdapterState
  <1>11. CASE ASref
    BY <1>1, <1>2, <1>4, <1>11 DEF ASref, Finished, NoIssue, AdapterState
  <1>12. CASE ASack(cs)
    BY <1>1, <1>2, <1>4, <1>12 DEF ASack, NoIssue, AdapterState
  <1>13. QED
    BY <1>5, <1>6, <1>7, <1>8, <1>9, <1>10, <1>11, <1>12 DEF AdapterStep

LEMMA CacheType ==
    ASSUME TypeOK, CacheInv, AdapterInv, CacheStep(mdtack, mrdata, mrdata32)
    PROVE  CacheTypeOK'
  <1>1. CacheTypeOK
    BY DEF TypeOK
  <1>2. Idx \in Idxs /\ Tag \in Tags /\ bus.word \in Sel /\ bus.line \in LineAddr
    BY DEF TypeOK, Cycle, Idx, Tag, LineAddr
  <1>3. q' \in CacheLine \cup {None}
    BY <1>1, <1>2 DEF CacheStep, Lookup, CacheTypeOK
  <1>4. CASE CacheIdle
    BY <1>1, <1>3, <1>4 DEF CacheIdle, CacheTypeOK
  <1>5. CASE CacheRead
    BY <1>1, <1>2, <1>3, <1>5 DEF CacheRead, Latch, CacheTypeOK, CacheState
  <1>6. CASE CacheWrite
    BY <1>1, <1>2, <1>3, <1>6 DEF CacheWrite, Latch, CacheTypeOK, CacheState
  <1>7. CASE CacheHit
    <2>1. q \in CacheLine
      BY <1>1, <1>7 DEF CacheHit, Hit, CacheTypeOK
    <2>2. rdata' \in Word
      BY <1>1, <1>7, <2>1 DEF CacheHit, CacheTypeOK, CacheLine, Line
    <2>3. QED
      BY <1>1, <1>3, <1>7, <2>2 DEF CacheHit, CacheTypeOK, CacheState
  <1>8. CASE CacheMiss
    BY <1>1, <1>3, <1>8 DEF CacheMiss, CacheTypeOK, CacheState
  <1>9. CASE CacheFill(mdtack, mrdata, mrdata32)
    <2>1. CASE mdtack
      <3>1. mrdata32 = mem[bus.line] /\ mrdata = mem[bus.line][bus.word]
        BY <1>9, <2>1 DEF CacheFill, AdapterInv
      <3>2. mrdata32 \in Line /\ mrdata \in Word
        BY <1>2, <3>1 DEF TypeOK, ControllerTypeOK, Line
      <3>3. [tag |-> reqtag, data |-> mrdata32] \in CacheLine
        BY <1>1, <3>2 DEF CacheTypeOK, CacheLine
      <3>4. lines' \in [Idxs -> CacheLine \cup {None}]
        BY <1>1, <1>9, <2>1, <3>3 DEF CacheFill, CacheTypeOK
      <3>5. QED
        BY <1>1, <1>3, <1>9, <2>1, <3>2, <3>4 DEF CacheFill, CacheTypeOK, CacheState
    <2>2. CASE ~mdtack
      BY <1>1, <1>3, <1>9, <2>2 DEF CacheFill, CacheTypeOK
    <2>3. QED
      BY <2>1, <2>2
  <1>10. CASE CacheWriteThrough(mdtack)
    BY <1>1, <1>3, <1>10 DEF CacheWriteThrough, CacheTypeOK, CacheState
  <1>11. CASE CacheAck
    BY <1>1, <1>3, <1>11 DEF CacheAck, CacheTypeOK, CacheState
  <1>12. QED
    BY <1>4, <1>5, <1>6, <1>7, <1>8, <1>9, <1>10, <1>11 DEF CacheStep

-----------------------------------------------------------------------------
(* The bus while the two state machines work.                              *)

LEMMA BusHeld ==
    ASSUME IInv, CpuStep(Done),
           (Start /\ cstate # "ACK") \/ cstate \in {"LOOK", "FILL", "WRTH"}
    PROVE  Start /\ ~dtack /\ bus' = bus
  <1>1. Start /\ ~dtack
    BY DEF IInv, CacheInv, Serving
  <1>2. QED
    BY <1>1, BusStable

LEMMA CacheInvStep ==
    ASSUME IInv, CpuStep(Done), CacheStep(mdtack, mrdata, mrdata32), AdapterStep(mem_cs)
    PROVE  CacheInv'
  <1>1. TypeOK /\ CpuInv /\ CacheInv /\ AdapterInv
    BY DEF IInv
  <1>2. Lookup
    BY DEF CacheStep
  <1>3. dtack \in BOOLEAN /\ mem_cs \in BOOLEAN
    BY <1>1 DEF TypeOK, CacheTypeOK
  <1>4. CASE CacheIdle
    BY <1>1, <1>3, <1>4 DEF CacheIdle, CacheInv
  <1>5. CASE CacheRead
    <2>1. bus' = bus
      BY <1>5, BusHeld DEF CacheRead
    <2>2. Serving'
      BY <1>5, <2>1 DEF CacheRead, Latch, Serving, Start, Selected, Strobed, Idx, Tag
    <2>3. q' = lines'[idx']
      BY <1>2, <1>5 DEF CacheRead, Lookup, Latch
    <2>4. QED
      BY <1>5, <2>2, <2>3 DEF CacheRead, CacheInv
  <1>6. CASE CacheWrite
    <2>1. bus' = bus
      BY <1>6, BusHeld DEF CacheWrite
    <2>2. Serving'
      BY <1>6, <2>1 DEF CacheWrite, Latch, Serving, Start, Selected, Strobed, Idx, Tag
    <2>3. QED
      BY <1>6, <2>2 DEF CacheWrite, CacheInv
  <1>7. CASE CacheHit
    BY <1>1, <1>7 DEF CacheHit, CacheInv
  <1>8. CASE CacheMiss
    <2>1. bus' = bus
      BY <1>8, BusHeld DEF CacheMiss
    <2>2. Serving'
      BY <1>1, <1>8, <2>1 DEF CacheMiss, CacheInv, Serving, Start, Selected, Strobed, Idx, Tag
    <2>3. QED
      BY <1>1, <1>8, <2>2 DEF CacheMiss, CacheInv
  <1>9. CASE CacheFill(mdtack, mrdata, mrdata32)
    <2>1. bus' = bus
      BY <1>9, BusHeld DEF CacheFill
    <2>2. CASE mdtack
      BY <1>9, <2>2 DEF CacheFill, CacheInv
    <2>3. CASE ~mdtack
      <3>1. Serving'
        BY <1>1, <1>9, <2>1, <2>3
        DEF CacheFill, CacheInv, Serving, Start, Selected, Strobed, Idx, Tag
      <3>2. QED
        BY <1>1, <1>9, <2>3, <3>1 DEF CacheFill, CacheInv
    <2>4. QED
      BY <2>2, <2>3
  <1>10. CASE CacheWriteThrough(mdtack)
    <2>1. bus' = bus
      BY <1>10, BusHeld DEF CacheWriteThrough
    <2>2. CASE mdtack
      BY <1>10, <2>2 DEF CacheWriteThrough, CacheInv
    <2>3. CASE ~mdtack
      <3>1. Serving'
        BY <1>1, <1>10, <2>1, <2>3
        DEF CacheWriteThrough, CacheInv, Serving, Start, Selected, Strobed, Idx, Tag
      <3>2. QED
        BY <1>1, <1>10, <2>3, <3>1 DEF CacheWriteThrough, CacheInv
    <2>4. QED
      BY <2>2, <2>3
  <1>11. CASE CacheAck
    BY <1>1, <1>11 DEF CacheAck, CacheInv
  <1>12. QED
    BY <1>4, <1>5, <1>6, <1>7, <1>8, <1>9, <1>10, <1>11 DEF CacheStep

LEMMA CpuInvStep ==
    ASSUME IInv, CpuStep(Done), CacheStep(mdtack, mrdata, mrdata32)
    PROVE  CpuInv'
  <1>1. /\ bus' \in Cycle
        /\ ASn' => bus' = NoCycle
        /\ ~ASn' /\ ~bus'.write => Strobed'
        /\ bus'.held # {} => RMW /\ Selected' /\ bus'.write
        /\ bus'.held # {} => Selected /\ cstate = "ACK"
    BY CpuStepInv DEF IInv
  <1>2. Selected /\ cstate = "ACK" => cstate' = "ACK"
    BY DEF CacheStep, CacheIdle, CacheRead, CacheWrite, CacheHit, CacheMiss, CacheFill,
           CacheWriteThrough, CacheAck
  <1>3. (NoCycle)' = NoCycle
    BY DEF NoCycle
  <1>4. QED
    BY <1>1, <1>2, <1>3 DEF CpuInv

\* What the core does, by the command it holds.
LEMMA CoreEffect ==
    ASSUME CoreStep
    PROVE  /\ core.cmd = "none" => core' = ctrl /\ mem' = mem
           /\ core.cmd # "none" => core' = core \/ core'.cmd = "none"
           /\ core.cmd # "wr" => mem' = mem
           /\ core.cmd = "rd" /\ core' # core => dout32' = mem[core.line]
  BY DEF CoreStep, CoreAccept, CoreWork, CoreDone, busy, NoCommand

LEMMA AdapterInvStep ==
    ASSUME IInv, CpuStep(Done), CacheStep(mdtack, mrdata, mrdata32),
           AdapterStep(mem_cs), CoreStep
    PROVE  AdapterInv'
  <1>1. TypeOK /\ CpuInv /\ CacheInv /\ AdapterInv
    BY DEF IInv
  <1>2. /\ core.cmd = "none" => core' = ctrl /\ mem' = mem
        /\ core.cmd # "none" => core' = core \/ core'.cmd = "none"
        /\ core.cmd # "wr" => mem' = mem
        /\ core.cmd = "rd" /\ core' # core => dout32' = mem[core.line]
    BY CoreEffect
  <1>3. NoIssue => ctrl'.cmd = "none"
    BY DEF NoIssue, NoCommand
  <1>4. CASE AIdle(mem_cs)
    BY <1>1, <1>2, <1>3, <1>4 DEF AIdle, AdapterInv, Ready, busy
  <1>5. CASE ARefresh
    <2>1. ctrl'.cmd = "refresh"
      BY <1>5 DEF ARefresh, NoCommand
    <2>2. QED
      BY <1>1, <1>2, <1>5, <2>1 DEF ARefresh, AdapterInv, Ready, busy
  <1>6. CASE ARead(mem_cs)
    <2>1. mem_cs /\ cstate = "FILL"
      BY <1>1, <1>6 DEF ARead, Requested, CacheInv, Serving
    <2>2. ~mdtack /\ bus' = bus
      BY <1>1, <1>6, <2>1, BusHeld DEF ARead, AdapterInv
    <2>3. cstate' = "FILL"
      BY <2>1, <2>2 DEF CacheStep, CacheIdle, CacheRead, CacheWrite, CacheHit, CacheMiss,
         CacheFill, CacheWriteThrough, CacheAck
    <2>4. ctrl'.cmd = "rd" /\ ctrl'.line = bus.line /\ core'.cmd = "none"
      BY <1>1, <1>2, <1>6 DEF ARead, Issue, Ready, busy, AdapterInv
    <2>5. QED
      BY <1>1, <1>6, <2>2, <2>3, <2>4 DEF ARead, AdapterInv, Reading
  <1>7. CASE AWrite(mem_cs)
    <2>1. mem_cs /\ cstate = "WRTH"
      BY <1>1, <1>7 DEF AWrite, Requested, CacheInv, Serving
    <2>2. ~mdtack /\ bus' = bus
      BY <1>1, <1>7, <2>1, BusHeld DEF AWrite, AdapterInv
    <2>3. cstate' = "WRTH" /\ lines' = [lines EXCEPT ![idx] = None] /\ idx' = idx
      BY <2>1, <2>2 DEF CacheStep, CacheIdle, CacheRead, CacheWrite, CacheHit, CacheMiss,
         CacheFill, CacheWriteThrough, CacheAck
    <2>4. lines'[idx'] = None
      BY <1>1, <2>3 DEF TypeOK, CacheTypeOK
    <2>5. ByteOf(ctrl)' /\ (need_second' => "l" \in bus.ds)
      <3>1. bus.ds \subseteq Lanes /\ bus.ds # {}
        BY <1>1, <1>7 DEF AWrite, Requested, Strobed, TypeOK, Cycle
      <3>2. CASE "u" \in bus.ds
        <4>1. need_second' = ("l" \in bus.ds)
          BY <1>7, <3>2 DEF AWrite
        <4>2. ByteOf(ctrl)'
          BY <1>7, <2>2, <3>2 DEF AWrite, Issue, ByteOf
        <4>3. QED BY <4>1, <4>2
      <3>3. CASE "u" \notin bus.ds
        BY <1>7, <2>2, <3>1, <3>3 DEF AWrite, Issue, ByteOf, Lanes
      <3>4. QED BY <3>2, <3>3
    <2>6. core'.cmd = "none"
      BY <1>1, <1>2, <1>7 DEF AWrite, Ready, busy, AdapterInv
    <2>7. QED
      BY <1>1, <1>7, <2>2, <2>3, <2>4, <2>5, <2>6 DEF AWrite, AdapterInv, Writing
  <1>8. CASE ASrd
    <2>1. cstate = "FILL" /\ Reading /\ ~mdtack
      BY <1>1, <1>8 DEF ASrd, Finished, AdapterInv
    <2>2. bus' = bus
      BY <2>1, BusHeld
    <2>3. cstate' = "FILL"
      BY <2>1, <2>2 DEF CacheStep, CacheIdle, CacheRead, CacheWrite, CacheHit, CacheMiss,
         CacheFill, CacheWriteThrough, CacheAck
    <2>4. ctrl'.cmd = "none"
      BY <1>3, <1>8 DEF ASrd, Finished
    <2>5. mem' = mem
      BY <1>2, <2>1 DEF Reading, Quiet
    <2>6. CASE ctrl.cmd # "rd" /\ ~busy
      <3>1. Quiet /\ dout32 = mem[bus.line]
        BY <2>1, <2>6 DEF Reading, Quiet, busy
      <3>2. dout32 \in Line /\ dout32 # None
        BY <1>1, <3>1, BusAssumption
        DEF BusAssumption, TypeOK, ControllerTypeOK, Cycle
      <3>3. core'.cmd = "none"
        BY <1>2, <3>1 DEF Quiet
      <3>4. QED
        BY <1>8, <2>2, <2>3, <2>4, <2>5, <2>6, <3>1, <3>2, <3>3
        DEF ASrd, Finished, AdapterInv, Quiet
    <2>7. CASE ctrl.cmd = "rd" \/ busy
      <3>1. Reading'
        BY <1>2, <2>1, <2>2, <2>4, <2>5, <2>7 DEF Reading, Quiet, busy
      <3>2. QED
        BY <1>1, <1>8, <2>1, <2>3, <2>7, <3>1 DEF ASrd, Finished, AdapterInv
    <2>8. QED BY <2>6, <2>7
  <1>9. CASE ASwr
    <2>1. cstate = "WRTH" /\ lines[idx] = None /\ Writing /\ ~mdtack
      BY <1>1, <1>9 DEF ASwr, Finished, AdapterInv
    <2>2. bus' = bus
      BY <2>1, BusHeld
    <2>3. cstate' = "WRTH" /\ lines' = [lines EXCEPT ![idx] = None] /\ idx' = idx
      BY <2>1, <2>2 DEF CacheStep, CacheIdle, CacheRead, CacheWrite, CacheHit, CacheMiss,
         CacheFill, CacheWriteThrough, CacheAck
    <2>4. lines'[idx'] = None
      BY <1>1, <2>3 DEF TypeOK, CacheTypeOK
    <2>5. CASE ctrl.cmd # "wr" /\ ~busy
      <3>1. Quiet
        BY <2>1, <2>5 DEF Writing, Quiet, busy, ByteOf
      <3>2. core'.cmd = "none"
        BY <1>2, <3>1 DEF Quiet
      <3>3. CASE need_second
        BY <1>1, <1>9, <2>1, <2>2, <2>3, <2>4, <2>5, <3>2, <3>3
        DEF ASwr, Finished, AdapterInv, Writing, Issue, ByteOf
      <3>4. CASE ~need_second
        BY <1>3, <1>9, <2>2, <2>3, <2>5, <3>2, <3>4 DEF ASwr, Finished, AdapterInv, Quiet
      <3>5. QED BY <3>3, <3>4
    <2>6. CASE ctrl.cmd = "wr" \/ busy
      <3>1. Writing'
        BY <1>2, <1>3, <1>9, <2>1, <2>2, <2>6 DEF ASwr, Finished, Writing, Quiet, busy, ByteOf
      <3>2. QED
        BY <1>1, <1>9, <2>1, <2>3, <2>4, <2>6, <3>1 DEF ASwr, Finished, AdapterInv
    <2>7. QED BY <2>5, <2>6
  <1>10. CASE ASref
    BY <1>1, <1>2, <1>3, <1>10 DEF ASref, Finished, AdapterInv, busy
  <1>11. CASE ASack(mem_cs)
    <2>1. Quiet /\ mdtack
      BY <1>1, <1>11 DEF ASack, AdapterInv
    <2>2. ctrl'.cmd = "none" /\ core'.cmd = "none" /\ mem' = mem
      BY <1>2, <1>3, <1>11, <2>1 DEF ASack, Quiet
    <2>3. CASE ~mem_cs
      BY <1>11, <2>2, <2>3 DEF ASack, AdapterInv
    <2>4. CASE mem_cs
      <3>1. cstate \in {"FILL", "WRTH"}
        BY <1>1, <2>4 DEF CacheInv
      <3>2. cstate' = "ACK"
        BY <2>1, <3>1 DEF CacheStep, CacheIdle, CacheRead, CacheWrite, CacheHit, CacheMiss,
           CacheFill, CacheWriteThrough, CacheAck
      <3>3. QED
        BY <1>1, <1>11, <2>2, <2>4, <3>2 DEF ASack, AdapterInv, Quiet
    <2>5. QED BY <2>3, <2>4
  <1>12. QED
    BY <1>4, <1>5, <1>6, <1>7, <1>8, <1>9, <1>10, <1>11 DEF AdapterStep

LEMMA CoherentStep ==
    ASSUME IInv, CpuStep(Done), CacheStep(mdtack, mrdata, mrdata32), CoreStep
    PROVE  Coherent'
  <1>1. TypeOK /\ CacheInv /\ AdapterInv /\ Coherent
    BY DEF IInv
  <1>2. SUFFICES ASSUME NEW i \in Idxs, lines'[i] # None
                 PROVE  lines'[i].data = mem'[<<lines'[i].tag, i>>]
    BY DEF Coherent
  <1>3. lines \in [Idxs -> CacheLine \cup {None}] /\ idx \in Idxs
    BY <1>1 DEF TypeOK, CacheTypeOK
  \* A byte reaches the SDRAM only behind a line that has been dropped.
  <1>4. ASSUME core.cmd = "wr", mem' # mem
        PROVE  /\ cstate = "WRTH" /\ lines[idx] = None /\ core.line = bus.line
               /\ bus.line = <<reqtag, idx>>
    <2>1. astate = "S_WR"
      BY <1>1, <1>4 DEF AdapterInv, Reading, Quiet, TypeOK, ControllerTypeOK, AdapterState
    <2>2. cstate = "WRTH" /\ lines[idx] = None /\ ByteOf(core)
      BY <1>1, <1>4, <2>1 DEF AdapterInv, Writing, Quiet
    <2>3. bus.line \in LineAddr /\ reqtag = bus.line[1] /\ idx = bus.line[2]
      BY <1>1, <2>2 DEF CacheInv, Serving, Tag, Idx, TypeOK, Cycle
    <2>4. QED
      BY <2>2, <2>3 DEF ByteOf, LineAddr
  <1>5. CASE lines'[i] = lines[i]
    <2>1. lines[i].data = mem[<<lines[i].tag, i>>] /\ lines[i].tag \in Tags
      BY <1>1, <1>2, <1>3, <1>5 DEF Coherent, CacheLine
    <2>2. CASE mem' = mem
      BY <1>5, <2>1, <2>2
    <2>3. CASE mem' # mem
      <3>1. core.cmd = "wr"
        BY <2>3, CoreEffect
      <3>2. i # idx
        BY <1>2, <1>4, <1>5, <2>3, <3>1
      <3>3. <<lines[i].tag, i>> # core.line
        BY <1>4, <2>3, <3>1, <3>2
      <3>4. mem' = [mem EXCEPT ![core.line][core.word][core.lane] = core.din]
        BY <2>3, <3>1 DEF CoreStep, CoreAccept, CoreWork, CoreDone
      <3>5. <<lines[i].tag, i>> \in LineAddr /\ mem \in [LineAddr -> Line]
        BY <1>1, <2>1 DEF LineAddr, TypeOK, ControllerTypeOK
      <3>6. mem'[<<lines[i].tag, i>>] = mem[<<lines[i].tag, i>>]
        BY <3>3, <3>4, <3>5
      <3>7. QED
        BY <1>5, <2>1, <3>6
    <2>4. QED BY <2>2, <2>3
  \* The only line that changes and stays valid is one being filled.
  <1>6. CASE lines'[i] # lines[i]
    <2>1. /\ CacheFill(mdtack, mrdata, mrdata32) /\ mdtack /\ i = idx
          /\ lines'[i] = [tag |-> reqtag, data |-> mrdata32]
      BY <1>2, <1>3, <1>6
      DEF CacheStep, CacheIdle, CacheRead, CacheWrite, CacheHit, CacheMiss,
          CacheFill, CacheWriteThrough, CacheAck
    <2>2. cstate = "FILL" /\ mrdata32 = mem[bus.line]
      BY <1>1, <2>1 DEF CacheFill, AdapterInv
    <2>3. bus.line = <<reqtag, idx>>
      BY <1>1, <2>2 DEF CacheInv, Serving, Tag, Idx, TypeOK, Cycle, LineAddr
    <2>4. mem' = mem
      BY <1>4, <2>2, CoreEffect
    <2>5. QED
      BY <2>1, <2>2, <2>3, <2>4
  <1>7. QED
    BY <1>5, <1>6

LEMMA ReadsStep ==
    ASSUME IInv, CpuStep(Done), CacheStep(mdtack, mrdata, mrdata32), CoreStep
    PROVE  ReadsSeeMemory'
  <1>1. TypeOK /\ CpuInv /\ CacheInv /\ AdapterInv /\ Coherent /\ ReadsSeeMemory
    BY DEF IInv
  <1>2. SUFFICES ASSUME dtack', Selected', ~bus'.write
                 PROVE  rdata' = mem'[bus'.line][bus'.word]
    BY DEF ReadsSeeMemory
  <1>3. CASE cstate = "ACK"
    <2>1. CacheAck /\ Selected /\ rdata' = rdata
      BY <1>2, <1>3
      DEF CacheStep, CacheIdle, CacheRead, CacheWrite, CacheHit, CacheMiss,
          CacheFill, CacheWriteThrough, CacheAck
    <2>2. bus' = bus
      BY <1>1, <1>2, <2>1, CpuStepInv
    <2>3. mem' = mem
      <3>1. astate # "S_RD" /\ astate # "S_WR"
        BY <1>1, <1>3 DEF AdapterInv
      <3>2. core.cmd # "wr"
        BY <1>1, <3>1 DEF AdapterInv, Quiet, TypeOK, ControllerTypeOK, AdapterState
      <3>3. QED
        BY <3>2, CoreEffect
    <2>4. QED
      BY <1>1, <1>2, <1>3, <2>1, <2>2, <2>3 DEF ReadsSeeMemory, CacheInv
  <1>4. CASE CacheHit
    <2>1. Serving /\ ~dtack /\ q = lines[idx] /\ ~bus.write
      BY <1>1, <1>4 DEF CacheHit, CacheInv, Serving
    <2>2. bus' = bus
      BY <1>4, BusHeld DEF CacheHit
    <2>3. lines[idx] # None /\ lines[idx].tag = reqtag
      BY <1>4, <2>1 DEF CacheHit, Hit
    <2>4. q.data = mem[<<reqtag, idx>>]
      BY <1>1, <2>1, <2>3 DEF Coherent, TypeOK, CacheTypeOK
    <2>5. bus.line = <<reqtag, idx>>
      BY <1>1, <2>1 DEF Serving, Tag, Idx, TypeOK, Cycle, LineAddr
    <2>6. mem' = mem
      <3>1. core.cmd # "wr"
        BY <1>1, <1>4
        DEF CacheHit, AdapterInv, Quiet, TypeOK, ControllerTypeOK, AdapterState
      <3>2. QED
        BY <3>1, CoreEffect
    <2>7. QED
      BY <1>4, <2>1, <2>2, <2>4, <2>5, <2>6 DEF CacheHit, Serving
  <1>5. CASE CacheFill(mdtack, mrdata, mrdata32) /\ mdtack
    <2>1. astate = "S_ACK" /\ Quiet /\ mrdata = mem[bus.line][bus.word]
      BY <1>1, <1>5 DEF CacheFill, AdapterInv
    <2>2. bus' = bus /\ mem' = mem
      BY <1>5, <2>1, BusHeld, CoreEffect DEF CacheFill, Quiet
    <2>3. QED
      BY <1>5, <2>1, <2>2 DEF CacheFill
  <1>6. CASE CacheWriteThrough(mdtack)
    <2>1. bus' = bus /\ bus.write
      BY <1>1, <1>6, BusHeld DEF CacheWriteThrough, CacheInv, Serving
    <2>2. QED
      BY <1>2, <2>1
  <1>7. QED
    BY <1>1, <1>2, <1>3, <1>4, <1>5, <1>6
    DEF CacheStep, CacheIdle, CacheRead, CacheWrite, CacheHit, CacheMiss,
        CacheFill, CacheWriteThrough, CacheAck, CacheInv

-----------------------------------------------------------------------------
LEMMA StepInv == IInv /\ [Tick]_vars => IInv'
  <1> SUFFICES ASSUME IInv, [Tick]_vars PROVE IInv'
    OBVIOUS
  <1>1. CASE Tick
    <2>1. /\ CpuStep(Done) /\ CacheStep(mdtack, mrdata, mrdata32)
          /\ AdapterStep(mem_cs) /\ CoreStep
      BY <1>1 DEF Tick
    <2>2. TypeOK'
      <3>1. bus' \in Cycle
        BY <2>1, CpuStepInv DEF IInv
      <3>2. CacheTypeOK'
        BY <2>1, CacheType DEF IInv
      <3>3. ControllerTypeOK'
        <4>1. TypeOK /\ ControllerTypeOK
          BY DEF IInv, TypeOK
        <4>2. QED
          BY <2>1, <4>1, CoreType, AdapterType DEF ControllerTypeOK
      <3>4. QED
        BY <3>1, <3>2, <3>3 DEF TypeOK
    <2>3. QED
      BY <2>1, <2>2, CpuInvStep, CacheInvStep, AdapterInvStep, CoherentStep, ReadsStep
      DEF IInv
  <1>2. CASE UNCHANGED vars
    <2>1. TypeOK' /\ CpuInv' /\ CacheInv'
      BY <1>2 DEF vars, cacheVars, adapterVars, coreVars, IInv, TypeOK, CacheTypeOK,
         ControllerTypeOK, CpuInv, CacheInv, Serving, Start, Selected, Strobed, ASn, Idx, Tag
    <2>2. AdapterInv' /\ Coherent' /\ ReadsSeeMemory'
      BY <1>2 DEF vars, cacheVars, adapterVars, coreVars, IInv, AdapterInv, Reading, Writing,
         Quiet, ByteOf, Coherent, ReadsSeeMemory, Selected
    <2>3. QED
      BY <2>1, <2>2 DEF IInv
  <1>3. QED
    BY <1>1, <1>2

LEMMA Invariance == Spec => []IInv
  BY InitInv, StepInv, PTL DEF Spec

(* Every register of the memory path stays in its type.                    *)
THEOREM TypeCorrect == Spec => []TypeOK
  <1>1. IInv => TypeOK
    BY DEF IInv
  <1>2. QED
    BY <1>1, Invariance, PTL

(* The cache never holds a valid line that differs from the SDRAM, with or *)
(* without read-modify-write cycles (sdram_cache.v:3-5).                   *)
THEOREM CacheCoherence == Spec => []Coherent
  <1>1. IInv => Coherent
    BY DEF IInv
  <1>2. QED
    BY <1>1, Invariance, PTL

(* Data acknowledged for a read is the word in the SDRAM.                  *)
THEOREM ReadCorrectness == Spec => []ReadsSeeMemory
  <1>1. IInv => ReadsSeeMemory
    BY DEF IInv
  <1>2. QED
    BY <1>1, Invariance, PTL
-----------------------------------------------------------------------------
(***************************************************************************)
(* Without read-modify-write cycles the memory path implements BusMemory,  *)
(* and no write is lost.  On top of IInv this needs to know which bytes of *)
(* a write have reached the SDRAM: all that Todo does not name.            *)
(***************************************************************************)
Landed(l) == mem[bus.line][bus.word][l] = bus.data[l]

RefInv ==
    /\ bus.held = {}
    /\ Selected /\ ~Strobed => cstate = "IDLE"
    /\ astate = "S_WR" =>
          /\ ctrl.cmd = "wr" /\ ctrl.lane = "l" => ~need_second
          /\ core.cmd = "wr" /\ core.lane = "l" => ~need_second
    /\ Start /\ bus.write => \A l \in bus.ds \ Todo : Landed(l)

-----------------------------------------------------------------------------
LEMMA Unpack ==
    ASSUME IInv
    PROVE  /\ TypeOK /\ CpuInv /\ CacheInv /\ AdapterInv
           /\ bus \in Cycle /\ mem \in [LineAddr -> Line]
           /\ cstate \in CacheState /\ astate \in AdapterState
  BY DEF IInv, TypeOK, CacheTypeOK, ControllerTypeOK

\* The SDRAM changes only under a write the cache passes through.
LEMMA MemStable ==
    ASSUME IInv, CoreStep, cstate # "WRTH"
    PROVE  mem' = mem
  <1>1. AdapterInv /\ astate \in AdapterState
    BY Unpack
  <1>2. core.cmd # "wr"
    BY <1>1 DEF AdapterInv, Reading, Quiet, AdapterState
  <1>3. QED
    BY <1>2, CoreEffect

\* Nothing is requested: the cache is idle after this clock.
LEMMA NoRequest ==
    ASSUME IInv, RefInv, Tick, ~Start
    PROVE  cstate' = "IDLE" /\ mem' = mem
  <1>1. cstate \in {"IDLE", "ACK"}
    BY Unpack DEF CacheInv, Serving, CacheState
  <1>2. mem' = mem
    BY <1>1, MemStable DEF Tick
  <1>3. cstate = "ACK" => ~Selected
    BY DEF RefInv, Start
  <1>4. cstate' = "IDLE"
    BY <1>1, <1>3
    DEF Tick, CacheStep, CacheIdle, CacheRead, CacheWrite, CacheHit, CacheMiss, CacheFill,
        CacheWriteThrough, CacheAck
  <1>5. QED
    BY <1>2, <1>4

\* The states a request that is not acknowledged goes through.
LEMMA CacheMoves ==
    ASSUME IInv, Tick, Start, cstate # "ACK"
    PROVE  /\ bus' = bus
           /\ bus.write => /\ cstate \in {"IDLE", "WRTH"}
                           /\ cstate = "IDLE" => cstate' = "WRTH"
                           /\ cstate = "WRTH" => /\ mdtack => cstate' = "ACK"
                                                 /\ ~mdtack => cstate' = "WRTH"
           /\ ~bus.write => cstate # "WRTH" /\ cstate' \in {"LOOK", "FILL", "ACK"}
  <1>1. bus' = bus
    BY BusHeld DEF Tick
  <1>2. CacheInv /\ cstate \in CacheState
    BY Unpack
  <1>3. QED
    BY <1>1, <1>2
    DEF Tick, CacheStep, CacheIdle, CacheRead, CacheWrite, CacheHit, CacheMiss, CacheFill,
        CacheWriteThrough, CacheAck, CacheInv, Serving, CacheState

LEMMA Acknowledged ==
    ASSUME IInv, Tick, Start, cstate = "ACK"
    PROVE  cstate' = "ACK" /\ mem' = mem
  <1>1. mem' = mem
    BY MemStable DEF Tick
  <1>2. cstate' = "ACK"
    BY DEF Start, Tick, CacheStep, CacheIdle, CacheRead, CacheWrite, CacheHit, CacheMiss,
       CacheFill, CacheWriteThrough, CacheAck
  <1>3. QED
    BY <1>1, <1>2

-----------------------------------------------------------------------------
(* The lanes still to be written, from one clock to the next.              *)

LEMMA TodoFirst ==
    ASSUME IInv, Tick, Start, bus.write, cstate = "IDLE"
    PROVE  Todo = bus.ds /\ Todo' = bus.ds
  <1>1. bus' = bus /\ cstate' = "WRTH"
    BY CacheMoves
  <1>2. AdapterInv /\ CacheInv /\ astate \in AdapterState
    BY Unpack
  <1>3. ~mem_cs /\ astate \in {"S_IDLE", "S_REF"}
    BY <1>2 DEF CacheInv, AdapterInv, AdapterState
  <1>4. astate' \in {"S_IDLE", "S_REF"}
    BY <1>3 DEF Tick, AdapterStep, AIdle, ARefresh, ARead, AWrite, ASrd, ASwr, ASref, ASack, Finished,
       Requested
  <1>5. QED
    BY <1>1, <1>4 DEF Todo, Start, Selected

LEMMA TodoIssue ==
    ASSUME IInv, Tick, Start, bus.write, cstate = "WRTH", astate \in {"S_IDLE", "S_REF"}
    PROVE  /\ Todo = bus.ds /\ Todo' = bus.ds /\ mem' = mem
           /\ astate' = "S_WR" => /\ ctrl'.lane = "l" => ~need_second'
                                  /\ core'.cmd = "none"
  <1>1. AdapterInv /\ bus \in Cycle
    BY Unpack
  <1>2. bus' = bus /\ cstate' = "WRTH"
    BY <1>1, CacheMoves DEF AdapterInv
  <1>3. core.cmd # "wr" /\ mem' = mem
    BY <1>1, CoreEffect DEF AdapterInv, Tick
  <1>4. Todo = bus.ds
    BY DEF Todo, Start
  <1>5. CASE AWrite(mem_cs)
    <2>1. astate = "S_IDLE" /\ core'.cmd = "none" /\ astate' = "S_WR"
      BY <1>1, <1>5, CoreEffect DEF AWrite, AdapterInv, Tick, Ready, busy
    <2>2. bus.ds \subseteq {"u", "l"} /\ bus.ds # {}
      BY <1>1, <1>5 DEF AWrite, Requested, Strobed, Cycle, Lanes
    <2>3. CASE "u" \in bus.ds
      <3>1. ctrl'.cmd = "wr" /\ ctrl'.lane = "u" /\ need_second' = ("l" \in bus.ds)
        BY <1>5, <2>3 DEF AWrite, Issue
      <3>2. InFlight(ctrl)' = {"u"} /\ InFlight(core)' = {}
        BY <2>1, <3>1 DEF InFlight
      <3>3. AdapterTodo' = bus.ds
        BY <2>2, <2>3, <3>1, <3>2 DEF AdapterTodo
      <3>4. QED
        BY <1>2, <1>3, <1>4, <2>1, <3>1, <3>3 DEF Todo, Start, Selected
    <2>4. CASE "u" \notin bus.ds
      <3>1. ctrl'.cmd = "wr" /\ ctrl'.lane = "l" /\ need_second' = FALSE
        BY <1>5, <2>4 DEF AWrite, Issue
      <3>2. InFlight(ctrl)' = {"l"} /\ InFlight(core)' = {}
        BY <2>1, <3>1 DEF InFlight
      <3>3. AdapterTodo' = bus.ds
        BY <2>2, <2>4, <3>1, <3>2 DEF AdapterTodo
      <3>4. QED
        BY <1>2, <1>3, <1>4, <2>1, <3>1, <3>3 DEF Todo, Start, Selected
    <2>5. QED BY <2>3, <2>4
  <1>6. CASE ~AWrite(mem_cs)
    <2>1. astate' \in {"S_IDLE", "S_REF"}
      BY <1>6 DEF Tick, AdapterStep, AIdle, ARefresh, ARead, ASrd, ASwr, ASref, ASack, Finished
    <2>2. QED
      BY <1>2, <1>3, <1>4, <2>1 DEF Todo, Start, Selected
  <1>7. QED
    BY <1>5, <1>6

(* While the adapter writes, either nothing lands and Todo is as it was,   *)
(* or the core finishes one byte.                                          *)
LEMMA TodoWrite ==
    ASSUME IInv, RefInv, Tick, Start, bus.write, cstate = "WRTH", astate = "S_WR"
    PROVE  /\ \/ mem' = mem /\ Todo' = Todo
              \/ /\ core.cmd = "wr" /\ core.lane \in Todo
                 /\ mem' = [mem EXCEPT ![bus.line][bus.word][core.lane] = bus.data[core.lane]]
                 /\ Todo' = Todo \ {core.lane}
           /\ astate' = "S_WR" =>
                 /\ ctrl'.cmd = "wr" /\ ctrl'.lane = "l" => ~need_second'
                 /\ core'.cmd = "wr" /\ core'.lane = "l" => ~need_second'
  <1>1. AdapterInv /\ Writing /\ need_second \in BOOLEAN
    BY Unpack DEF AdapterInv, TypeOK, ControllerTypeOK
  <1>2. bus' = bus /\ cstate' = "WRTH"
    BY <1>1, CacheMoves DEF AdapterInv
  <1>3. ASwr /\ CoreStep /\ Start' /\ bus'.write /\ Selected /\ Selected'
    BY <1>2 DEF Tick, AdapterStep, AIdle, ARefresh, ARead, AWrite, ASrd, ASwr, ASref, ASack, Finished,
       Start, Selected, Strobed
  <1>4. Todo = AdapterTodo
    BY <1>3 DEF Todo
  <1>5. /\ astate' = "S_WR" => Todo' = AdapterTodo'
        /\ astate' = "S_ACK" => Todo' = {}
    BY <1>2, <1>3 DEF Todo
  \* The first byte is on the port: the core takes it.
  <1>6. CASE ctrl.cmd = "wr"
    <2>1. core.cmd = "none" /\ core' = ctrl /\ mem' = mem
      BY <1>1, <1>3, <1>6, CoreEffect DEF Writing, Quiet
    <2>2. ctrl'.cmd = "none" /\ need_second' = need_second /\ astate' = "S_WR"
      BY <1>3, <1>6 DEF ASwr, Finished, NoIssue, NoCommand
    <2>3. AdapterTodo' = AdapterTodo
      BY <1>6, <2>1, <2>2 DEF AdapterTodo, InFlight
    <2>4. QED
      BY <1>4, <1>5, <1>6, <2>1, <2>2, <2>3 DEF RefInv
  \* The core works on a byte.
  <1>7. CASE core.cmd = "wr"
    <2>1. ctrl.cmd = "none" /\ ByteOf(core)
      BY <1>1, <1>7 DEF Writing, Quiet
    <2>2. ctrl'.cmd = "none" /\ need_second' = need_second /\ astate' = "S_WR"
      BY <1>3, <1>7 DEF ASwr, Finished, NoIssue, NoCommand, busy
    <2>3. CASE CoreDone
      <3>1. core'.cmd = "none"
        BY <2>3 DEF CoreDone, NoCommand
      <3>2. mem' = [mem EXCEPT ![bus.line][bus.word][core.lane] = bus.data[core.lane]]
        BY <1>7, <2>1, <2>3 DEF CoreDone, ByteOf
      <3>3. AdapterTodo = {core.lane} \cup (IF need_second THEN {"l"} ELSE {})
        BY <1>7, <2>1 DEF AdapterTodo, InFlight
      <3>4. AdapterTodo' = IF need_second THEN {"l"} ELSE {}
        BY <2>2, <3>1 DEF AdapterTodo, InFlight
      <3>5. core.lane = "l" => ~need_second
        BY <1>7 DEF RefInv
      <3>6. AdapterTodo' = AdapterTodo \ {core.lane}
        BY <3>3, <3>4, <3>5
      <3>7. QED
        BY <1>4, <1>5, <1>7, <2>2, <3>1, <3>2, <3>3, <3>6
    <2>4. CASE ~CoreDone
      <3>1. core' = core /\ mem' = mem
        BY <1>3, <1>7, <2>4 DEF CoreStep, CoreAccept, CoreWork, busy
      <3>2. AdapterTodo' = AdapterTodo
        BY <2>1, <2>2, <3>1 DEF AdapterTodo, InFlight
      <3>3. QED
        BY <1>4, <1>5, <1>7, <2>2, <3>1, <3>2 DEF RefInv
    <2>5. QED BY <2>3, <2>4
  \* Between two bytes, or after the last.
  <1>8. CASE Quiet
    <2>1. core'.cmd = "none" /\ mem' = mem
      BY <1>3, <1>8, CoreEffect DEF Quiet
    <2>2. AdapterTodo = IF need_second THEN {"l"} ELSE {}
      BY <1>8 DEF AdapterTodo, InFlight, Quiet
    <2>3. CASE need_second
      <3>1. /\ ctrl'.cmd = "wr" /\ ctrl'.lane = "l" /\ need_second' = FALSE
            /\ astate' = "S_WR"
        BY <1>3, <1>8, <2>3 DEF ASwr, Finished, Issue, busy, Quiet
      <3>2. AdapterTodo' = {"l"}
        BY <2>1, <3>1 DEF AdapterTodo, InFlight
      <3>3. QED
        BY <1>4, <1>5, <2>1, <2>2, <2>3, <3>1, <3>2
    <2>4. CASE ~need_second
      <3>1. astate' = "S_ACK"
        BY <1>3, <1>8, <2>4 DEF ASwr, Finished, busy, Quiet
      <3>2. QED
        BY <1>4, <1>5, <2>1, <2>2, <2>4, <3>1
    <2>5. QED BY <2>3, <2>4
  <1>9. QED
    BY <1>1, <1>6, <1>7, <1>8 DEF Writing, ByteOf

LEMMA TodoLast ==
    ASSUME IInv, Tick, Start, bus.write, cstate = "WRTH", astate = "S_ACK"
    PROVE  Todo = {} /\ Todo' = {} /\ mem' = mem /\ cstate' = "ACK"
  <1>1. AdapterInv /\ Quiet
    BY Unpack DEF AdapterInv
  <1>2. cstate' = "ACK"
    BY <1>1, CacheMoves DEF AdapterInv
  <1>3. QED
    BY <1>1, <1>2, CoreEffect DEF Todo, Tick, Quiet

-----------------------------------------------------------------------------
(* RefInv is invariant.                                                    *)

LEMMA RefInit == Init => RefInv
  <1> SUFFICES ASSUME Init PROVE RefInv
    OBVIOUS
  <1>1. bus.sel = "none" /\ bus.held = {} /\ astate = "S_IDLE"
    BY IdleCycle DEF Init, BusInit, ControllerInit
  <1>2. QED
    BY <1>1 DEF RefInv, Start, Selected

\* Without TAS an acknowledged access can only end.
LEMMA AckedBus ==
    ASSUME IInv, ~RMW, Tick, Start
    PROVE  bus' = bus \/ bus' = NoCycle
  BY DEF Tick, CpuStep, CpuHold, CpuRead, CpuWrite, CpuDrive, CpuEnd, CpuTurn, Start,
         Selected, Strobed, ASn

LEMMA LandedStep ==
    ASSUME IInv, RefInv, ~RMW, Tick, Start', bus'.write
    PROVE  (\A l \in bus.ds \ Todo : Landed(l)) /\ Start => \A l \in bus'.ds \ Todo' : Landed(l)'
  <1> SUFFICES ASSUME Start, \A l \in bus.ds \ Todo : Landed(l),
                      NEW k \in bus'.ds \ Todo'
               PROVE  Landed(k)'
    OBVIOUS
  <1>1. /\ bus \in Cycle /\ mem \in [LineAddr -> Line]
        /\ cstate \in CacheState /\ astate \in AdapterState /\ AdapterInv
    BY Unpack
  <1>2. NoCycle.sel = "none"
    BY IdleCycle
  <1>3. bus' = bus
    BY <1>2, AckedBus DEF Start, Selected
  <1>4. bus.write /\ k \in bus.ds
    BY <1>3
  <1>5. CASE cstate = "ACK"
    <2>1. cstate' = "ACK" /\ mem' = mem
      BY <1>5, Acknowledged
    <2>2. Todo = {}
      BY <1>5 DEF Todo
    <2>3. QED
      BY <1>3, <1>4, <2>1, <2>2 DEF Landed
  <1>6. CASE cstate = "IDLE"
    BY <1>4, <1>6, TodoFirst
  <1>7. CASE cstate = "WRTH" /\ astate \in {"S_IDLE", "S_REF"}
    BY <1>4, <1>7, TodoIssue
  <1>8. CASE cstate = "WRTH" /\ astate = "S_WR"
    <2>1. \/ mem' = mem /\ Todo' = Todo
          \/ /\ core.cmd = "wr" /\ core.lane \in Todo
             /\ mem' = [mem EXCEPT ![bus.line][bus.word][core.lane] = bus.data[core.lane]]
             /\ Todo' = Todo \ {core.lane}
      BY <1>4, <1>8, TodoWrite
    <2>2. CASE mem' = mem /\ Todo' = Todo
      BY <1>3, <1>4, <2>2 DEF Landed
    <2>3. CASE /\ core.lane \in Todo
               /\ mem' = [mem EXCEPT ![bus.line][bus.word][core.lane] = bus.data[core.lane]]
               /\ Todo' = Todo \ {core.lane}
      <3>1. bus.line \in LineAddr /\ bus.word \in Sel /\ k \in Lanes
        BY <1>1, <1>4 DEF Cycle
      <3>2. CASE k = core.lane
        <4>1. mem'[bus.line][bus.word][k] = bus.data[k]
          BY <1>1, <2>3, <3>1, <3>2 DEF Line, Word
        <4>2. QED
          BY <1>3, <4>1 DEF Landed
      <3>3. CASE k # core.lane
        <4>1. mem'[bus.line][bus.word][k] = mem[bus.line][bus.word][k]
          BY <1>1, <2>3, <3>1, <3>3 DEF Line, Word
        <4>2. Landed(k)
          BY <1>4, <2>3, <3>3
        <4>3. QED
          BY <1>3, <4>1, <4>2 DEF Landed
      <3>4. QED BY <3>2, <3>3
    <2>4. QED BY <2>1, <2>2, <2>3
  <1>9. CASE cstate = "WRTH" /\ astate = "S_ACK"
    <2>1. Todo = {} /\ mem' = mem
      BY <1>4, <1>9, TodoLast
    <2>2. QED
      BY <1>3, <1>4, <2>1 DEF Landed
  <1>10. cstate \in {"ACK", "IDLE", "WRTH"}
    BY <1>4, CacheMoves
  <1>11. astate = "S_RD" => cstate = "FILL"
    BY <1>1 DEF AdapterInv
  <1>12. QED
    BY <1>1, <1>5, <1>6, <1>7, <1>8, <1>9, <1>10, <1>11 DEF AdapterState

LEMMA RefStep == IInv /\ RefInv /\ ~RMW /\ [Tick]_vars => RefInv'
  <1> SUFFICES ASSUME IInv, RefInv, ~RMW, [Tick]_vars PROVE RefInv'
    OBVIOUS
  <1>1. CASE UNCHANGED vars
    BY <1>1 DEF RefInv, vars, cacheVars, adapterVars, coreVars, Selected, Strobed, Start,
                Todo, AdapterTodo, InFlight, Landed
  <1>2. CASE Tick
    <2>1. IInv'
      BY <1>2, StepInv
    <2>2. bus'.held = {}
      BY <2>1 DEF IInv, CpuInv
    <2>3. Selected' /\ ~Strobed' => cstate' = "IDLE"
      <3>1. CASE ~Start
        BY <1>2, <3>1, NoRequest
      <3>2. CASE Start
        <4>1. bus' = bus \/ bus' = NoCycle
          BY <1>2, <3>2, AckedBus
        <4>2. QED
          BY <3>2, <4>1, IdleCycle DEF Start, Selected, Strobed
      <3>3. QED BY <3>1, <3>2
    <2>4. astate' = "S_WR" =>
             /\ ctrl'.cmd = "wr" /\ ctrl'.lane = "l" => ~need_second'
             /\ core'.cmd = "wr" /\ core'.lane = "l" => ~need_second'
      <3>1. AdapterInv /\ CacheInv /\ astate \in AdapterState
        BY Unpack
      <3>2. CASE astate = "S_WR"
        <4>1. cstate = "WRTH" /\ Start /\ bus.write
          BY <3>1, <3>2 DEF AdapterInv, CacheInv, Serving
        <4>2. QED
          BY <1>2, <3>2, <4>1, TodoWrite
      <3>3. CASE AWrite(mem_cs)
        <4>1. cstate = "WRTH" /\ Start /\ bus.write /\ astate = "S_IDLE"
          BY <3>1, <3>3 DEF AWrite, Requested, CacheInv, Serving
        <4>2. QED
          BY <1>2, <4>1, TodoIssue
      <3>4. CASE astate # "S_WR" /\ ~AWrite(mem_cs)
        <4>1. astate' # "S_WR"
          BY <1>2, <3>1, <3>4
          DEF Tick, AdapterStep, AIdle, ARefresh, ARead, ASrd, ASwr, ASref, ASack, Finished,
              AdapterState
        <4>2. QED BY <4>1
      <3>5. QED BY <3>2, <3>3, <3>4
    <2>5. Start' /\ bus'.write => \A l \in bus'.ds \ Todo' : Landed(l)'
      <3>1. CASE ~Start
        <4>1. cstate' = "IDLE"
          BY <1>2, <3>1, NoRequest
        <4>2. Start' /\ bus'.write => Todo' = bus'.ds
          BY <4>1 DEF Todo, Start
        <4>3. QED BY <4>2
      <3>2. CASE Start
        <4>1. Start' /\ bus'.write => bus.write
          <5>1. bus' = bus \/ bus' = NoCycle
            BY <1>2, <3>2, AckedBus
          <5>2. QED
            BY <5>1, IdleCycle DEF Start, Selected
        <4>2. Start' /\ bus'.write => \A l \in bus.ds \ Todo : Landed(l)
          BY <3>2, <4>1 DEF RefInv
        <4>3. QED
          BY <1>2, <3>2, <4>2, LandedStep
      <3>3. QED BY <3>1, <3>2
    <2>6. QED
      BY <2>2, <2>3, <2>4, <2>5 DEF RefInv
  <1>3. QED
    BY <1>1, <1>2

LEMMA RefInvariance == ~RMW => (Spec => [](IInv /\ RefInv))
  <1> SUFFICES ASSUME ~RMW PROVE Spec => [](IInv /\ RefInv)
    OBVIOUS
  <1>1. Init => IInv /\ RefInv
    BY InitInv, RefInit
  <1>2. (IInv /\ RefInv) /\ [Tick]_vars => (IInv /\ RefInv)'
    BY StepInv, RefStep
  <1>3. QED
    BY <1>1, <1>2, PTL DEF Spec

-----------------------------------------------------------------------------
(* The refinement: every clock is a step of BusMemory or a stutter.        *)

\* The request, as BusMemory sees it, is one of its requests.
LEMMA AskedType ==
    ASSUME bus \in Cycle, Start
    PROVE  Asked \in Memory!Request /\ Asked # None
  <1>1. /\ bus.write \in BOOLEAN /\ bus.line \in Memory!LineAddr /\ bus.word \in Memory!Sel
        /\ bus.ds \in (SUBSET Memory!Lanes) \ {{}} /\ bus.data \in Memory!Word
    BY DEF Cycle, Start, Strobed, LineAddr, Sel, Lanes, Word, Memory!LineAddr, Memory!Sel,
           Memory!Lanes, Memory!Word
  <1>2. Asked \in Memory!Request
    BY <1>1 DEF Asked, Memory!Request
  <1>3. QED
    BY <1>2, RequestAssumption DEF RequestAssumption

\* What the mapping shows while nothing is requested.
LEMMA NothingAsked ==
    ASSUME RefInv, ~Start
    PROVE  Asked = None /\ Todo = {} /\ Replied = None
  <1>1. Asked = None /\ Replied = None
    BY DEF Asked, Replied
  <1>2. CASE Selected
    BY <1>1, <1>2 DEF RefInv, Todo, Start, Strobed
  <1>3. CASE ~Selected
    BY <1>1, <1>3 DEF Todo
  <1>4. QED
    BY <1>1, <1>2, <1>3

LEMMA RefinesInit == Init => Memory!Init
  <1> SUFFICES ASSUME Init PROVE Memory!Init
    OBVIOUS
  <1>1. RefInv /\ ~Start
    BY RefInit, IdleCycle DEF Init, BusInit, Start, Selected
  <1>2. mem \in [Memory!LineAddr -> [Memory!Sel -> Memory!Word]]
    BY DEF Init, ControllerInit, Line, LineAddr, Sel, Word, Lanes, Memory!LineAddr,
           Memory!Sel, Memory!Word, Memory!Lanes
  <1>3. QED
    BY <1>1, <1>2, NothingAsked DEF Memory!Init

\* No request before the clock: one may appear.
LEMMA RefinesIdle ==
    ASSUME IInv, IInv', RefInv, RefInv', Tick, ~Start
    PROVE  [Memory!Next]_(Memory!vars)
  <1>1. cstate' = "IDLE" /\ mem' = mem
    BY NoRequest
  <1>2. Asked = None /\ Todo = {} /\ Replied = None
    BY NothingAsked
  <1>3. CASE ~Start'
    <2>1. Asked' = None /\ Replied' = None
      BY <1>3 DEF Asked, Replied
    <2>2. Todo' = {}
      BY <1>1, <1>3 DEF RefInv, Todo, Start, Strobed
    <2>3. QED
      BY <1>1, <1>2, <2>1, <2>2 DEF Memory!vars
  <1>4. CASE Start'
    <2>1. ~dtack' /\ bus' \in Cycle
      BY <1>1 DEF IInv, CacheInv, TypeOK
    <2>2. Replied' = None
      BY <2>1 DEF Replied
    <2>3. Asked' \in Memory!Request
      <3>1. /\ bus'.write \in BOOLEAN /\ bus'.line \in Memory!LineAddr
            /\ bus'.word \in Memory!Sel /\ bus'.data \in Memory!Word
            /\ bus'.ds \in (SUBSET Memory!Lanes) \ {{}}
        BY <1>4, <2>1 DEF Cycle, Start, Strobed, LineAddr, Sel, Lanes, Word,
           Memory!LineAddr, Memory!Sel, Memory!Lanes, Memory!Word
      <3>2. Asked' = [write |-> bus'.write, line |-> bus'.line, word |-> bus'.word,
                      lanes |-> bus'.ds, data |-> bus'.data]
        BY <1>4 DEF Asked
      <3>3. QED
        BY <3>1, <3>2 DEF Memory!Request
    <2>4. Asked'.write = bus'.write /\ Asked'.lanes = bus'.ds
      BY <1>4 DEF Asked
    <2>5. Todo' = IF bus'.write THEN bus'.ds ELSE {}
      BY <1>1, <1>4 DEF Todo, Start
    <2>6. Memory!Ask
      BY <1>1, <1>2, <2>2, <2>3, <2>4, <2>5 DEF Memory!Ask
    <2>7. QED
      BY <2>6 DEF Memory!Next
  <1>5. QED
    BY <1>3, <1>4

\* A read waits for the cache, or is answered.
LEMMA RefinesRead ==
    ASSUME IInv, IInv', RefInv, RefInv', Tick, Start, cstate # "ACK", ~bus.write
    PROVE  [Memory!Next]_(Memory!vars)
  <1>1. bus' = bus /\ cstate # "WRTH" /\ mem' = mem
    BY CacheMoves, MemStable DEF Tick
  <1>2. Start' /\ Asked' = Asked /\ Todo = {} /\ Todo' = {}
    BY <1>1 DEF Start, Selected, Strobed, Asked, Todo
  <1>3. ~dtack /\ Replied = None
    BY DEF IInv, CacheInv, Replied
  <1>4. CASE dtack'
    <2>1. rdata' = mem'[bus'.line][bus'.word]
      BY <1>1, <1>2, <1>4 DEF IInv, ReadsSeeMemory, Start
    <2>2. Replied' = mem[bus.line][bus.word]
      BY <1>1, <1>2, <1>4, <2>1 DEF Replied
    <2>3. Asked # None /\ Asked.write = FALSE /\ Asked.line = bus.line /\ Asked.word = bus.word
      BY Unpack, AskedType DEF Asked
    <2>4. Memory!Answer
      BY <1>1, <1>2, <1>3, <2>2, <2>3 DEF Memory!Answer
    <2>5. QED
      BY <2>4 DEF Memory!Next
  <1>5. CASE ~dtack'
    <2>1. Replied' = None
      BY <1>5 DEF Replied
    <2>2. QED
      BY <1>1, <1>2, <1>3, <2>1 DEF Memory!vars
  <1>6. QED
    BY <1>4, <1>5

\* A write waits, or one of its bytes lands.
LEMMA RefinesWrite ==
    ASSUME IInv, RefInv, Tick, Start, cstate # "ACK", bus.write
    PROVE  [Memory!Next]_(Memory!vars)
  <1>1. bus' = bus /\ cstate \in {"IDLE", "WRTH"}
    BY CacheMoves
  <1>2. Asked' = Asked /\ Replied = None /\ Replied' = None
    BY <1>1 DEF Start, Selected, Strobed, Asked, Replied
  <1>3. SUFFICES \/ mem' = mem /\ Todo' = Todo
                 \/ \E l \in Lanes : Memory!Commit(l)
    BY <1>2 DEF Memory!vars, Memory!Next, Memory!Lanes, Lanes
  <1>4. CASE cstate = "IDLE"
    BY <1>4, TodoFirst, MemStable DEF Tick
  <1>5. CASE cstate = "WRTH" /\ astate \in {"S_IDLE", "S_REF"}
    BY <1>5, TodoIssue
  <1>6. CASE cstate = "WRTH" /\ astate = "S_WR"
    <2>1. \/ mem' = mem /\ Todo' = Todo
          \/ /\ core.cmd = "wr" /\ core.lane \in Todo
             /\ mem' = [mem EXCEPT ![bus.line][bus.word][core.lane] = bus.data[core.lane]]
             /\ Todo' = Todo \ {core.lane}
      BY <1>6, TodoWrite
    <2>2. CASE core.lane \in Todo
               /\ mem' = [mem EXCEPT ![bus.line][bus.word][core.lane] = bus.data[core.lane]]
               /\ Todo' = Todo \ {core.lane}
      <3>1. core.lane \in Lanes
        BY DEF IInv, TypeOK, ControllerTypeOK, Command
      <3>2. Asked.line = bus.line /\ Asked.word = bus.word /\ Asked.data = bus.data
        BY DEF Asked
      <3>3. Memory!Commit(core.lane)
        BY <1>2, <2>2, <3>2 DEF Memory!Commit
      <3>4. QED
        BY <3>1, <3>3
    <2>3. QED
      BY <2>1, <2>2
  <1>7. CASE cstate = "WRTH" /\ astate = "S_ACK"
    BY <1>7, TodoLast
  <1>8. astate \in AdapterState /\ (astate = "S_RD" => cstate = "FILL")
    BY Unpack DEF AdapterInv
  <1>9. QED
    BY <1>1, <1>4, <1>5, <1>6, <1>7, <1>8 DEF AdapterState

\* The acknowledge holds until the CPU ends the cycle.
LEMMA RefinesAck ==
    ASSUME IInv, RefInv, ~RMW, Tick, Start, cstate = "ACK"
    PROVE  [Memory!Next]_(Memory!vars)
  <1>1. cstate' = "ACK" /\ mem' = mem
    BY Acknowledged
  <1>2. Todo = {} /\ Todo' = {}
    BY <1>1 DEF Todo
  <1>3. dtack /\ Selected
    BY DEF IInv, CacheInv, Start
  <1>4. rdata' = rdata /\ dtack' = dtack
    BY <1>3 DEF Tick, CacheStep, CacheIdle, CacheRead, CacheWrite, CacheHit, CacheMiss,
       CacheFill, CacheWriteThrough, CacheAck
  <1>5. CASE bus' = bus
    <2>1. Asked' = Asked /\ Replied' = Replied
      BY <1>4, <1>5 DEF Asked, Replied, Start, Selected, Strobed
    <2>2. QED
      BY <1>1, <1>2, <2>1 DEF Memory!vars
  <1>6. CASE bus' = NoCycle
    <2>1. ~Start'
      BY <1>6, IdleCycle DEF Start, Selected
    <2>2. Asked' = None /\ Replied' = None
      BY <2>1 DEF Asked, Replied
    <2>3. Asked # None /\ Asked.write = bus.write
      BY Unpack, AskedType DEF Asked
    <2>4. ~bus.write => Replied # None
      <3>1. SUFFICES ASSUME ~bus.write PROVE Replied # None
        OBVIOUS
      <3>2. Replied = mem[bus.line][bus.word]
        BY <1>3, <3>1 DEF Replied, IInv, ReadsSeeMemory
      <3>3. bus.line \in LineAddr /\ bus.word \in Sel /\ mem \in [LineAddr -> Line]
        BY Unpack DEF Cycle
      <3>4. Replied \in Word
        BY <3>2, <3>3 DEF Line
      <3>5. QED
        BY <3>4, BusAssumption DEF BusAssumption
    <2>5. Memory!Finish
      BY <1>1, <1>2, <2>2, <2>3, <2>4 DEF Memory!Finish
    <2>6. QED
      BY <2>5 DEF Memory!Next
  <1>7. QED
    BY <1>5, <1>6, AckedBus

LEMMA RefinesStep ==
    ASSUME IInv, IInv', RefInv, RefInv', ~RMW, [Tick]_vars
    PROVE  [Memory!Next]_(Memory!vars)
  <1>1. CASE Tick
    BY <1>1, RefinesIdle, RefinesRead, RefinesWrite, RefinesAck
  <1>2. CASE UNCHANGED vars
    <2>1. UNCHANGED <<mem, Asked, Todo, Replied>>
      BY <1>2 DEF vars, cacheVars, adapterVars, coreVars, Asked, Todo, Replied, Start,
         Selected, Strobed, AdapterTodo, InFlight
    <2>2. QED
      BY <2>1 DEF Memory!vars
  <1>3. QED
    BY <1>1, <1>2

(* Without TAS, bus, cache, adapter and SDRAM together are the word memory *)
(* of BusMemory: hits, fills, refreshes and split writes do not show.      *)
THEOREM MemoryRefinement == ~RMW => (Spec => ImplementsMemory)
  <1> SUFFICES ASSUME ~RMW PROVE Spec => ImplementsMemory
    OBVIOUS
  <1>1. Init => Memory!Init
    BY RefinesInit
  <1>2. (IInv /\ RefInv) /\ (IInv /\ RefInv)' /\ [Tick]_vars => [Memory!Next]_(Memory!vars)
    BY RefinesStep
  <1>3. Spec => [](IInv /\ RefInv)
    BY RefInvariance
  <1>4. QED
    BY <1>1, <1>2, <1>3, PTL DEF Spec, ImplementsMemory, Memory!Spec

(* Without TAS, a write the CPU has finished is in the SDRAM.              *)
THEOREM NoWriteLost == ~RMW => (Spec => WritesLand)
  <1> SUFFICES ASSUME ~RMW PROVE Spec => WritesLand
    OBVIOUS
  <1>1. (IInv /\ RefInv) /\ [Tick]_vars =>
           [bus.write /\ Selected /\ Strobed /\ bus'.sel = "none"
              => \A l \in bus.ds : mem[bus.line][bus.word][l] = bus.data[l]]_vars
    <2> SUFFICES ASSUME IInv, RefInv, Tick, bus.write, Selected, Strobed, bus'.sel = "none"
                 PROVE  \A l \in bus.ds : Landed(l)
      BY DEF vars, Landed
    <2>1. cstate = "ACK"
      BY BusStable DEF IInv, CacheInv, Start, Tick, Selected
    <2>2. Todo = {}
      BY <2>1 DEF Todo
    <2>3. QED
      BY <2>2 DEF RefInv, Start
  <1>2. Spec => [](IInv /\ RefInv)
    BY RefInvariance
  <1>3. QED
    BY <1>1, <1>2, PTL DEF Spec, WritesLand
=============================================================================
