--------------------------- MODULE MackerelFProof ---------------------------
(***************************************************************************)
(* Mackerel-F around the memory path, in clocks: no refresh request is     *)
(* lost, and the watchdog ends no access that a slave will answer, for     *)
(* every latency of the cores, refresh interval and watchdog that leave    *)
(* room for the longest access.                                            *)
(*                                                                         *)
(* Each invariant is a countdown: so many clocks at most until something   *)
(* happens, less by one at every clock, and a counter that has room for    *)
(* them.                                                                   *)
(***************************************************************************)
EXTENDS MackerelF, MemPathProof

\* The core has finished with the command on its port after so many clocks.
CoreLeft ==
    IF core.cmd # "none" THEN (MaxLatency - latency) + 1
    ELSE IF ctrl.cmd # "none" THEN MaxLatency + 2
    ELSE 0

\* The second byte of a write: issued, accepted and worked on.
SecondLeft == IF need_second THEN MaxLatency + 3 ELSE 0

(***************************************************************************)
(* What of the path the clocks depend on.  Of the bus they do not, so that *)
(* this holds whatever ends a cycle.                                       *)
(***************************************************************************)
PaceType ==
    /\ astate \in AdapterState /\ cstate \in CacheState
    /\ latency \in 0 .. MaxLatency /\ ref_cnt \in 0 .. REFRESH_INT

\* The state of the adapter that waits for a command.
WaitsFor(cmd) ==
    CASE cmd = "rd" -> astate = "S_RD"
      [] cmd = "wr" -> astate = "S_WR"
      [] cmd = "refresh" -> astate = "S_REF"
      [] cmd = "init" -> astate = "S_IDLE" /\ ~init_seen
      [] OTHER -> TRUE

PortInv ==
    /\ ctrl.cmd # "none" => core.cmd = "none" /\ ctrl.cmd \in {"rd", "wr", "refresh"}
    /\ core.cmd \in {"none", "init", "rd", "wr", "refresh"}
    /\ WaitsFor(ctrl.cmd) /\ WaitsFor(core.cmd)
    /\ (mdtack <=> astate = "S_ACK")
    /\ (mem_cs <=> cstate \in {"FILL", "WRTH"})
    /\ ~init_seen => astate = "S_IDLE" /\ ref_cnt = 0 /\ ~ref_due

\* The adapter is back in S_IDLE after so many clocks.
ReleaseLeft ==
    CASE astate = "S_REF" -> CoreLeft + 1
      [] astate = "S_RD" -> CoreLeft + 3
      [] astate = "S_WR" -> CoreLeft + SecondLeft + 3
      [] astate = "S_ACK" -> IF mem_cs THEN 2 ELSE 1
      [] OTHER -> 0

RefreshInv ==
    ref_due =>
       /\ ref_cnt + ReleaseLeft <= (2 * MaxLatency) + 8
       /\ astate = "S_REF" => ref_cnt + CoreLeft <= MaxLatency + 1

PaceInv == PaceType /\ PortInv /\ RefreshInv

\* An interval has room for the longest access, the word that is written in
\* two bytes: with the 340 of the board, for a latency of up to 165 clocks.
RoomToRefresh == (2 * MaxLatency) + 9 <= REFRESH_INT

-----------------------------------------------------------------------------
InRange ==
    /\ CoreLeft \in 0 .. MaxLatency + 2
    /\ CoreLeft = 0 <=> Quiet
    /\ ReleaseLeft \in 0 .. (2 * MaxLatency) + 8

LEMMA CountsInRange == PaceType /\ PortInv => InRange
  <1>1. MaxLatency \in Nat
    BY ControllerAssumption DEF ControllerAssumption
  <1>2. SUFFICES ASSUME PaceType, PortInv PROVE InRange
    OBVIOUS
  <1>3. CoreLeft \in 0 .. MaxLatency + 2 /\ (CoreLeft = 0 <=> Quiet)
    BY <1>1, <1>2 DEF PaceType, PortInv, CoreLeft, Quiet
  <1>4. SecondLeft \in 0 .. MaxLatency + 3
    BY <1>1 DEF SecondLeft
  <1>5. astate \in AdapterState
    BY <1>2 DEF PaceType
  <1>6. ReleaseLeft \in 0 .. (2 * MaxLatency) + 8
    BY <1>1, <1>3, <1>4, <1>5 DEF ReleaseLeft, AdapterState
  <1>7. QED
    BY <1>3, <1>6 DEF InRange

LEMMA NextInRange == PaceType' /\ PortInv' => InRange'
  BY CountsInRange, PTL

\* A pending request has not met the end of its interval.
LEMMA Deadline ==
    PaceInv /\ RoomToRefresh => (ref_due => ref_cnt < REFRESH_INT)
  <1>1. MaxLatency \in Nat /\ REFRESH_INT \in Nat
    BY ControllerAssumption DEF ControllerAssumption
  <1>2. QED
    BY <1>1, CountsInRange DEF InRange, PaceInv, PaceType, RefreshInv, RoomToRefresh

\* The core comes closer to the end of its command at every clock.
LEMMA CoreCounts ==
    ASSUME PaceType, PortInv, CoreStep
    PROVE  /\ latency' \in 0 .. MaxLatency
           /\ core.cmd = "none" => core' = ctrl
           /\ core'.cmd \in {core.cmd, ctrl.cmd, "none"}
           /\ ctrl'.cmd = "none" => /\ CoreLeft' \in Nat
                                    /\ CoreLeft' = 0 \/ CoreLeft' < CoreLeft
           /\ ctrl'.cmd # "none" /\ Quiet => CoreLeft' = MaxLatency + 2
  <1>1. MaxLatency \in Nat /\ latency \in 0 .. MaxLatency
    BY ControllerAssumption DEF ControllerAssumption, PaceType
  <1>2. CASE CoreAccept
    BY <1>1, <1>2 DEF CoreAccept, CoreLeft, Quiet, busy, PortInv
  <1>3. CASE CoreWork
    BY <1>1, <1>3 DEF CoreWork, CoreLeft, Quiet, busy, PortInv
  <1>4. CASE CoreDone
    <2>1. core'.cmd = "none" /\ latency' = 0 /\ core.cmd # "none"
      BY <1>4 DEF CoreDone, NoCommand, busy
    <2>2. QED
      BY <1>1, <2>1 DEF CoreLeft, Quiet, PortInv
  <1>5. QED
    BY <1>2, <1>3, <1>4 DEF CoreStep

\* The refresh timer, while no request meets the end of the interval.
LEMMA TimerCounts ==
    ASSUME PaceType, PortInv, NEW issued \in BOOLEAN, RefreshTimer(issued),
           ref_due => ref_cnt < REFRESH_INT
    PROVE  /\ ref_cnt' \in 0 .. REFRESH_INT
           /\ init_seen => init_seen'
           /\ ~busy => init_seen'
           /\ busy => (init_seen' <=> init_seen)
           /\ issued => ~ref_due'
           /\ ~init_seen => ref_cnt' = 0 /\ ~ref_due'
           /\ ref_due /\ ref_due' => ref_cnt' = ref_cnt + 1
           /\ ~ref_due /\ ref_due' => ref_cnt' = 0 /\ ref_cnt = REFRESH_INT
           /\ init_seen /\ ~ref_due' /\ ~issued => ref_cnt' = ref_cnt + 1
           /\ init_seen /\ ref_due => ref_cnt' = ref_cnt + 1
  <1>1. REFRESH_INT \in Nat /\ ref_cnt \in 0 .. REFRESH_INT
    BY ControllerAssumption DEF ControllerAssumption, PaceType
  <1>2. ~init_seen => ref_cnt = 0 /\ ~ref_due
    BY DEF PortInv
  <1>3. init_seen' <=> (init_seen \/ ~busy)
    BY Zenon DEF RefreshTimer
  <1>4. CASE init_seen /\ ref_cnt >= REFRESH_INT
    <2>1. ref_cnt' = 0 /\ ~ref_due
      BY <1>1, <1>4 DEF RefreshTimer
    <2>2. ref_due' <=> ~issued
      BY <1>4 DEF RefreshTimer
    <2>3. QED
      BY <1>1, <1>3, <1>4, <2>1, <2>2
  <1>5. CASE ~(init_seen /\ ref_cnt >= REFRESH_INT)
    <2>1. ref_cnt' = IF init_seen THEN ref_cnt + 1 ELSE ref_cnt
      BY <1>5 DEF RefreshTimer
    <2>2. ref_due' <=> (~issued /\ ref_due)
      BY <1>5 DEF RefreshTimer
    <2>3. QED
      BY <1>1, <1>2, <1>3, <1>5, <2>1, <2>2
  <1>6. QED
    BY <1>4, <1>5

LEMMA CacheHandshake ==
    ASSUME PortInv, PaceType, CacheStep(mdtack, mrdata, mrdata32)
    PROVE  /\ cstate' \in CacheState
           /\ mem_cs' <=> cstate' \in {"FILL", "WRTH"}
           /\ mem_cs /\ mdtack => ~mem_cs'
  BY DEF PortInv, PaceType, CacheStep, CacheState, CacheIdle, CacheRead, CacheWrite,
         CacheHit, CacheMiss, CacheFill, CacheWriteThrough, CacheAck

\* The adapter, the port and the core stay in step.
LEMMA PortStep ==
    ASSUME PaceInv, RoomToRefresh, CacheStep(mdtack, mrdata, mrdata32),
           AdapterStep(mem_cs), CoreStep
    PROVE  PaceType' /\ PortInv'
  <1>1. PaceType /\ PortInv /\ (ref_due => ref_cnt < REFRESH_INT)
    BY Deadline DEF PaceInv
  <1>2. /\ core.cmd = "none" => core' = ctrl
        /\ core'.cmd \in {core.cmd, ctrl.cmd, "none"}
        /\ latency' \in 0 .. MaxLatency
    BY <1>1, CoreCounts
  <1>3. core.cmd # "none" => core'.cmd \in {core.cmd, "none"}
    BY <1>1, <1>2 DEF PortInv
  <1>4. cstate' \in CacheState /\ (mem_cs' <=> cstate' \in {"FILL", "WRTH"})
    BY <1>1, CacheHandshake
  <1>5. NoIssue => ctrl'.cmd = "none"
    BY DEF NoIssue, NoCommand
  <1>6. ASSUME NEW issued \in BOOLEAN, RefreshTimer(issued)
        PROVE  /\ ref_cnt' \in 0 .. REFRESH_INT
               /\ init_seen => init_seen'
               /\ ~busy => init_seen'
               /\ ~init_seen => ref_cnt' = 0 /\ ~ref_due'
    BY <1>1, <1>6, TimerCounts
  <1> USE DEF PaceType, PortInv, WaitsFor
  <1>7. CASE AIdle(mem_cs)
    <2>1. RefreshTimer(FALSE) /\ ctrl'.cmd = "none" /\ astate' = astate /\ astate = "S_IDLE"
          /\ mdtack' = mdtack
      BY <1>5, <1>7 DEF AIdle
    <2>2. core'.cmd = "none" \/ (core'.cmd = "init" /\ core.cmd = "init" /\ ~init_seen)
      BY <1>1, <1>2, <1>3, <2>1
    <2>3. core'.cmd = "none" \/ ~init_seen'
      BY <2>1, <2>2 DEF RefreshTimer, busy
    <2>4. QED
      BY <1>1, <1>2, <1>4, <1>6, <2>1, <2>2, <2>3
  <1>8. CASE ARefresh
    BY <1>1, <1>2, <1>4, <1>6, <1>8 DEF ARefresh, Ready, busy, AdapterState, NoCommand
  <1>9. CASE ARead(mem_cs)
    BY <1>1, <1>2, <1>4, <1>6, <1>9 DEF ARead, Ready, busy, AdapterState, Issue
  <1>10. CASE AWrite(mem_cs)
    <2>1. ctrl'.cmd = "wr" /\ core'.cmd = "none" /\ core.cmd = "none" /\ init_seen
      BY <1>1, <1>2, <1>10 DEF AWrite, Ready, busy, Issue
    <2>2. astate' = "S_WR" /\ mdtack' = mdtack /\ astate = "S_IDLE" /\ RefreshTimer(FALSE)
      BY <1>10 DEF AWrite
    <2>3. QED
      BY <1>1, <1>2, <1>4, <1>6, <2>1, <2>2 DEF AdapterState
  <1>11. CASE ASrd
    BY <1>1, <1>2, <1>3, <1>4, <1>5, <1>6, <1>11 DEF ASrd, Finished, busy, AdapterState
  <1>12. CASE ASwr
    <2>1. /\ astate = "S_WR" /\ RefreshTimer(FALSE) /\ init_seen /\ ~mdtack
          /\ ctrl.cmd \in {"none", "wr"} /\ core.cmd \in {"none", "wr"}
      BY <1>1, <1>12 DEF ASwr
    <2>2. \/ /\ Finished("wr") /\ astate' = "S_ACK" /\ mdtack' = TRUE /\ ctrl'.cmd = "none"
          \/ /\ Finished("wr") /\ astate' = "S_WR" /\ mdtack' = mdtack /\ ctrl'.cmd = "wr"
          \/ /\ ~Finished("wr") /\ astate' = "S_WR" /\ mdtack' = mdtack /\ ctrl'.cmd = "none"
      BY <1>5, <1>12 DEF ASwr, Issue
    <2>3. Finished("wr") => core'.cmd = "none"
      BY <1>2, <2>1 DEF Finished, busy
    <2>4. core'.cmd \in {"none", "wr"}
      BY <1>2, <2>1
    <2>5. init_seen' /\ ref_cnt' \in 0 .. REFRESH_INT
      BY <1>6, <2>1
    <2>6. CASE Finished("wr")
      BY <1>2, <1>4, <2>1, <2>2, <2>3, <2>5, <2>6 DEF AdapterState
    <2>7. CASE ~Finished("wr")
      BY <1>2, <1>4, <2>1, <2>2, <2>4, <2>5, <2>7 DEF AdapterState
    <2>8. QED
      BY <2>6, <2>7
  <1>13. CASE ASref
    BY <1>1, <1>2, <1>3, <1>4, <1>5, <1>6, <1>13 DEF ASref, Finished, busy, AdapterState
  <1>14. CASE ASack(mem_cs)
    BY <1>1, <1>2, <1>3, <1>4, <1>5, <1>6, <1>14 DEF ASack, busy, AdapterState
  <1>15. QED
    BY <1>7, <1>8, <1>9, <1>10, <1>11, <1>12, <1>13, <1>14 DEF AdapterStep

\* While a request waits, the adapter comes closer to S_IDLE at every clock.
LEMMA ReleaseCounts ==
    ASSUME PaceInv, RoomToRefresh, CacheStep(mdtack, mrdata, mrdata32),
           AdapterStep(mem_cs), CoreStep, ref_due, ref_due'
    PROVE  /\ ReleaseLeft' < ReleaseLeft
           /\ astate' = "S_REF" => astate = "S_REF" /\ CoreLeft' < CoreLeft
  <1>1. PaceType /\ PortInv /\ PaceType' /\ PortInv' /\ init_seen
    BY PortStep DEF PaceInv, PortInv
  <1>2. MaxLatency \in Nat
    BY ControllerAssumption DEF ControllerAssumption
  <1>3. /\ CoreLeft \in 0 .. MaxLatency + 2 /\ (CoreLeft = 0 <=> Quiet)
        /\ CoreLeft' \in 0 .. MaxLatency + 2
    BY <1>1, CountsInRange, NextInRange DEF InRange
  <1>4. /\ ctrl'.cmd = "none" => CoreLeft' = 0 \/ CoreLeft' < CoreLeft
        /\ ctrl'.cmd # "none" /\ Quiet => CoreLeft' = MaxLatency + 2
    BY <1>1, CoreCounts
  <1>5. NoIssue => ctrl'.cmd = "none"
    BY DEF NoIssue, NoCommand
  <1>6. CASE AIdle(mem_cs)
    BY <1>1, <1>6 DEF AIdle, Ready, busy, PortInv, WaitsFor
  <1>7. CASE ARefresh
    BY <1>7 DEF ARefresh, RefreshTimer
  <1>8. CASE ARead(mem_cs) \/ AWrite(mem_cs)
    BY <1>8 DEF ARead, AWrite
  <1>9. CASE ASrd
    <2>1. astate = "S_RD" /\ ctrl'.cmd = "none"
      BY <1>5, <1>9 DEF ASrd
    <2>2. CASE Finished("rd")
      <3>1. astate' = "S_ACK" /\ ReleaseLeft' \in {1, 2}
        BY <1>9, <2>2 DEF ASrd, ReleaseLeft
      <3>2. QED
        BY <1>3, <2>1, <3>1 DEF ReleaseLeft
    <2>3. CASE ~Finished("rd")
      <3>1. astate' = "S_RD" /\ CoreLeft # 0
        BY <1>1, <1>3, <1>9, <2>1, <2>3 DEF ASrd, Finished, Quiet, busy
      <3>2. QED
        BY <1>3, <1>4, <2>1, <3>1 DEF ReleaseLeft
    <2>4. QED
      BY <2>2, <2>3
  <1>10. CASE ASwr
    <2>1. astate = "S_WR" /\ SecondLeft \in 0 .. MaxLatency + 3
      BY <1>2, <1>10 DEF ASwr, SecondLeft
    <2>2. CASE Finished("wr") /\ need_second
      <3>1. astate' = "S_WR" /\ ctrl'.cmd = "wr" /\ SecondLeft' = 0
        BY <1>10, <2>2 DEF ASwr, Issue, SecondLeft
      <3>2. Quiet
        BY <1>1, <2>1, <2>2 DEF Finished, busy, Quiet, PortInv, WaitsFor
      <3>3. QED
        BY <1>2, <1>3, <1>4, <2>1, <2>2, <3>1, <3>2 DEF ReleaseLeft, SecondLeft
    <2>3. CASE Finished("wr") /\ ~need_second
      <3>1. astate' = "S_ACK" /\ ReleaseLeft' \in {1, 2}
        BY <1>10, <2>3 DEF ASwr, ReleaseLeft
      <3>2. QED
        BY <1>3, <2>1, <3>1 DEF ReleaseLeft
    <2>4. CASE ~Finished("wr")
      <3>1. /\ astate' = "S_WR" /\ ctrl'.cmd = "none" /\ CoreLeft # 0
            /\ SecondLeft' = SecondLeft
        BY <1>3, <1>5, <1>10, <2>4 DEF ASwr, Finished, Quiet, busy, SecondLeft
      <3>2. QED
        BY <1>3, <1>4, <2>1, <3>1 DEF ReleaseLeft
    <2>5. QED
      BY <2>2, <2>3, <2>4
  <1>11. CASE ASref
    <2>1. astate = "S_REF" /\ ctrl'.cmd = "none"
      BY <1>5, <1>11 DEF ASref
    <2>2. CASE Finished("refresh")
      BY <1>3, <1>11, <2>1, <2>2 DEF ASref, ReleaseLeft
    <2>3. CASE ~Finished("refresh")
      <3>1. astate' = "S_REF" /\ CoreLeft # 0
        BY <1>3, <1>11, <2>1, <2>3 DEF ASref, Finished, Quiet, busy
      <3>2. QED
        BY <1>3, <1>4, <2>1, <3>1 DEF ReleaseLeft
    <2>4. QED
      BY <2>2, <2>3
  <1>12. CASE ASack(mem_cs)
    <2>1. astate = "S_ACK" /\ mdtack /\ (mem_cs => ~mem_cs')
      BY <1>1, <1>12, CacheHandshake DEF ASack, PortInv
    <2>2. astate' = IF mem_cs THEN "S_ACK" ELSE "S_IDLE"
      BY <1>12 DEF ASack
    <2>3. QED
      BY <2>1, <2>2 DEF ReleaseLeft
  <1>13. QED
    BY <1>6, <1>7, <1>8, <1>9, <1>10, <1>11, <1>12 DEF AdapterStep

LEMMA RefreshStep ==
    ASSUME PaceInv, RoomToRefresh, CacheStep(mdtack, mrdata, mrdata32),
           AdapterStep(mem_cs), CoreStep
    PROVE  RefreshInv'
  <1>1. /\ PaceType /\ PortInv /\ RefreshInv /\ PaceType' /\ PortInv'
        /\ (ref_due => ref_cnt < REFRESH_INT)
    BY PortStep, Deadline DEF PaceInv
  <1>2. MaxLatency \in Nat /\ ref_cnt \in Nat /\ ref_cnt' \in Nat
    BY <1>1, ControllerAssumption DEF ControllerAssumption, PaceType
  <1>3. /\ CoreLeft \in 0 .. MaxLatency + 2 /\ CoreLeft' \in 0 .. MaxLatency + 2
        /\ ReleaseLeft \in Nat /\ ReleaseLeft' \in 0 .. (2 * MaxLatency) + 8
    BY <1>1, <1>2, CountsInRange, NextInRange DEF InRange
  <1>4. /\ CoreLeft' \in Nat /\ CoreLeft \in Nat /\ ReleaseLeft' \in Nat
        /\ ReleaseLeft \in Nat
        /\ ReleaseLeft' <= (2 * MaxLatency) + 8
        /\ MaxLatency + 1 \in Nat /\ (2 * MaxLatency) + 8 \in Nat
    BY <1>2, <1>3
  <1>5. SUFFICES ASSUME ref_due'
                 PROVE  /\ ref_cnt' + ReleaseLeft' <= (2 * MaxLatency) + 8
                        /\ astate' = "S_REF" => ref_cnt' + CoreLeft' <= MaxLatency + 1
    BY DEF RefreshInv
  <1>6. RefreshTimer(FALSE) /\ ~ARefresh
    BY <1>5 DEF AdapterStep, AIdle, ARefresh, ARead, AWrite, ASrd, ASwr, ASref, ASack,
                RefreshTimer
  <1>7. CASE ref_due
    <2>1. ref_cnt' = ref_cnt + 1
      BY <1>1, <1>5, <1>6, <1>7, TimerCounts
    <2>2. /\ ref_cnt + ReleaseLeft <= (2 * MaxLatency) + 8
          /\ astate = "S_REF" => ref_cnt + CoreLeft <= MaxLatency + 1
      BY <1>1, <1>7 DEF RefreshInv
    <2>3. /\ ReleaseLeft' < ReleaseLeft
          /\ astate' = "S_REF" => astate = "S_REF" /\ CoreLeft' < CoreLeft
      BY <1>5, <1>7, ReleaseCounts
    <2>4. \A r, s, b \in Nat : ref_cnt + r <= b /\ s < r => ref_cnt' + s <= b
      BY <1>2, <2>1
    <2>5. ref_cnt' + ReleaseLeft' <= (2 * MaxLatency) + 8
      BY <1>4, <2>2, <2>3, <2>4, Zenon
    <2>6. ASSUME astate' = "S_REF" PROVE ref_cnt' + CoreLeft' <= MaxLatency + 1
      BY <1>4, <2>2, <2>3, <2>4, <2>6, Zenon
    <2>7. QED
      BY <2>5, <2>6
  <1>8. CASE ~ref_due
    <2>1. ref_cnt' = 0
      BY <1>1, <1>5, <1>6, <1>8, TimerCounts
    <2>2. ASSUME astate' = "S_REF" PROVE CoreLeft' <= MaxLatency + 1
      <3>1. ASref
        BY <1>6, <2>2 DEF AdapterStep, AIdle, ARefresh, ARead, AWrite, ASrd, ASwr, ASack
      <3>2. ctrl'.cmd = "none"
        BY <3>1 DEF ASref, NoIssue, NoCommand
      <3>3. CoreLeft' = 0 \/ CoreLeft' < CoreLeft
        BY <1>1, <3>2, CoreCounts
      <3>4. QED
        BY <1>2, <1>3, <3>3
    <2>3. \A s, b \in Nat : s <= b => ref_cnt' + s <= b
      BY <2>1
    <2>4. ref_cnt' + ReleaseLeft' <= (2 * MaxLatency) + 8
      BY <1>4, <2>3, Zenon
    <2>5. ASSUME astate' = "S_REF" PROVE ref_cnt' + CoreLeft' <= MaxLatency + 1
      BY <1>4, <2>2, <2>3, <2>5, Zenon
    <2>6. QED
      BY <2>4, <2>5
  <1>9. QED
    BY <1>7, <1>8

LEMMA PaceInit == SocInit => PaceInv
  <1>1. SUFFICES ASSUME SocInit PROVE PaceInv
    OBVIOUS
  <1>2. ControllerInit /\ CacheInit
    BY <1>1 DEF SocInit, Init
  <1>3. PaceType
    BY <1>2, ControllerAssumption
    DEF ControllerAssumption, PaceType, ControllerInit, CacheInit, AdapterState, CacheState
  <1>4. PortInv
    BY <1>2 DEF ControllerInit, CacheInit, NoCommand, PortInv, WaitsFor
  <1>5. RefreshInv
    BY <1>2 DEF ControllerInit, RefreshInv
  <1>6. QED
    BY <1>3, <1>4, <1>5 DEF PaceInv

LEMMA PaceStep == RoomToRefresh /\ PaceInv /\ [SocTick]_socVars => PaceInv'
  <1>1. ASSUME RoomToRefresh, PaceInv, SocTick PROVE PaceInv'
    BY <1>1, PortStep, RefreshStep DEF SocTick, PaceInv
  <1>2. ASSUME PaceInv, UNCHANGED socVars PROVE PaceInv'
    BY <1>2
    DEF socVars, vars, cacheVars, adapterVars, coreVars, PaceInv, PaceType, PortInv,
        WaitsFor, RefreshInv, ReleaseLeft, SecondLeft, CoreLeft
  <1>3. QED
    BY <1>1, <1>2

(* A refresh request is served before the next one falls due, for every    *)
(* interval that has room for the longest access: whatever the CPU, the    *)
(* watchdog and the boot shadow do with the bus, the cache releases the    *)
(* adapter as soon as it has the answer (sdram_cache.v:115,124).           *)
THEOREM RefreshServed ==
    ASSUME RoomToRefresh
    PROVE  SocSpec => []NoRefreshLost
  <1>1. PaceInv => NoRefreshLost
    BY Deadline, ControllerAssumption
    DEF ControllerAssumption, NoRefreshLost, PaceInv, PaceType
  <1>2. PaceInv /\ [SocTick]_socVars => PaceInv'
    BY PaceStep
  <1>3. QED
    BY <1>1, <1>2, PaceInit, PTL DEF SocSpec

-----------------------------------------------------------------------------
(***************************************************************************)
(* The watchdog.  An access that waits for the adapter may meet two        *)
(* refreshes, one under way and one that falls due meanwhile, or the       *)
(* initialisation; then it has two bytes to write at most.                 *)
(***************************************************************************)
RefreshTime == MaxLatency + 4
AccessTime  == (2 * MaxLatency) + 8
ServeTime   == (2 * RefreshTime) + AccessTime

\* A refresh that falls due within n clocks.
Another(n) == IF ref_cnt + n >= REFRESH_INT THEN RefreshTime ELSE 0

\* The adapter takes the access of the cache after so many clocks.
TurnLeft ==
    IF astate = "S_REF"
    THEN (CoreLeft + 1) + (IF ref_due THEN RefreshTime ELSE Another(CoreLeft))
    ELSE IF ~Ready THEN CoreLeft + 1
    ELSE IF ref_due THEN RefreshTime + Another(MaxLatency + 3)
    ELSE 0

\* The adapter, and then the cache, has answered after so many clocks.
ServedLeft ==
    CASE astate = "S_RD" -> CoreLeft + 2
      [] astate = "S_WR" -> CoreLeft + SecondLeft + 2
      [] astate = "S_ACK" -> 1
      [] OTHER -> TurnLeft + AccessTime

AnswerLeft ==
    CASE cstate \in {"FILL", "WRTH"} -> ServedLeft
      [] cstate = "LOOK" -> ServeTime + 1
      [] OTHER -> IF bus.write THEN ServeTime + 1 ELSE ServeTime + 2

\* The CPU has MaxSetup clocks, and one, to strobe the data of a write.
WatchInv ==
    Selected /\ ~dtack =>
       IF Strobed THEN count + AnswerLeft <= MaxSetup + ServeTime + 2
       ELSE count <= MaxSetup

\* The bridge starts on the upper strobe of its slot, which stays.
BridgeInv == bridge = "REQ" => Bridged /\ "u" \in bus.ds

\* Its answer takes a clock to start it and those of its core.
BridgeLeft == IF bridge = "REQ" THEN (MaxAck - waited) + 1 ELSE MaxAck + 2

BridgeWatch ==
    Bridged /\ bridge # "DONE" =>
       IF Strobed THEN "u" \in bus.ds => count + BridgeLeft <= MaxSetup + MaxAck + 3
       ELSE count <= MaxSetup

SocInv ==
    /\ IInv /\ PaceInv /\ WatchdogTypeOK /\ WatchInv /\ NoFalseBusError
    /\ BridgeTypeOK /\ BridgeInv /\ BridgeWatch

\* A watchdog that leaves room for the longest access: with the 4096 of the
\* board, for a latency of a thousand clocks.
RoomToAnswer ==
    /\ MaxSetup + ServeTime + 2 <= TIMEOUT
    /\ MaxSetup + MaxAck + 3 <= TIMEOUT

LEMMA Times ==
    /\ MaxLatency \in Nat /\ REFRESH_INT \in Nat
    /\ MaxSetup \in Nat /\ MaxAck \in Nat /\ TIMEOUT \in Nat /\ TIMEOUT > 0
    /\ RefreshTime = MaxLatency + 4
    /\ AccessTime = (2 * MaxLatency) + 8
    /\ ServeTime = (4 * MaxLatency) + 16
  BY ControllerAssumption, SetupAssumption, WatchdogAssumption, BridgeAssumption
  DEF ControllerAssumption, SetupAssumption, WatchdogAssumption, BridgeAssumption,
      RefreshTime, AccessTime, ServeTime

ServeRange ==
    /\ TurnLeft \in 0 .. 2 * RefreshTime
    /\ ServedLeft \in 1 .. ServeTime

LEMMA ServedInRange == PaceInv => ServeRange
  <1>1. SUFFICES ASSUME PaceInv PROVE ServeRange
    OBVIOUS
  <1>2. PaceType /\ PortInv
    BY <1>1 DEF PaceInv
  <1>3. CoreLeft \in 0 .. MaxLatency + 2 /\ (CoreLeft = 0 <=> Quiet)
    BY <1>2, CountsInRange DEF InRange
  <1>4. \A n : Another(n) \in {0, RefreshTime}
    BY DEF Another
  <1>5. TurnLeft \in 0 .. 2 * RefreshTime
    BY <1>3, <1>4, Times DEF TurnLeft
  <1>6. SecondLeft \in 0 .. MaxLatency + 3
    BY Times DEF SecondLeft
  <1>7. astate \in AdapterState
    BY <1>2 DEF PaceType
  <1>8. ServedLeft \in 1 .. ServeTime
    BY <1>3, <1>5, <1>6, <1>7, Times DEF ServedLeft, AdapterState
  <1>9. QED
    BY <1>5, <1>8 DEF ServeRange

LEMMA NextServedInRange == PaceInv' => ServeRange'
  BY ServedInRange, PTL

\* While the cache waits, the adapter comes closer to its turn.
LEMMA TurnCounts ==
    ASSUME PaceInv, PaceInv', RoomToRefresh, AdapterStep(mem_cs), CoreStep,
           Requested(mem_cs), astate \in {"S_IDLE", "S_REF"}
    PROVE  \/ astate' \in {"S_IDLE", "S_REF"} /\ TurnLeft' < TurnLeft
           \/ /\ TurnLeft = 0 /\ CoreLeft' = MaxLatency + 2
              /\ \/ astate' = "S_RD"
                 \/ astate' = "S_WR" /\ SecondLeft' \in 0 .. MaxLatency + 3
  <1>1. /\ PaceType /\ PortInv /\ PaceType' /\ PortInv' /\ RefreshInv
        /\ (ref_due => ref_cnt < REFRESH_INT)
    BY Deadline DEF PaceInv
  <1>2. /\ CoreLeft \in 0 .. MaxLatency + 2 /\ (CoreLeft = 0 <=> Quiet)
        /\ CoreLeft' \in 0 .. MaxLatency + 2
    BY <1>1, CountsInRange, NextInRange DEF InRange
  <1>3. /\ ctrl'.cmd = "none" => CoreLeft' = 0 \/ CoreLeft' < CoreLeft
        /\ ctrl'.cmd # "none" /\ Quiet => CoreLeft' = MaxLatency + 2
        /\ core.cmd = "none" => core' = ctrl
    BY <1>1, CoreCounts
  <1>4. NoIssue => ctrl'.cmd = "none"
    BY DEF NoIssue, NoCommand
  <1>5. ref_cnt \in Nat /\ ref_cnt' \in Nat
    BY <1>1, Times DEF PaceType
  \* Only during the initialisation is it idle and not ready.
  <1>6. CASE AIdle(mem_cs)
    <2>1. /\ astate = "S_IDLE" /\ astate' = "S_IDLE" /\ ctrl'.cmd = "none"
          /\ RefreshTimer(FALSE) /\ ~Ready
      BY <1>4, <1>6 DEF AIdle, Requested
    <2>2. ctrl.cmd = "none" /\ ~init_seen
      BY <1>1, <2>1 DEF PortInv, WaitsFor, Ready, busy
    <2>3. ~ref_due'
      BY <1>1, <2>1, <2>2, TimerCounts
    <2>4. TurnLeft = CoreLeft + 1
      BY <2>1 DEF TurnLeft
    <2>5. CASE Ready'
      <3>1. TurnLeft' = 0
        BY <2>1, <2>3, <2>5 DEF TurnLeft
      <3>2. QED
        BY <1>2, <2>1, <2>4, <3>1
    <2>6. CASE ~Ready'
      <3>1. TurnLeft' = CoreLeft' + 1
        BY <2>1, <2>6 DEF TurnLeft
      <3>2. busy
        <4>1. SUFFICES ASSUME ~busy PROVE FALSE
          OBVIOUS
        <4>2. init_seen' /\ core'.cmd = "none"
          BY <1>1, <1>3, <2>1, <2>2, <4>1, TimerCounts DEF busy
        <4>3. QED
          BY <2>6, <4>2 DEF Ready, busy
      <3>3. CoreLeft # 0
        BY <1>2, <3>2 DEF Quiet, busy
      <3>4. CoreLeft' < CoreLeft
        BY <1>2, <1>3, <2>1, <3>3
      <3>5. \A m, n \in Nat : m < n => m + 1 < n + 1
        OBVIOUS
      <3>6. CoreLeft \in Nat /\ CoreLeft' \in Nat
        BY <1>2
      <3>7. QED
        BY <2>1, <2>4, <3>1, <3>4, <3>5, <3>6, Zenon
    <2>7. QED
      BY <2>5, <2>6
  <1>7. CASE ARefresh
    <2>1. /\ astate = "S_IDLE" /\ astate' = "S_REF" /\ ctrl'.cmd # "none"
          /\ RefreshTimer(TRUE) /\ Ready /\ ref_due /\ Quiet
      BY <1>1, <1>7 DEF ARefresh, NoCommand, Ready, busy, PortInv, WaitsFor, Quiet
    <2>2. ~ref_due' /\ ref_cnt' = ref_cnt + 1
      BY <1>1, <2>1, TimerCounts DEF Ready
    <2>3. CoreLeft' = MaxLatency + 2
      BY <1>3, <2>1
    <2>4. Another(MaxLatency + 2)' = Another(MaxLatency + 3)
      BY <1>5, <2>2, Times DEF Another
    <2>5. TurnLeft' = (MaxLatency + 3) + Another(MaxLatency + 3)
      BY <2>1, <2>2, <2>3, Times, <2>4 DEF TurnLeft
    <2>6. TurnLeft = RefreshTime + Another(MaxLatency + 3)
      BY <2>1 DEF TurnLeft
    <2>7. Another(MaxLatency + 3) \in Nat
      BY Times DEF Another
    <2>8. QED
      BY <2>1, <2>5, <2>6, <2>7, Times
  <1>8. CASE ARead(mem_cs)
    <2>1. /\ astate = "S_IDLE" /\ astate' = "S_RD" /\ ctrl'.cmd # "none"
          /\ Ready /\ ~ref_due /\ Quiet
      BY <1>1, <1>8 DEF ARead, Issue, Ready, busy, PortInv, WaitsFor, Quiet
    <2>2. QED
      BY <1>3, <2>1 DEF TurnLeft
  <1>9. CASE AWrite(mem_cs)
    <2>1. /\ astate = "S_IDLE" /\ astate' = "S_WR" /\ ctrl'.cmd # "none"
          /\ Ready /\ ~ref_due /\ Quiet
      BY <1>1, <1>9 DEF AWrite, Issue, Ready, busy, PortInv, WaitsFor, Quiet
    <2>2. SecondLeft' \in 0 .. MaxLatency + 3
      BY Times DEF SecondLeft
    <2>3. QED
      BY <1>3, <2>1, <2>2 DEF TurnLeft
  <1>10. CASE ASref
    <2>1. /\ astate = "S_REF" /\ ctrl'.cmd = "none" /\ RefreshTimer(FALSE) /\ init_seen
      BY <1>1, <1>4, <1>10 DEF ASref, PortInv
    <2>2. /\ ref_due /\ ref_due' => ref_cnt' = ref_cnt + 1
          /\ ~ref_due /\ ref_due' => ref_cnt' = 0 /\ ref_cnt = REFRESH_INT
          /\ ~ref_due' => ref_cnt' = ref_cnt + 1
          /\ ref_due => ref_cnt + CoreLeft <= MaxLatency + 1
          /\ init_seen'
      BY <1>1, <2>1, TimerCounts DEF RefreshInv
    <2> DEFINE again == IF ref_due THEN RefreshTime ELSE Another(CoreLeft)
    <2>3. TurnLeft = (CoreLeft + 1) + again /\ again \in {0, RefreshTime}
      BY <2>1 DEF TurnLeft, Another
    <2>4. CASE Finished("refresh")
      <3>1. astate' = "S_IDLE" /\ core'.cmd = "none" /\ CoreLeft = 0
        BY <1>1, <1>2, <1>3, <1>10, <2>1, <2>4
        DEF ASref, Finished, busy, PortInv, WaitsFor, Quiet
      <3>2. TurnLeft' = IF ref_due' THEN RefreshTime + Another(MaxLatency + 3)' ELSE 0
        BY <2>2, <3>1 DEF TurnLeft, Ready, busy
      <3>3. CASE ref_due'
        <4>1. ref_cnt' <= MaxLatency + 2 /\ again = RefreshTime
          BY <1>2, <1>5, <2>2, <3>1, <3>3, Times DEF Another
        <4>2. Another(MaxLatency + 3)' = 0
          <5>1. ~(ref_cnt' + (MaxLatency + 3) >= REFRESH_INT)
            <6>1. \A c \in Nat : c <= MaxLatency + 2 => ~(c + (MaxLatency + 3) >= REFRESH_INT)
              BY Times DEF RoomToRefresh
            <6>2. QED
              BY <1>5, <4>1, <6>1
          <5>2. QED
            BY <5>1 DEF Another
        <4>3. QED
          BY <2>3, <3>1, <3>2, <3>3, <4>1, <4>2, Times
      <3>4. CASE ~ref_due'
        BY <2>3, <3>1, <3>2, <3>4, Times
      <3>5. QED
        BY <3>3, <3>4
    <2>5. CASE ~Finished("refresh")
      <3>1. astate' = "S_REF" /\ CoreLeft # 0
        BY <1>2, <1>10, <2>1, <2>5 DEF ASref, Finished, busy, Quiet
      <3>2. CoreLeft' < CoreLeft
        BY <1>2, <1>3, <2>1, <3>1
      <3>3. TurnLeft' = (CoreLeft' + 1) + again'
        BY <3>1 DEF TurnLeft
      <3>4. again' \in {0, RefreshTime} /\ (again' = RefreshTime => again = RefreshTime)
        <4>1. CASE ref_due'
          <5>1. again' = RefreshTime
            BY <4>1
          <5>2. again = RefreshTime
            BY <1>2, <1>5, <2>2, <4>1, Times DEF Another
          <5>3. QED
            BY <5>1, <5>2
        <4>2. CASE ~ref_due'
          <5>1. again' = IF ref_cnt' + CoreLeft' >= REFRESH_INT THEN RefreshTime ELSE 0
            BY <4>2 DEF Another
          <5>2. ref_cnt' + CoreLeft' >= REFRESH_INT => ref_cnt + CoreLeft >= REFRESH_INT
            <6>1. \A c, m, n \in Nat : c + 1 + m >= REFRESH_INT /\ m < n => c + n >= REFRESH_INT
              BY Times
            <6>2. CoreLeft \in Nat /\ CoreLeft' \in Nat
              BY <1>2
            <6>3. QED
              BY <1>5, <2>2, <3>2, <4>2, <6>1, <6>2, Zenon
          <5>3. QED
            BY <5>1, <5>2 DEF Another
        <4>3. QED
          BY <4>1, <4>2
      <3>5. QED
        BY <1>2, <2>3, <3>1, <3>2, <3>3, <3>4, Times
    <2>6. QED
      BY <2>4, <2>5
  <1>11. CASE ASrd \/ ASwr \/ ASack(mem_cs)
    BY <1>11 DEF ASrd, ASwr, ASack
  <1>12. QED
    BY <1>6, <1>7, <1>8, <1>9, <1>10, <1>11 DEF AdapterStep

LEMMA ServedCounts ==
    ASSUME PaceInv, PaceInv', RoomToRefresh, AdapterStep(mem_cs), CoreStep,
           Requested(mem_cs), ~mdtack
    PROVE  ServedLeft' < ServedLeft
  <1>1. PaceType /\ PortInv /\ PaceType' /\ PortInv'
    BY DEF PaceInv
  <1>2. /\ CoreLeft \in 0 .. MaxLatency + 2 /\ (CoreLeft = 0 <=> Quiet)
        /\ CoreLeft' \in 0 .. MaxLatency + 2
    BY <1>1, CountsInRange, NextInRange DEF InRange
  <1>3. /\ ctrl'.cmd = "none" => CoreLeft' = 0 \/ CoreLeft' < CoreLeft
        /\ ctrl'.cmd # "none" /\ Quiet => CoreLeft' = MaxLatency + 2
    BY <1>1, CoreCounts
  <1>4. NoIssue => ctrl'.cmd = "none"
    BY DEF NoIssue, NoCommand
  <1>5. TurnLeft \in Nat /\ TurnLeft' \in Nat
    BY ServedInRange, NextServedInRange, Times DEF ServeRange
  <1>6. CASE astate \in {"S_IDLE", "S_REF"}
    <2>1. ServedLeft = TurnLeft + AccessTime
      BY <1>6 DEF ServedLeft
    <2>2. CASE astate' \in {"S_IDLE", "S_REF"} /\ TurnLeft' < TurnLeft
      <3>1. ServedLeft' = TurnLeft' + AccessTime
        BY <2>2 DEF ServedLeft
      <3>2. \A m, n \in Nat : m < n => m + AccessTime < n + AccessTime
        BY Times
      <3>3. QED
        BY <1>5, <2>1, <2>2, <3>1, <3>2, Zenon
    <2>3. CASE TurnLeft = 0 /\ CoreLeft' = MaxLatency + 2 /\ astate' = "S_RD"
      <3>1. ServedLeft' = (MaxLatency + 2) + 2
        BY <2>3 DEF ServedLeft
      <3>2. QED
        BY <2>1, <2>3, <3>1, Times
    <2>4. CASE /\ TurnLeft = 0 /\ CoreLeft' = MaxLatency + 2
               /\ astate' = "S_WR" /\ SecondLeft' \in 0 .. MaxLatency + 3
      <3>1. ServedLeft' = (MaxLatency + 2) + SecondLeft' + 2
        BY <2>4 DEF ServedLeft
      <3>2. \A s \in 0 .. MaxLatency + 3 : (MaxLatency + 2) + s + 2 < 0 + AccessTime
        BY Times
      <3>3. QED
        BY <2>1, <2>4, <3>1, <3>2, Zenon
    <2>5. QED
      BY <1>6, <2>2, <2>3, <2>4, TurnCounts
  <1>7. CASE ASrd
    <2>1. astate = "S_RD" /\ ctrl'.cmd = "none"
      BY <1>4, <1>7 DEF ASrd
    <2>2. CASE Finished("rd")
      <3>1. astate' = "S_ACK"
        BY <1>7, <2>2 DEF ASrd
      <3>2. QED
        BY <1>2, <2>1, <3>1 DEF ServedLeft
    <2>3. CASE ~Finished("rd")
      <3>1. astate' = "S_RD" /\ CoreLeft # 0
        BY <1>2, <1>7, <2>1, <2>3 DEF ASrd, Finished, Quiet, busy
      <3>2. QED
        BY <1>2, <1>3, <2>1, <3>1 DEF ServedLeft
    <2>4. QED
      BY <2>2, <2>3
  <1>8. CASE ASwr
    <2>1. astate = "S_WR" /\ SecondLeft \in 0 .. MaxLatency + 3
      BY <1>8, Times DEF ASwr, SecondLeft
    <2>2. CASE Finished("wr") /\ need_second
      <3>1. astate' = "S_WR" /\ ctrl'.cmd = "wr" /\ SecondLeft' = 0
        BY <1>8, <2>2 DEF ASwr, Issue, SecondLeft
      <3>2. Quiet
        BY <1>1, <2>1, <2>2 DEF Finished, busy, Quiet, PortInv, WaitsFor
      <3>3. QED
        BY <1>2, <1>3, <2>1, <2>2, <3>1, <3>2, Times DEF ServedLeft, SecondLeft
    <2>3. CASE Finished("wr") /\ ~need_second
      <3>1. astate' = "S_ACK"
        BY <1>8, <2>3 DEF ASwr
      <3>2. QED
        BY <1>2, <2>1, <3>1 DEF ServedLeft
    <2>4. CASE ~Finished("wr")
      <3>1. /\ astate' = "S_WR" /\ ctrl'.cmd = "none" /\ CoreLeft # 0
            /\ SecondLeft' = SecondLeft
        BY <1>2, <1>4, <1>8, <2>4 DEF ASwr, Finished, Quiet, busy, SecondLeft
      <3>2. QED
        BY <1>2, <1>3, <2>1, <3>1 DEF ServedLeft
    <2>5. QED
      BY <2>2, <2>3, <2>4
  <1>9. CASE ASack(mem_cs)
    BY <1>1, <1>9 DEF ASack, PortInv
  <1>10. QED
    BY <1>6, <1>7, <1>8, <1>9
    DEF AdapterStep, AIdle, ARefresh, ARead, AWrite, ASref

\* Without a BERR on the SDRAM the watchdog is invisible to the path.
LEMMA SocIsTick ==
    ASSUME NoFalseBusError, SocTick
    PROVE  Tick
  <1>1. ASSUME Selected, Answered \/ berr PROVE dtack
    BY <1>1 DEF Answered, NoFalseBusError, Selected, Bridged, ASn
  <1>2. CpuEnd(Answered \/ berr) => CpuEnd(Done)
    BY <1>1 DEF CpuEnd, Done
  <1>3. CpuTurn(Answered \/ berr) => CpuTurn(Done)
    BY <1>1 DEF CpuTurn, Done
  <1>4. CpuStep(Done)
    BY <1>2, <1>3 DEF SocTick, SocCpu, CpuStep
  <1>5. QED
    BY <1>4 DEF SocTick, Tick

\* What a step may do to a cycle.
LEMMA CycleStep ==
    ASSUME bus \in Cycle, NEW STATE done, CpuStep(done), ~ASn, bus'.sel # "none"
    PROVE  /\ bus'.sel = bus.sel
           /\ ~Strobed /\ bus' # bus => Strobed' /\ bus'.write = bus.write
           /\ ~Strobed => bus.write \/ bus' = bus
  <1>1. CASE CpuHold
    BY <1>1 DEF CpuHold
  <1>2. CASE CpuRead \/ CpuWrite
    BY <1>2 DEF CpuRead, CpuWrite
  <1>3. CASE CpuDrive
    <2>1. PICK v \in Word, d \in (SUBSET Lanes) \ {{}} :
             bus' = [bus EXCEPT !.ds = d, !.data = v]
      BY <1>3 DEF CpuDrive
    <2>2. QED
      BY <1>3, <2>1 DEF CpuDrive, Cycle, Strobed
  <1>4. CASE CpuEnd(done)
    BY <1>4, IdleCycle DEF CpuEnd
  <1>5. CASE CpuTurn(done)
    BY <1>5 DEF CpuTurn, Cycle, Strobed
  <1>6. QED
    BY <1>1, <1>2, <1>3, <1>4, <1>5 DEF CpuStep

\* An access that is not answered yet is so in time.
LEMMA AnswerCounts ==
    ASSUME SocInv, PaceInv', RoomToRefresh, RoomToAnswer, SocTick,
           Selected, ~dtack, Selected', ~dtack', count' = count + 1
    PROVE  IF Strobed' THEN count' + AnswerLeft' <= MaxSetup + ServeTime + 2
           ELSE count' <= MaxSetup
  <1>1. /\ PaceInv /\ TypeOK /\ CpuInv /\ CacheInv /\ bus \in Cycle /\ count \in Nat
        /\ cstate \in CacheState
    BY Times DEF SocInv, IInv, TypeOK, CacheTypeOK, WatchdogTypeOK
  <1>2. /\ Tick /\ CpuStep(Done) /\ CacheStep(mdtack, mrdata, mrdata32)
        /\ AdapterStep(mem_cs) /\ CoreStep
    BY SocIsTick DEF SocInv, Tick
  <1>3. ServedLeft \in 1 .. ServeTime /\ ServedLeft' \in 1 .. ServeTime
    BY <1>1, ServedInRange, NextServedInRange DEF ServeRange
  <1>4. cstate # "ACK"
    BY <1>1 DEF CacheInv
  <1>5. CASE ~Strobed
    <2>1. cstate = "IDLE" /\ cstate' = "IDLE" /\ bus.write /\ count <= MaxSetup
      BY <1>1, <1>2, <1>4, <1>5
      DEF SocInv, WatchInv, CpuInv, CacheInv, Serving, CacheState, Start, Selected, ASn,
          CacheStep, CacheIdle, CacheRead, CacheWrite, CacheHit, CacheMiss, CacheFill,
          CacheWriteThrough, CacheAck
    <2>2. CASE bus' = bus
      <3>1. count < MaxSetup
        BY <1>1, <1>5, <2>1, <2>2, Times DEF SocTick, SocCpu
      <3>2. ~Strobed'
        BY <1>5, <2>2 DEF Strobed
      <3>3. QED
        BY <1>1, <3>1, <3>2, Times
    <2>3. CASE bus' # bus
      <3>1. Strobed' /\ bus'.write
        BY <1>1, <1>2, <1>5, <2>1, <2>3, CycleStep DEF Selected, ASn
      <3>2. AnswerLeft' = ServeTime + 1
        BY <2>1, <3>1 DEF AnswerLeft
      <3>3. QED
        BY <1>1, <2>1, <3>1, <3>2, Times
    <2>4. QED
      BY <2>2, <2>3
  <1>6. CASE Strobed
    <2>1. bus' = bus /\ Strobed' /\ Start
      <3>1. Start
        BY <1>6 DEF Start
      <3>2. bus' = bus
        BY <1>2, <3>1, BusStable
      <3>3. QED
        BY <1>6, <3>1, <3>2 DEF Strobed
    <2>2. AnswerLeft' < AnswerLeft /\ AnswerLeft \in Nat /\ AnswerLeft' \in Nat
      <3>1. CASE cstate = "IDLE"
        <4>1. AnswerLeft = IF bus.write THEN ServeTime + 1 ELSE ServeTime + 2
          BY <3>1 DEF AnswerLeft
        <4>2. cstate' = IF bus.write THEN "WRTH" ELSE "LOOK"
          BY <1>2, <2>1, <3>1
          DEF CacheStep, CacheIdle, CacheRead, CacheWrite, CacheHit, CacheMiss, CacheFill,
              CacheWriteThrough, CacheAck
        <4>3. AnswerLeft' = IF bus.write THEN ServedLeft' ELSE ServeTime + 1
          BY <4>2 DEF AnswerLeft
        <4>4. QED
          BY <1>3, <4>1, <4>3, Times
      <3>2. CASE cstate = "LOOK"
        <4>1. AnswerLeft = ServeTime + 1
          BY <3>2 DEF AnswerLeft
        <4>2. cstate' = "FILL"
          BY <1>2, <3>2
          DEF CacheStep, CacheIdle, CacheRead, CacheWrite, CacheHit, CacheMiss, CacheFill,
              CacheWriteThrough, CacheAck
        <4>3. AnswerLeft' = ServedLeft'
          BY <4>2 DEF AnswerLeft
        <4>4. QED
          BY <1>3, <4>1, <4>3, Times
      <3>3. CASE cstate \in {"FILL", "WRTH"}
        <4>1. AnswerLeft = ServedLeft
          BY <3>3 DEF AnswerLeft
        <4>2. cstate' = cstate /\ ~mdtack
          BY <1>2, <3>3
          DEF CacheStep, CacheIdle, CacheRead, CacheWrite, CacheHit, CacheMiss, CacheFill,
              CacheWriteThrough, CacheAck
        <4>3. AnswerLeft' = ServedLeft'
          BY <3>3, <4>2 DEF AnswerLeft
        <4>4. Requested(mem_cs)
          BY <1>1, <1>6, <3>3 DEF CacheInv, Requested
        <4>5. ServedLeft' < ServedLeft
          BY <1>1, <1>2, <4>2, <4>4, ServedCounts
        <4>6. QED
          BY <1>3, <4>1, <4>3, <4>5, Times
      <3>4. QED
        BY <1>1, <1>4, <3>1, <3>2, <3>3 DEF CacheState
    <2>3. count + AnswerLeft <= MaxSetup + ServeTime + 2
      BY <1>6 DEF SocInv, WatchInv
    <2>4. \A m, n, b \in Nat : count + n <= b /\ m < n => (count + 1) + m <= b
      BY <1>1
    <2>5. MaxSetup + ServeTime + 2 \in Nat
      BY Times
    <2>6. QED
      BY <2>1, <2>2, <2>3, <2>4, <2>5, Zenon
  <1>7. QED
    BY <1>5, <1>6

\* A cycle of a bridge without an answer goes on, but for the error of a
\* byte in the lower lane.
LEMMA BridgeHeld ==
    ASSUME bus \in Cycle, NoFalseBusError, CpuStep(Answered \/ berr),
           Bridged, bridge # "DONE", Strobed
    PROVE  bus' = bus \/ (bus.ds = {"l"} /\ bus'.sel = "none")
  <1>1. ~Answered /\ (berr => bus.ds = {"l"}) /\ ~Selected
    BY DEF Answered, NoFalseBusError, Bridged, Selected, ASn
  <1>2. CASE CpuHold
    BY <1>2 DEF CpuHold
  <1>3. CASE CpuRead \/ CpuWrite \/ CpuDrive
    BY <1>3 DEF CpuRead, CpuWrite, CpuDrive, ASn, Bridged
  <1>4. CASE CpuEnd(Answered \/ berr)
    BY <1>1, <1>4, IdleCycle DEF CpuEnd
  <1>5. CASE CpuTurn(Answered \/ berr)
    BY <1>1, <1>5 DEF CpuTurn
  <1>6. QED
    BY <1>2, <1>3, <1>4, <1>5 DEF CpuStep

BridgeRange == BridgeLeft \in Nat /\ 1 <= BridgeLeft /\ BridgeLeft <= MaxAck + 2

LEMMA BridgeInRange == BridgeTypeOK => BridgeRange
  BY Times DEF BridgeTypeOK, BridgeRange, BridgeLeft

LEMMA NextBridgeInRange == BridgeTypeOK' => BridgeRange'
  BY BridgeInRange, PTL

\* An upper strobe without an answer has left the watchdog time.
LEMMA BridgeInTime ==
    ASSUME BridgeTypeOK, BridgeWatch, RoomToAnswer, count \in Nat,
           Bridged, bridge # "DONE", Strobed => "u" \in bus.ds
    PROVE  count < TIMEOUT
  <1>2. BridgeLeft \in Nat /\ 1 <= BridgeLeft
    BY BridgeInRange DEF BridgeRange
  <1>3. CASE Strobed
    <2>1. count + BridgeLeft <= MaxSetup + MaxAck + 3
      BY <1>3 DEF BridgeWatch
    <2>2. QED
      BY <1>2, <2>1, Times DEF RoomToAnswer
  <1>4. CASE ~Strobed
    <2>1. count <= MaxSetup
      BY <1>4 DEF BridgeWatch
    <2>2. QED
      BY <2>1, Times DEF RoomToAnswer
  <1>5. QED
    BY <1>3, <1>4

LEMMA BridgeCounts ==
    ASSUME SocInv, RoomToAnswer, SocTick
    PROVE  BridgeTypeOK' /\ BridgeInv' /\ BridgeWatch'
  <1>1. /\ bus \in Cycle /\ NoFalseBusError /\ BridgeTypeOK /\ BridgeInv /\ BridgeWatch
        /\ count \in Nat /\ CpuStep(Answered \/ berr)
    BY Times DEF SocInv, IInv, TypeOK, WatchdogTypeOK, SocTick, SocCpu
  <1>2. WatchdogStep(ASn \/ Answered) /\ BridgeStep(Bridged, "u" \in bus.ds)
    BY DEF SocTick
  <1>3. waited \in 0 .. MaxAck /\ MaxAck \in Nat /\ bus.ds \subseteq Lanes
    BY <1>1, Times DEF BridgeTypeOK, Cycle
  <1>4. BridgeTypeOK'
    BY <1>1, <1>2, <1>3
    DEF BridgeTypeOK, BridgeStep, BridgeIdle, BridgeWait, BridgeAck, BridgeDone
  <1>5. bridge' = "REQ" => Bridged /\ "u" \in bus.ds /\ bridge # "DONE"
    BY <1>1, <1>2
    DEF BridgeInv, BridgeStep, BridgeIdle, BridgeWait, BridgeAck, BridgeDone
  <1>6. BridgeInv'
    <2>1. SUFFICES ASSUME bridge' = "REQ" PROVE Bridged' /\ "u" \in bus'.ds
      BY DEF BridgeInv
    <2>2. bus' = bus
      BY <1>1, <1>5, <2>1, BridgeHeld DEF Strobed
    <2>3. QED
      BY <1>5, <2>1, <2>2 DEF Bridged
  <1>7. BridgeWatch'
    <2>1. SUFFICES ASSUME Bridged', bridge' # "DONE"
                   PROVE  IF Strobed' THEN "u" \in bus'.ds =>
                                           count' + BridgeLeft' <= MaxSetup + MaxAck + 3
                          ELSE count' <= MaxSetup
      BY DEF BridgeWatch
    <2>2. CASE ASn
      <3>1. count' = 0
        BY <1>2, <2>2 DEF WatchdogStep
      <3>2. BridgeLeft' \in Nat /\ BridgeLeft' <= MaxAck + 2
        BY <1>4, NextBridgeInRange DEF BridgeRange
      <3>3. \A n \in Nat : n <= MaxAck + 2 => 0 + n <= MaxSetup + MaxAck + 3
        BY Times
      <3>4. 0 <= MaxSetup
        BY Times
      <3>5. QED
        BY <3>1, <3>2, <3>3, <3>4, Zenon
    <2>3. CASE ~ASn
      <3>1. Bridged
        BY <1>1, <2>1, <2>3, CycleStep DEF Bridged
      <3>2. bridge # "DONE"
        BY <1>2, <2>1, <3>1
        DEF BridgeStep, BridgeIdle, BridgeWait, BridgeAck, BridgeDone
      <3>3. ~Answered /\ ~Selected
        BY <3>1, <3>2 DEF Answered, Bridged, Selected
      <3>4. CASE ~Strobed
        <4>2. bridge = "IDLE" /\ bridge' = "IDLE"
          <5>1. "u" \notin bus.ds /\ bridge \in {"IDLE", "REQ"}
            BY <1>1, <3>2, <3>4 DEF BridgeTypeOK, Strobed
          <5>2. bridge = "IDLE"
            BY <1>1, <5>1 DEF BridgeInv
          <5>3. QED
            BY <1>2, <5>1, <5>2
            DEF BridgeStep, BridgeIdle, BridgeWait, BridgeAck, BridgeDone
        <4>3. count <= MaxSetup
          BY <3>1, <3>4, <4>2 DEF BridgeWatch, SocInv
        <4>4. count' = count + 1
          <5>1. count < TIMEOUT
            BY <1>1, <3>1, <3>2, <3>4, BridgeInTime
          <5>2. QED
            BY <1>1, <1>2, <2>3, <3>3, <5>1, Times DEF WatchdogStep
        <4>5. CASE bus' = bus
          <5>1. bus.write
            BY <2>3, <3>4 DEF SocInv, IInv, CpuInv
          <5>2. count < MaxSetup
            BY <1>1, <3>4, <4>5, <5>1, Times DEF SocTick, SocCpu
          <5>3. ~Strobed'
            BY <3>4, <4>5 DEF Strobed
          <5>4. QED
            BY <1>1, <4>4, <5>2, <5>3, Times
        <4>6. CASE bus' # bus
          <5>1. Strobed'
            BY <1>1, <2>1, <2>3, <3>4, <4>6, CycleStep DEF Bridged
          <5>2. BridgeLeft' = MaxAck + 2
            BY <4>2 DEF BridgeLeft
          <5>3. \A c \in Nat : c <= MaxSetup => (c + 1) + (MaxAck + 2) <= MaxSetup + MaxAck + 3
            BY Times
          <5>4. QED
            BY <1>1, <4>3, <4>4, <5>1, <5>2, <5>3, Zenon
        <4>7. QED
          BY <4>5, <4>6
      <3>5. CASE Strobed
        <4>1. SUFFICES ASSUME "u" \in bus'.ds
                       PROVE  count' + BridgeLeft' <= MaxSetup + MaxAck + 3
          <5>1. bus' = bus
            BY <1>1, <2>1, <3>1, <3>2, <3>5, BridgeHeld DEF Bridged
          <5>2. QED
            BY <3>5, <5>1 DEF Strobed
        <4>2. "u" \in bus.ds
          BY <1>1, <2>1, <3>1, <3>2, <3>5, <4>1, BridgeHeld DEF Bridged
        <4>3. count < TIMEOUT
          BY <1>1, <3>1, <3>2, <4>2, BridgeInTime
        <4>4. count' = count + 1
          BY <1>1, <1>2, <2>3, <3>3, <4>3, Times DEF WatchdogStep
        <4>5. BridgeLeft' < BridgeLeft
          <5>1. CASE bridge = "IDLE"
            <6>1. bridge' = "REQ" /\ waited' = waited
              BY <1>2, <3>1, <4>2, <5>1
              DEF BridgeStep, BridgeIdle, BridgeWait, BridgeAck, BridgeDone
            <6>2. BridgeLeft = MaxAck + 2 /\ BridgeLeft' = (MaxAck - waited) + 1
              BY <5>1, <6>1 DEF BridgeLeft
            <6>3. QED
              BY <1>3, <6>2
          <5>2. CASE bridge = "REQ"
            <6>1. bridge' = "REQ" /\ waited' = waited + 1
              BY <1>2, <2>1, <5>2
              DEF BridgeStep, BridgeIdle, BridgeWait, BridgeAck, BridgeDone
            <6>2. BridgeLeft = (MaxAck - waited) + 1
                  /\ BridgeLeft' = (MaxAck - (waited + 1)) + 1
              BY <5>2, <6>1 DEF BridgeLeft
            <6>3. QED
              BY <1>3, <6>2
          <5>3. QED
            BY <1>1, <3>2, <5>1, <5>2 DEF BridgeTypeOK
        <4>6. count + BridgeLeft <= MaxSetup + MaxAck + 3
          BY <1>1, <3>1, <3>2, <3>5, <4>2 DEF BridgeWatch
        <4>7. \A m, n, b \in Nat : count + n <= b /\ m < n => (count + 1) + m <= b
          BY <1>1
        <4>8. BridgeLeft \in Nat /\ BridgeLeft' \in Nat /\ MaxSetup + MaxAck + 3 \in Nat
          BY <1>1, <1>4, BridgeInRange, NextBridgeInRange, Times DEF BridgeRange
        <4>9. QED
          BY <4>4, <4>5, <4>6, <4>7, <4>8, Zenon
      <3>6. QED
        BY <3>4, <3>5
    <2>4. QED
      BY <2>2, <2>3
  <1>8. QED
    BY <1>4, <1>6, <1>7

LEMMA WatchStep ==
    ASSUME SocInv, PaceInv', IInv', RoomToRefresh, RoomToAnswer, SocTick
    PROVE  WatchdogTypeOK' /\ WatchInv' /\ NoFalseBusError'
  <1>1. /\ TypeOK /\ CpuInv /\ CacheInv /\ bus \in Cycle /\ cstate \in CacheState
        /\ CacheInv' /\ WatchdogTypeOK /\ count \in Nat /\ PaceInv
    BY Times DEF SocInv, IInv, TypeOK, CacheTypeOK, WatchdogTypeOK
  <1>2. /\ CpuStep(Done) /\ CacheStep(mdtack, mrdata, mrdata32)
        /\ WatchdogStep(ASn \/ Answered)
    BY SocIsTick DEF SocInv, Tick, SocTick
  <1>3. WatchdogTypeOK'
    <2>1. count \in 0 .. TIMEOUT /\ berr \in BOOLEAN
      BY <1>1 DEF WatchdogTypeOK
    <2>2. count' \in 0 .. TIMEOUT
      BY <1>2, <2>1, Times DEF WatchdogStep
    <2>3. berr' \in {TRUE, FALSE, berr}
      BY <1>2 DEF WatchdogStep
    <2>4. QED
      BY <2>1, <2>2, <2>3 DEF WatchdogTypeOK
  <1>4. ~ASn /\ bus'.sel # "none" => bus'.sel = bus.sel
    BY <1>1, <1>2, CycleStep
  \* An access in progress has left the watchdog time.
  <1>5. ASSUME Selected, ~dtack PROVE count < TIMEOUT /\ ~berr
    <2>1. count + 1 <= MaxSetup + ServeTime + 2
      <3>1. AnswerLeft \in Nat /\ AnswerLeft >= 1
        <4>1. ServedLeft \in 1 .. ServeTime
          BY <1>1, ServedInRange DEF ServeRange
        <4>2. QED
          BY <4>1, Times DEF AnswerLeft
      <3>2. QED
        BY <1>1, <1>5, <3>1, Times DEF SocInv, WatchInv
    <2>2. count < TIMEOUT
      BY <1>1, <2>1, Times DEF RoomToAnswer
    <2>3. QED
      BY <1>5, <2>2 DEF SocInv, NoFalseBusError, ASn, Selected, Bridged
  <1>6. ASSUME Selected, ~dtack PROVE count' = count + 1 /\ ~berr'
    <2>1. ~(ASn \/ Answered)
      BY <1>6 DEF ASn, Selected, Bridged, Answered
    <2>2. count # TIMEOUT /\ ~berr
      BY <1>1, <1>5, <1>6, Times
    <2>3. QED
      BY <1>2, <2>1, <2>2 DEF WatchdogStep
  <1>7. NoFalseBusError'
    <2>1. CASE ASn \/ Answered
      BY <1>2, <2>1 DEF WatchdogStep, NoFalseBusError
    <2>2. CASE Selected /\ ~dtack
      BY <1>6, <2>2 DEF NoFalseBusError
    <2>3. CASE bus.sel = "unmapped"
      BY <1>4, <2>3 DEF NoFalseBusError, ASn
    <2>4. CASE Bridged /\ ~Answered
      <3>1. bridge # "DONE" /\ ~ASn
        BY <2>4 DEF Answered, Bridged, ASn
      <3>2. CASE Strobed /\ bus.ds = {"l"}
        <4>1. bus' = bus \/ bus'.sel = "none"
          BY <1>1, <2>4, <3>1, <3>2, BridgeHeld DEF SocInv, SocTick, SocCpu
        <4>2. QED
          BY <2>4, <3>2, <4>1 DEF NoFalseBusError, Bridged, ASn
      <3>3. CASE ~(Strobed /\ bus.ds = {"l"})
        <4>1. Strobed => "u" \in bus.ds
          BY <1>1, <3>3 DEF Cycle, Lanes, Strobed
        <4>2. count < TIMEOUT
          BY <1>1, <2>4, <3>1, <4>1, BridgeInTime DEF SocInv
        <4>3. ~berr
          BY <2>4, <3>1, <3>3 DEF SocInv, NoFalseBusError, Bridged, Strobed, ASn
        <4>4. ~berr'
          BY <1>1, <1>2, <2>4, <3>1, <4>2, <4>3, Times DEF WatchdogStep
        <4>5. QED
          BY <4>4 DEF NoFalseBusError
      <3>4. QED
        BY <3>2, <3>3
    <2>5. QED
      BY <1>1, <2>1, <2>2, <2>3, <2>4
      DEF Cycle, Target, ASn, Answered, Selected, Bridged
  <1>8. WatchInv'
    <2>1. SUFFICES ASSUME Selected', ~dtack'
                   PROVE  IF Strobed' THEN count' + AnswerLeft' <= MaxSetup + ServeTime + 2
                          ELSE count' <= MaxSetup
      BY DEF WatchInv
    <2>2. CASE ASn
      <3>1. count' = 0
        BY <1>2, <2>2 DEF WatchdogStep
      <3>2. cstate' = "IDLE"
        <4>1. cstate \in {"IDLE", "ACK"} /\ ~Start
          BY <1>1, <2>2 DEF CacheInv, Serving, CacheState, Start, Selected, ASn
        <4>2. QED
          BY <1>2, <2>1, <2>2, <4>1
          DEF CacheStep, CacheIdle, CacheRead, CacheWrite, CacheHit, CacheMiss, CacheFill,
              CacheWriteThrough, CacheAck, Selected, ASn
      <3>3. AnswerLeft' \in {ServeTime + 1, ServeTime + 2}
        BY <3>2 DEF AnswerLeft
      <3>4. QED
        <4>1. \A n \in {ServeTime + 1, ServeTime + 2} : 0 + n <= MaxSetup + ServeTime + 2
          BY Times
        <4>2. 0 <= MaxSetup
          BY Times
        <4>3. QED
          BY <3>1, <3>3, <4>1, <4>2, Zenon
    <2>3. CASE ~ASn
      <3>1. Selected
        BY <1>4, <2>1, <2>3 DEF Selected
      <3>2. ~dtack
        BY <1>1, <1>2, <2>1, <3>1
        DEF CacheInv, CacheStep, CacheIdle, CacheRead, CacheWrite, CacheHit, CacheMiss,
            CacheFill, CacheWriteThrough, CacheAck
      <3>3. QED
        BY <1>6, <2>1, <3>1, <3>2, AnswerCounts
    <2>4. QED
      BY <2>2, <2>3
  <1>9. QED
    BY <1>3, <1>7, <1>8

LEMMA SocStart == SocInit => SocInv
  <1>1. SUFFICES ASSUME SocInit PROVE SocInv
    OBVIOUS
  <1>2. IInv /\ PaceInv
    BY <1>1, PaceInit, InitInv DEF SocInit
  <1>3. ~Selected /\ ~berr /\ count = 0 /\ berr \in BOOLEAN
    BY <1>1, IdleCycle DEF SocInit, Init, BusInit, WatchdogInit, Selected
  <1>4. WatchdogTypeOK
    BY <1>3, Times DEF WatchdogTypeOK
  <1>5. BridgeTypeOK /\ bridge = "IDLE" /\ ~Bridged
    BY <1>1, IdleCycle, Times
    DEF SocInit, Init, BusInit, BridgeInit, BridgeTypeOK, Bridged
  <1>6. QED
    BY <1>2, <1>3, <1>4, <1>5
    DEF SocInv, WatchInv, NoFalseBusError, BridgeInv, BridgeWatch

LEMMA SocStep ==
    ASSUME RoomToRefresh, RoomToAnswer
    PROVE  SocInv /\ [SocTick]_socVars => SocInv'
  <1>1. ASSUME SocInv, SocTick PROVE SocInv'
    <2>1. IInv /\ PaceInv /\ Tick
      BY <1>1, SocIsTick DEF SocInv
    <2>2. IInv'
      BY <2>1, StepInv
    <2>3. PaceInv'
      BY <1>1, <2>1, PaceStep
    <2>4. QED
      BY <1>1, <2>2, <2>3, WatchStep, BridgeCounts DEF SocInv
  <1>2. ASSUME SocInv, UNCHANGED socVars PROVE SocInv'
    <2>1. UNCHANGED vars /\ UNCHANGED watchdogVars /\ UNCHANGED bridgeVars
      BY <1>2 DEF socVars
    <2>2. IInv'
      BY <1>2, <2>1, StepInv DEF SocInv
    <2>3. PaceInv'
      BY <1>2, PaceStep DEF SocInv
    <2>4. (WatchdogTypeOK /\ WatchInv /\ NoFalseBusError)'
      BY <1>2, <2>1
      DEF vars, cacheVars, adapterVars, coreVars, watchdogVars, SocInv, WatchdogTypeOK,
          WatchInv, NoFalseBusError, Bridged, ASn, Selected, Strobed, AnswerLeft, ServedLeft,
          TurnLeft, Another, SecondLeft, CoreLeft, Ready, busy
    <2>5. (BridgeTypeOK /\ BridgeInv /\ BridgeWatch)'
      BY <1>2, <2>1
      DEF vars, watchdogVars, bridgeVars, SocInv, BridgeTypeOK, BridgeInv, BridgeWatch,
          BridgeLeft, Bridged, Strobed
    <2>6. QED
      BY <2>2, <2>3, <2>4, <2>5 DEF SocInv
  <1>3. QED
    BY <1>1, <1>2

(* BERRn reaches the CPU only in a cycle that no slave is there to answer, *)
(* for every latency of the cores, delay of the data strobes, refresh      *)
(* interval and watchdog with room for the longest access of the SDRAM and *)
(* of a bridge (mackerel_f.v:366-391, uart.v:36-60, spi.v:39-63).          *)
THEOREM NoFalseErrors ==
    ASSUME RoomToRefresh, RoomToAnswer
    PROVE  SocSpec => []NoFalseBusError
  <1>1. SocInv => NoFalseBusError
    BY DEF SocInv
  <1>2. SocInv /\ [SocTick]_socVars => SocInv'
    BY SocStep
  <1>3. QED
    BY <1>1, <1>2, SocStart, PTL DEF SocSpec

(* In the whole machine the memory path behaves as it does by itself: the  *)
(* watchdog and the boot shadow leave its cycles alone (mackerel_f.v:      *)
(* 366-391), so that what is proved of Spec, its coherence and what reads  *)
(* return among it, holds in the machine.                                  *)
THEOREM PathIsUndisturbed ==
    ASSUME RoomToRefresh, RoomToAnswer
    PROVE  SocSpec => Spec
  <1>1. SocInit => Init
    BY DEF SocInit
  <1>2. SocInv /\ [SocTick]_socVars => [Tick]_vars
    BY SocIsTick DEF SocInv, socVars
  <1>3. SocInv /\ [SocTick]_socVars => SocInv'
    BY SocStep
  <1>4. QED
    BY <1>1, <1>2, <1>3, SocStart, PTL DEF SocSpec, Spec
=============================================================================
