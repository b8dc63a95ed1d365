-------------------------- MODULE SdramController --------------------------
(***************************************************************************)
(* sdram_controller.v: the adapter that turns one chip-select of the cache *)
(* into the byte commands of the SDRAM core, and refreshes the SDRAM.  The *)
(* core itself is external: the actions Core* are what the adapter relies  *)
(* on.  A core command raises busy at the edge that samples it, works for  *)
(* a while, and drops busy with the work done.                             *)
(*                                                                         *)
(* ctrl_rd, ctrl_wr, ctrl_refresh, ctrl_addr and ctrl_din are one value,   *)
(* the command on the port, which is there for one clock.                  *)
(***************************************************************************)
EXTENDS M68kBus

CONSTANTS
    REFRESH_INT,     \* clocks between two refresh requests
    MaxLatency       \* bound: clocks the core may add to a command

ASSUME ControllerAssumption == REFRESH_INT \in Nat /\ MaxLatency \in Nat

VARIABLES
    astate,          \* `state'
    ctrl,            \* the command port
    need_second,     \* the low byte of a word is still to be written
    mrdata, mrdata32, mdtack,            \* to the cache
    ref_cnt, ref_due, init_seen,         \* the refresh timer
    core,            \* external: the command the core executes
    dout32,          \* external: the line read, while data_ready
    latency,         \* external: how long the core has been busy
    mem              \* external: the SDRAM array

adapterVars == <<astate, ctrl, need_second, mrdata, mrdata32, mdtack,
                 ref_cnt, ref_due, init_seen>>
coreVars == <<core, dout32, latency, mem>>

AdapterState == {"S_IDLE", "S_RD", "S_WR", "S_REF", "S_ACK"}
Command == [cmd : {"none", "init", "rd", "wr", "refresh"}, line : LineAddr,
            word : Sel, lane : Lanes, din : Byte]
NoCommand == [cmd |-> "none", line |-> NoCycle.line, word |-> 0, lane |-> "u",
              din |-> NoCycle.data["u"]]

ControllerTypeOK ==
    /\ astate \in AdapterState
    /\ ctrl \in Command /\ core \in Command
    /\ need_second \in BOOLEAN /\ mdtack \in BOOLEAN
    /\ mrdata \in Word \cup {None} /\ mrdata32 \in Line \cup {None}
    /\ ref_cnt \in 0 .. REFRESH_INT
    /\ ref_due \in BOOLEAN /\ init_seen \in BOOLEAN
    /\ dout32 \in Line \cup {None}
    /\ latency \in 0 .. MaxLatency
    /\ mem \in [LineAddr -> Line]

\* The SDRAM comes up with any content; the core is busy initialising it.
ControllerInit ==
    /\ astate = "S_IDLE"
    /\ ctrl = NoCommand
    /\ need_second = FALSE
    /\ mrdata = None /\ mrdata32 = None /\ mdtack = FALSE
    /\ ref_cnt = 0 /\ ref_due = FALSE /\ init_seen = FALSE
    /\ core = [NoCommand EXCEPT !.cmd = "init"]
    /\ dout32 = None /\ latency = 0
    /\ mem \in [LineAddr -> Line]

busy == core.cmd # "none"

-----------------------------------------------------------------------------
(* The external core.                                                      *)

CoreAccept ==
    /\ ~busy
    /\ core' = ctrl /\ latency' = 0 /\ dout32' = None
    /\ UNCHANGED mem

CoreWork ==
    /\ busy /\ latency < MaxLatency
    /\ latency' = latency + 1 /\ dout32' = None
    /\ UNCHANGED <<core, mem>>

CoreDone ==
    /\ busy
    /\ core' = NoCommand /\ latency' = 0
    /\ dout32' = IF core.cmd = "rd" THEN mem[core.line] ELSE None
    /\ mem' = IF core.cmd = "wr"
              THEN [mem EXCEPT ![core.line][core.word][core.lane] = core.din]
              ELSE mem

CoreStep == CoreAccept \/ CoreWork \/ CoreDone

-----------------------------------------------------------------------------
(* The adapter.  RefreshTimer is the part every clock executes; the state  *)
(* machine comes after it in the code, so a refresh that is issued clears  *)
(* a request that falls due at the same edge.                              *)

\* The mutant counts one clock too far.
RefreshTimerMutant(issued) ==
    LET expired == init_seen /\ ref_cnt > REFRESH_INT IN
    /\ init_seen' = (init_seen \/ ~busy)
    /\ ref_cnt' = IF expired THEN 0 ELSE IF init_seen THEN ref_cnt + 1 ELSE ref_cnt
    /\ ref_due' = (~issued /\ (ref_due \/ expired))

RefreshTimer(issued) ==
    LET expired == init_seen /\ ref_cnt >= REFRESH_INT IN
    /\ init_seen' = (init_seen \/ ~busy)
    /\ ref_cnt' = IF expired THEN 0 ELSE IF init_seen THEN ref_cnt + 1 ELSE ref_cnt
    /\ ref_due' = (~issued /\ (ref_due \/ expired))

Issue(c, line, word, lane, din) ==
    ctrl' = [cmd |-> c, line |-> line, word |-> word, lane |-> lane, din |-> din]

NoIssue == ctrl' = NoCommand

Ready == init_seen /\ ~busy
Requested(cs) == cs /\ Strobed

AIdle(cs) ==
    /\ astate = "S_IDLE"
    /\ ~Ready \/ (~ref_due /\ ~Requested(cs))
    /\ NoIssue /\ RefreshTimer(FALSE)
    /\ UNCHANGED <<astate, need_second, mrdata, mrdata32, mdtack>>

ARefresh ==
    /\ astate = "S_IDLE" /\ Ready /\ ref_due
    /\ ctrl' = [NoCommand EXCEPT !.cmd = "refresh"] /\ RefreshTimer(TRUE)
    /\ astate' = "S_REF"
    /\ UNCHANGED <<need_second, mrdata, mrdata32, mdtack>>

ARead(cs) ==
    /\ astate = "S_IDLE" /\ Ready /\ ~ref_due /\ Requested(cs) /\ ~bus.write
    /\ Issue("rd", bus.line, bus.word, "u", NoCommand.din) /\ RefreshTimer(FALSE)
    /\ astate' = "S_RD"
    /\ UNCHANGED <<need_second, mrdata, mrdata32, mdtack>>

\* The upper byte first; the lower one in the same access if both strobe.
AWrite(cs) ==
    /\ astate = "S_IDLE" /\ Ready /\ ~ref_due /\ Requested(cs) /\ bus.write
    /\ IF "u" \in bus.ds
       THEN /\ Issue("wr", bus.line, bus.word, "u", bus.data["u"])
            /\ need_second' = ("l" \in bus.ds)
       ELSE /\ Issue("wr", bus.line, bus.word, "l", bus.data["l"])
            /\ need_second' = FALSE
    /\ RefreshTimer(FALSE)
    /\ astate' = "S_WR"
    /\ UNCHANGED <<mrdata, mrdata32, mdtack>>

\* busy only rises the clock after the command: it is not sampled before.
\* The mutant takes the low busy of that clock for the end.
FinishedMutant(cmd) == ~busy
Finished(cmd) == ctrl.cmd # cmd /\ ~busy

ASrd ==
    /\ astate = "S_RD"
    /\ IF dout32 # None
       THEN mrdata' = dout32[bus.word] /\ mrdata32' = dout32
       ELSE UNCHANGED <<mrdata, mrdata32>>
    /\ IF Finished("rd")
       THEN mdtack' = TRUE /\ astate' = "S_ACK"
       ELSE UNCHANGED <<mdtack, astate>>
    /\ NoIssue /\ RefreshTimer(FALSE)
    /\ UNCHANGED need_second

ASwr ==
    /\ astate = "S_WR"
    /\ IF Finished("wr")
       THEN IF need_second
            THEN /\ Issue("wr", bus.line, bus.word, "l", bus.data["l"])
                 /\ need_second' = FALSE
                 /\ UNCHANGED <<mdtack, astate>>
            ELSE /\ mdtack' = TRUE /\ astate' = "S_ACK"
                 /\ NoIssue /\ UNCHANGED need_second
       ELSE NoIssue /\ UNCHANGED <<need_second, mdtack, astate>>
    /\ RefreshTimer(FALSE)
    /\ UNCHANGED <<mrdata, mrdata32>>

ASref ==
    /\ astate = "S_REF"
    /\ IF Finished("refresh") THEN astate' = "S_IDLE" ELSE UNCHANGED astate
    /\ NoIssue /\ RefreshTimer(FALSE)
    /\ UNCHANGED <<need_second, mrdata, mrdata32, mdtack>>

ASack(cs) ==
    /\ astate = "S_ACK"
    /\ IF cs
       THEN UNCHANGED <<mrdata, mrdata32, mdtack, astate>>
       ELSE /\ mdtack' = FALSE /\ mrdata' = None /\ mrdata32' = None
            /\ astate' = "S_IDLE"
    /\ NoIssue /\ RefreshTimer(FALSE)
    /\ UNCHANGED need_second

AdapterStep(cs) ==
    \/ AIdle(cs) \/ ARefresh \/ ARead(cs) \/ AWrite(cs)
    \/ ASrd \/ ASwr \/ ASref \/ ASack(cs)
=============================================================================
