------------------------------- MODULE TimerF -------------------------------
(***************************************************************************)
(* timer.v, the system tick of Mackerel-F, clock by clock.  What the CPU   *)
(* writes is asserted for as long as its bus cycle lasts: the argument of  *)
(* TimerClock is the write of this clock.                                  *)
(***************************************************************************)
EXTENDS Naturals

CONSTANT Reload    \* of each FREQ: DIV_10, DIV_25, DIV_50, DIV_100

ASSUME TimerAssumption == Reload \in [0 .. 3 -> Nat \ {0}]

VARIABLES enable, freq, count, pending

timerVars == <<enable, freq, count, pending>>

NoWrite == [reg |-> "none", on |-> FALSE, freq |-> 3]
Ack == [NoWrite EXCEPT !.reg = "status"]
Ctrl(on) == [reg |-> "ctrl", on |-> on, freq |-> IF on THEN 3 ELSE 0]

TimerInit == enable = FALSE /\ freq = 3 /\ count = 0 /\ pending = FALSE

\* The mutant counts one clock too many.
RolloverMutant == enable /\ count > Reload[freq]
Rollover == enable /\ count >= Reload[freq]

\* Disabling clears what is pending.  The mutant forgets it.
WithdrawnMutant(w) == w.reg = "status"
Withdrawn(w) == w.reg = "status" \/ (w.reg = "ctrl" /\ ~w.on)

\* An acknowledge wins over the rollover of the same clock.
TimerClock(w) ==
    /\ pending' = (~Withdrawn(w) /\ (pending \/ Rollover))
    /\ count' = IF ~enable \/ Rollover \/ (w.reg = "ctrl" /\ ~w.on) THEN 0
                ELSE count + 1
    /\ enable' = IF w.reg = "ctrl" THEN w.on ELSE enable
    /\ freq' = IF w.reg = "ctrl" THEN w.freq ELSE freq
=============================================================================
