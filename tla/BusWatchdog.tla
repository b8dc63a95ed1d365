---------------------------- MODULE BusWatchdog ----------------------------
(***************************************************************************)
(* bus_watchdog.v: BERRn for a bus cycle nobody has terminated TIMEOUT     *)
(* clocks after its address strobe.                                        *)
(***************************************************************************)
EXTENDS Naturals

CONSTANT TIMEOUT

ASSUME WatchdogAssumption == TIMEOUT \in Nat \ {0}

VARIABLES count, berr

watchdogVars == <<count, berr>>

WatchdogTypeOK == count \in 0 .. TIMEOUT /\ berr \in BOOLEAN

WatchdogInit == count = 0 /\ berr = FALSE

\* A mutant that starts over instead of raising berr.
WatchdogStepSilent(done) ==
    IF done \/ count = TIMEOUT THEN count' = 0 /\ berr' = FALSE
    ELSE count' = count + 1 /\ UNCHANGED berr

\* `done' is as_n | ~dtack_n | ~vpa_n.
WatchdogStep(done) ==
    IF done THEN count' = 0 /\ berr' = FALSE
    ELSE IF count = TIMEOUT THEN berr' = TRUE /\ UNCHANGED count
    ELSE count' = count + 1 /\ UNCHANGED berr
=============================================================================
