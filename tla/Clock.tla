-------------------------------- MODULE Clock --------------------------------
(***************************************************************************)
(* The clock that limiters, caches and tokens of one process read.  Time   *)
(* is counted in ticks, and a step reads the clock at most once.           *)
(***************************************************************************)
EXTENDS Integers

VARIABLE now  \* ticks since the process started

\* Time passes, up to the horizon a component is checked to (bound for TLC).
Advance(horizon) ==
  /\ now < horizon
  /\ now' = now + 1
=============================================================================
