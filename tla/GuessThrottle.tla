---------------------------- MODULE GuessThrottle ----------------------------
(***************************************************************************)
(* ratelimit.GuessThrottle and the resolutions it guards, in one process:  *)
(* ResolveService.lookup asks Blocked first, reads the database without    *)
(* the throttle's mutex, and calls RecordMiss when the answer is a 404.    *)
(* Resolutions that were admitted before a block begins still record their *)
(* misses, during the block or even after it.                              *)
(*                                                                         *)
(* The empty key (no client address) is never blocked and never counted.   *)
(***************************************************************************)
EXTENDS RateLimit, FiniteSets

CONSTANTS
  Slots,           \* resolutions under way at once
  MissLimit,       \* limit
  Cooldown,        \* cooldown
  None,            \* no address, no block
  ThrottleHorizon  \* the clock stops here (bound for TLC)

ASSUME GuessThrottleAssumption ==
  /\ IsFiniteSet(Slots)
  /\ MissLimit \in Nat \ {0}
  /\ Cooldown \in Nat /\ Cooldown >= Window
  /\ None \notin Keys \cup Int
  /\ ThrottleHorizon \in Nat

VARIABLES
  misses,        \* misses[k]: timestamps of k's recent misses
  blockedUntil,  \* blockedUntil[k]: the last instant of k's block, None without one
  flight,        \* flight[s]: the address whose admitted resolution runs in slot s
  missed         \* history: the times of all of k's misses

throttleVars == <<now, misses, blockedUntil, lastSweep, flight, missed>>

Expired(k) == blockedUntil[k] # None /\ now > blockedUntil[k]

\* Blocked answers true: 429.
Refuse(k) ==
  /\ blockedUntil[k] # None /\ ~Expired(k)
  /\ UNCHANGED throttleVars

\* Blocked answers false, and releases an expired block: the resolution's reads follow.
Admit(s, k) ==
  /\ flight[s] = None
  /\ blockedUntil[k] = None \/ Expired(k)
  /\ flight' = [flight EXCEPT ![s] = k]
  /\ IF Expired(k)
       THEN /\ blockedUntil' = [blockedUntil EXCEPT ![k] = None]
            /\ misses' = [misses EXCEPT ![k] = <<>>]
       ELSE UNCHANGED <<blockedUntil, misses>>
  /\ UNCHANGED <<now, lastSweep, missed>>

\* The resolution finds its link, or fails with another error than a 404.
Resolve(s) ==
  /\ flight[s] # None
  /\ flight' = [flight EXCEPT ![s] = None]
  /\ UNCHANGED <<now, misses, blockedUntil, lastSweep, missed>>

SweptMisses ==
  IF SweepDue THEN [k \in Keys |-> PruneBefore(misses[k], now - Window)] ELSE misses

SweptBlocks ==
  [k \in Keys |-> IF SweepDue /\ Expired(k) THEN None ELSE blockedUntil[k]]

\* Mutant: the limit itself is one miss too many.
AtLimit(times) == Len(times) >= MissLimit

OverLimit(times) == Len(times) > MissLimit

BlockEnd(k) == now + Cooldown

RecordMiss(s) ==
  LET k == flight[s]
      kept == Append(PruneBefore(SweptMisses[k], now - Window), now) IN
  /\ flight[s] # None
  /\ misses' = [SweptMisses EXCEPT ![k] = kept]
  /\ blockedUntil' = IF OverLimit(kept) THEN [SweptBlocks EXCEPT ![k] = BlockEnd(k)]
                                        ELSE SweptBlocks
  /\ lastSweep' = IF SweepDue THEN now ELSE lastSweep
  /\ missed' = [missed EXCEPT ![k] = Append(@, now)]
  /\ flight' = [flight EXCEPT ![s] = None]
  /\ now' = now

ThrottleTick ==
  /\ Advance(ThrottleHorizon)
  /\ UNCHANGED <<misses, blockedUntil, lastSweep, flight, missed>>

ThrottleInit ==
  /\ now = 0
  /\ misses = [k \in Keys |-> <<>>]
  /\ blockedUntil = [k \in Keys |-> None]
  /\ lastSweep = -Window
  /\ flight = [s \in Slots |-> None]
  /\ missed = [k \in Keys |-> <<>>]

ThrottleNext ==
  \/ \E s \in Slots : Resolve(s) \/ RecordMiss(s) \/ \E k \in Keys : Admit(s, k)
  \/ \E k \in Keys : Refuse(k)
  \/ ThrottleTick

ThrottleSpec == ThrottleInit /\ [][ThrottleNext]_throttleVars

-----------------------------------------------------------------------------
\* A block is never set further ahead than one cooldown.
ThrottleTypeOK ==
  /\ now \in 0 .. ThrottleHorizon
  /\ \A k \in Keys : \A i \in DOMAIN misses[k] : misses[k][i] \in 0 .. now
  /\ \A k \in Keys : blockedUntil[k] = None \/ blockedUntil[k] \in 0 .. now + Cooldown
  /\ lastSweep \in -Window .. now
  /\ flight \in [Slots -> Keys \cup {None}]

\* Misses of a client that one window can hold: the limit and the resolutions that
\* were admitted before the block, and again those that ended so late that the
\* release of the block forgot their misses.
Budget == MissLimit + 2 * Cardinality(Slots) - 1

\* Enumeration is bounded, whatever is in flight when a block begins or ends.
BudgetWithRaces ==
  \A k \in Keys : \A i \in 1 .. Len(missed[k]) - Budget :
    missed[k][i + Budget] - missed[k][i] >= Window

\* Nobody is blocked for less than limit + 1 misses within a window, nor for longer
\* than one cooldown after the last of them.
BlocksAreEarned ==
  \A k \in Keys : blockedUntil[k] # None =>
    \E j \in MissLimit + 1 .. Len(missed[k]) :
      /\ missed[k][j] - missed[k][j - MissLimit] < Window
      /\ blockedUntil[k] = missed[k][j] + Cooldown

\* The throttle slows enumeration down, and nobody else.
ThrottleIsFair == BudgetWithRaces /\ BlocksAreEarned

\* A client that stays away is forgotten: misses older than two windows and blocks
\* that ended a window ago are gone after any other client's miss.
IdleClientsForgotten ==
  \A k \in Keys :
    /\ misses[k] # <<>> => misses[k][Len(misses[k])] > lastSweep - Window
    /\ blockedUntil[k] # None => blockedUntil[k] >= lastSweep
=============================================================================
