------------------------------ MODULE RateLimit ------------------------------
(***************************************************************************)
(* What the two limiters of package ratelimit share: slices of timestamps, *)
(* oldest first, the loop that drops the ones that have aged out, and the  *)
(* sweep that bounds memory at most once per window.                       *)
(***************************************************************************)
EXTENDS Clock, Sequences

CONSTANTS
  Keys,   \* what is limited: principals, or client addresses
  Window  \* window

ASSUME RateLimitAssumption == Window \in Nat \ {0}

VARIABLE lastSweep  \* lastSweep; Go's zero time is earlier than any window

SweepDue == now - lastSweep >= Window

\* Mutant: a timestamp at the cutoff is kept.
PruneStrictlyBefore(times, cutoff) ==
  LET kept == {i \in 1 .. Len(times) + 1 : i = Len(times) + 1 \/ times[i] >= cutoff}
      first == CHOOSE i \in kept : \A j \in kept : i <= j
  IN  SubSeq(times, first, Len(times))

\* The timestamps from the first one after the cutoff on.
PruneBefore(times, cutoff) ==
  LET kept == {i \in 1 .. Len(times) + 1 : i = Len(times) + 1 \/ times[i] > cutoff}
      first == CHOOSE i \in kept : \A j \in kept : i <= j
  IN  SubSeq(times, first, Len(times))
=============================================================================
