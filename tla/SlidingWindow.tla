---------------------------- MODULE SlidingWindow ----------------------------
(***************************************************************************)
(* ratelimit.SlidingWindow, the limiter of link writes per principal and   *)
(* of abuse reports per address, in one process from its start on.  Allow  *)
(* runs under the limiter's mutex and reads the clock there, so a call is  *)
(* one step and timestamps are appended in order.                          *)
(*                                                                         *)
(* A key with no entry in `hits` is one whose sequence is empty: with a    *)
(* positive limit the code never stores an empty slice.  The empty key,    *)
(* which is always allowed, touches nothing and is left out.               *)
(***************************************************************************)
EXTENDS RateLimit

CONSTANTS
  Limit,          \* limit
  WindowHorizon   \* the clock stops here (bound for TLC)

ASSUME SlidingWindowAssumption ==
  /\ Limit \in Nat \ {0}
  /\ WindowHorizon \in Nat

VARIABLES
  hits,       \* hits[k]: timestamps of k's recent events
  granted,    \* history: the times of all of k's allowed events
  called,     \* history: there has been a call since the clock last moved
  denied      \* history: the keys that have been denied since the clock last moved

windowVars == <<now, hits, lastSweep, granted, called, denied>>

\* Mutant: the sweep drops every key.
SweptAll == IF SweepDue THEN [k \in Keys |-> <<>>] ELSE hits

\* Mutant: the sweep never drops a key.
SweptNone == hits

\* hits after sweep(now).
Swept == IF SweepDue THEN [k \in Keys |-> PruneBefore(hits[k], now - Window)] ELSE hits

Kept(k) == PruneBefore(Swept[k], now - Window)

\* Mutant: the limit itself is let through.
RoomForOneMore(k) == Len(Kept(k)) <= Limit

HasRoom(k) == Len(Kept(k)) < Limit

Allow(k) ==
  /\ \/ /\ HasRoom(k)
        /\ hits' = [Swept EXCEPT ![k] = Append(Kept(k), now)]
        /\ granted' = [granted EXCEPT ![k] = Append(@, now)]
        /\ denied' = denied
     \/ /\ ~HasRoom(k)
        /\ hits' = [Swept EXCEPT ![k] = Kept(k)]
        /\ granted' = granted
        /\ denied' = denied \cup {k}
  /\ lastSweep' = IF SweepDue THEN now ELSE lastSweep
  /\ called' = TRUE
  /\ now' = now

WindowTick ==
  /\ Advance(WindowHorizon)
  /\ called' = FALSE
  /\ denied' = {}
  /\ UNCHANGED <<hits, lastSweep, granted>>

WindowInit ==
  /\ now = 0
  /\ hits = [k \in Keys |-> <<>>]
  /\ lastSweep = -Window
  /\ granted = [k \in Keys |-> <<>>]
  /\ called = FALSE
  /\ denied = {}

WindowNext == WindowTick \/ \E k \in Keys : Allow(k)

WindowSpec == WindowInit /\ [][WindowNext]_windowVars

-----------------------------------------------------------------------------
\* The limiter never remembers more than limit events of a key.
WindowTypeOK ==
  /\ now \in 0 .. WindowHorizon
  /\ lastSweep \in -Window .. now
  /\ \A k \in Keys : Len(hits[k]) <= Limit
  /\ \A k \in Keys : \A i \in DOMAIN hits[k] : hits[k][i] \in 0 .. now

\* Any limit + 1 successive events of a key span at least one window, whichever
\* calls swept the map in between: no rolling window holds more than limit events.
SpacedByWindow ==
  \A k \in Keys : \A i \in 1 .. Len(granted[k]) - Limit :
    granted[k][i + Limit] - granted[k][i] >= Window

\* A call is denied only while limit events of the same key are younger than a
\* window: denied calls are not counted, and no other key's calls are.
DeniedOnlyAtLimit ==
  \A k \in denied :
    /\ Len(granted[k]) >= Limit
    /\ granted[k][Len(granted[k]) - Limit + 1] > now - Window

\* The limiter is exact: it grants no more than it may, and refuses nothing else.
WindowIsExact == SpacedByWindow /\ DeniedOnlyAtLimit

\* A key that is not used for two windows is forgotten by the next call of any key.
IdleKeysForgotten ==
  called =>
    \A k \in Keys : hits[k] # <<>> => hits[k][Len(hits[k])] > now - 2 * Window
=============================================================================
