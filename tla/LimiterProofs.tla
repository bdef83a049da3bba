---------------------------- MODULE LimiterProofs ----------------------------
(***************************************************************************)
(* Proofs about the two limiters, SlidingWindow and GuessThrottle: for any *)
(* keys, limits, windows and cooldowns, any number of resolutions under    *)
(* way, and however long the clock runs.                                   *)
(*                                                                         *)
(* Both keep, of all the events of a key, a tail: what the prune drops has *)
(* aged out.  A statement about the tail is one about the whole history.   *)
(***************************************************************************)
EXTENDS SlidingWindow, GuessThrottle, FiniteSetTheorems, WellFoundedInduction, TLAPS

-----------------------------------------------------------------------------
(***************************************************************************)
(* The prune.                                                              *)
(***************************************************************************)
\* Events in the order of their times, none of them later than t nor before the start.
Chronicle(all, t) ==
  /\ all \in Seq(Int)
  /\ \A i \in 1 .. Len(all) : 0 <= all[i] /\ all[i] <= t
  /\ \A i, j \in 1 .. Len(all) : i <= j => all[i] <= all[j]

\* What is kept of the events: the last ones.
TailOf(kept, all) ==
  /\ kept \in Seq(Int)
  /\ Len(kept) <= Len(all)
  /\ \A i \in 1 .. Len(kept) : kept[i] = all[Len(all) - Len(kept) + i]

\* What is not kept of the events is not later than t.
AgedOut(all, kept, t) == \A i \in 1 .. Len(all) - Len(kept) : all[i] <= t

\* A set of positions has a first one.
LEMMA FirstPosition ==
  ASSUME NEW S, S \subseteq Nat, S # {}
  PROVE  \E i \in S : \A j \in S : i <= j
<1> DEFINE upTo(n) == 1 .. n
           T == {upTo(n) : n \in S}
<1>1. T \subseteq FiniteSubsetsOf(Nat) /\ T # {}
  <2>1. ASSUME NEW n \in S
        PROVE  upTo(n) \in FiniteSubsetsOf(Nat)
    <3>1. IsFiniteSet(1 .. n)
      BY FS_Interval
    <3> QED BY <3>1 DEF FiniteSubsetsOf
  <2> QED BY <2>1
<1>2. PICK X \in T : \A Y \in T : ~(<<Y, X>> \in StrictSubsetOrdering(Nat))
  <2> HIDE DEF T
  <2> QED BY <1>1, FS_StrictSubsetOrderingWellFounded, WFMin
<1>3. PICK x \in S : X = upTo(x)
  OBVIOUS
<1>4. ASSUME NEW y \in S, y < x
      PROVE  FALSE
  <2>1. upTo(y) \in T /\ upTo(y) \in SUBSET Nat /\ upTo(x) \in SUBSET Nat
    BY <1>3
  <2>2. upTo(y) \subseteq upTo(x) /\ upTo(y) # upTo(x)
    BY <1>4
  <2> QED BY <1>2, <1>3, <2>1, <2>2 DEF StrictSubsetOrdering
<1> QED BY <1>4

\* PruneBefore drops what comes before the first timestamp after the cutoff.
LEMMA PruneCuts ==
  ASSUME NEW kept \in Seq(Int), NEW cutoff \in Int
  PROVE  \E first \in 1 .. Len(kept) + 1 :
           /\ PruneBefore(kept, cutoff) = SubSeq(kept, first, Len(kept))
           /\ first = Len(kept) + 1 \/ kept[first] > cutoff
           /\ \A i \in 1 .. first - 1 : kept[i] <= cutoff
<1> DEFINE S == {i \in 1 .. Len(kept) + 1 : i = Len(kept) + 1 \/ kept[i] > cutoff}
<1>1. PICK first : first = CHOOSE i \in S : \A j \in S : i <= j
  OBVIOUS
<1>2. first \in S /\ \A j \in S : first <= j
  <2>1. Len(kept) + 1 \in S /\ S \subseteq Nat
    OBVIOUS
  <2>2. \E i \in S : \A j \in S : i <= j
    <3> HIDE DEF S
    <3> QED BY <2>1, FirstPosition
  <2> HIDE DEF S
  <2> QED BY <1>1, <2>2
<1>3. first \in 1 .. Len(kept) + 1 /\ (first = Len(kept) + 1 \/ kept[first] > cutoff)
  BY <1>2
<1>4. ASSUME NEW i \in 1 .. first - 1
      PROVE  kept[i] <= cutoff
  <2>1. i \in 1 .. Len(kept) /\ kept[i] \in Int /\ i < first
    BY <1>3
  <2>2. i \in S \/ kept[i] <= cutoff
    BY <2>1
  <2> QED BY <1>2, <1>3, <2>1, <2>2
<1>5. PruneBefore(kept, cutoff) = SubSeq(kept, first, Len(kept))
  BY <1>1 DEF PruneBefore
<1> QED BY <1>3, <1>4, <1>5

\* PruneBefore keeps a tail, drops nothing that is younger than the cutoff, and keeps
\* nothing that is not.
LEMMA PruneFacts ==
  ASSUME NEW all, NEW t \in Int, Chronicle(all, t), NEW kept, TailOf(kept, all),
         NEW cutoff \in Int
  PROVE  LET p == PruneBefore(kept, cutoff)
         IN  /\ TailOf(p, all)
             /\ Len(p) <= Len(kept)
             /\ \A i \in 1 .. Len(p) : p[i] > cutoff
             /\ \A i \in 1 .. Len(all) - Len(p) :
                  i > Len(all) - Len(kept) => all[i] <= cutoff
<1>0. PICK n, m : n = Len(kept) /\ m = Len(all)
  OBVIOUS
<1>1. /\ n \in Nat /\ m \in Nat /\ n <= m
      /\ kept \in Seq(Int) /\ all \in Seq(Int)
      /\ \A i \in 1 .. n : kept[i] = all[m - n + i] /\ kept[i] \in Int
      /\ \A i \in 1 .. m : all[i] \in Int
  BY <1>0 DEF Chronicle, TailOf
<1>2. PICK first \in 1 .. n + 1 :
        /\ PruneBefore(kept, cutoff) = SubSeq(kept, first, n)
        /\ first = n + 1 \/ kept[first] > cutoff
        /\ \A i \in 1 .. first - 1 : kept[i] <= cutoff
  BY <1>0, <1>1, PruneCuts
<1>3. PICK p : p = SubSeq(kept, first, n)
  OBVIOUS
<1>4. /\ p \in Seq(Int)
      /\ Len(p) = n - first + 1
      /\ \A i \in 1 .. Len(p) : p[i] = kept[first + i - 1]
  BY <1>0, <1>1, <1>2, <1>3
<1>5. TailOf(p, all)
  <2>1. ASSUME NEW i \in 1 .. Len(p)
        PROVE  p[i] = all[m - Len(p) + i]
    <3>1. first + i - 1 \in 1 .. n /\ p[i] = kept[first + i - 1]
      BY <1>1, <1>2, <1>4
    <3>2. m - n + (first + i - 1) = m - Len(p) + i
      BY <1>1, <1>2, <1>4
    <3> QED BY <1>1, <3>1, <3>2
  <2>2. Len(p) <= m
    BY <1>1, <1>4
  <2> QED BY <1>0, <1>4, <2>1, <2>2 DEF TailOf
<1>6. ASSUME NEW i \in 1 .. Len(p)
      PROVE  p[i] > cutoff
  <2>1. /\ kept[first] > cutoff
        /\ first \in 1 .. n /\ first + i - 1 \in 1 .. n
        /\ p[i] = kept[first + i - 1]
    BY <1>1, <1>2, <1>4
  <2>2. PICK a, b \in 1 .. m :
          a <= b /\ kept[first] = all[a] /\ kept[first + i - 1] = all[b]
    <3>1. /\ m - n + first \in 1 .. m /\ m - n + (first + i - 1) \in 1 .. m
          /\ m - n + first <= m - n + (first + i - 1)
      BY <1>1, <2>1
    <3> QED BY <1>1, <2>1, <3>1
  <2>3. all[a] <= all[b] /\ all[a] \in Int /\ all[b] \in Int
    BY <1>0, <1>1, <2>2 DEF Chronicle
  <2> QED BY <2>1, <2>2, <2>3
<1>7. ASSUME NEW i \in 1 .. m - Len(p), i > m - n
      PROVE  all[i] <= cutoff
  <2>1. i - (m - n) \in 1 .. first - 1 /\ i - (m - n) \in 1 .. n
    BY <1>1, <1>2, <1>4, <1>7
  <2>2. kept[i - (m - n)] = all[i]
    <3>1. m - n + (i - (m - n)) = i
      BY <1>1, <2>1
    <3> QED BY <1>1, <2>1, <3>1
  <2> QED BY <1>2, <2>1, <2>2
<1>8. PruneBefore(kept, cutoff) = p /\ Len(p) <= n
  BY <1>1, <1>2, <1>3, <1>4
<1> QED BY <1>0, <1>5, <1>6, <1>7, <1>8

\* What the prune drops joins what had aged out before.
LEMMA PruneAges ==
  ASSUME NEW all, NEW t \in Int, Chronicle(all, t), NEW kept, TailOf(kept, all),
         NEW cutoff \in Int, AgedOut(all, kept, cutoff)
  PROVE  LET p == PruneBefore(kept, cutoff)
         IN  /\ TailOf(p, all)
             /\ Len(p) <= Len(kept)
             /\ \A i \in 1 .. Len(p) : p[i] > cutoff
             /\ AgedOut(all, p, cutoff)
<1>1. PICK p : p = PruneBefore(kept, cutoff)
  OBVIOUS
<1>2. /\ TailOf(p, all)
      /\ Len(p) <= Len(kept)
      /\ \A i \in 1 .. Len(p) : p[i] > cutoff
      /\ \A i \in 1 .. Len(all) - Len(p) : i > Len(all) - Len(kept) => all[i] <= cutoff
  BY <1>1, PruneFacts
<1>3. Len(p) \in Nat /\ Len(kept) \in Nat /\ Len(all) \in Nat
  BY <1>2 DEF TailOf, Chronicle
<1>4. AgedOut(all, p, cutoff)
  BY <1>2, <1>3 DEF AgedOut
<1> QED BY <1>1, <1>2, <1>4

\* An event that happens now joins the events, and what is kept of them.
LEMMA AppendEvent ==
  ASSUME NEW all, NEW t \in Nat, Chronicle(all, t), NEW kept, TailOf(kept, all),
         NEW cutoff \in Int, AgedOut(all, kept, cutoff)
  PROVE  /\ Chronicle(Append(all, t), t)
         /\ TailOf(Append(kept, t), Append(all, t))
         /\ AgedOut(Append(all, t), Append(kept, t), cutoff)
<1>1. PICK n \in Nat, m \in Nat : n = Len(all) /\ m = Len(kept)
  BY DEF Chronicle, TailOf
<1>2. /\ n \in Nat /\ m \in Nat /\ m <= n
      /\ all \in Seq(Int) /\ kept \in Seq(Int)
      /\ \A i \in 1 .. n : all[i] \in Int /\ 0 <= all[i] /\ all[i] <= t
      /\ \A i, j \in 1 .. n : i <= j => all[i] <= all[j]
      /\ \A i \in 1 .. m : kept[i] = all[n - m + i]
      /\ \A i \in 1 .. n - m : all[i] <= cutoff
  BY <1>1 DEF Chronicle, TailOf, AgedOut
<1>3. PICK aa, kk : aa = Append(all, t) /\ kk = Append(kept, t)
  OBVIOUS
<1>4. /\ aa \in Seq(Int) /\ Len(aa) = n + 1 /\ aa[n + 1] = t
      /\ \A i \in 1 .. n : aa[i] = all[i]
      /\ kk \in Seq(Int) /\ Len(kk) = m + 1 /\ kk[m + 1] = t
      /\ \A i \in 1 .. m : kk[i] = kept[i]
  BY <1>1, <1>2, <1>3
<1>5. Chronicle(aa, t)
  <2>1. ASSUME NEW i \in 1 .. n + 1
        PROVE  0 <= aa[i] /\ aa[i] <= t
    <3>1. CASE i = n + 1
      BY <1>4, <3>1
    <3>2. CASE i \in 1 .. n
      <4>1. 0 <= all[i] /\ all[i] <= t /\ aa[i] = all[i]
        BY <1>2, <1>4, <3>2
      <4> QED BY <4>1
    <3> QED BY <3>1, <3>2
  <2>2. ASSUME NEW i \in 1 .. n + 1, NEW j \in 1 .. n + 1, i <= j
        PROVE  aa[i] <= aa[j]
    <3>1. CASE j = n + 1
      BY <1>4, <2>1, <3>1
    <3>2. CASE j # n + 1
      <4>1. i \in 1 .. n /\ j \in 1 .. n
        BY <2>2, <3>2
      <4> QED BY <1>2, <1>4, <2>2, <4>1
    <3> QED BY <3>1, <3>2
  <2> QED BY <1>4, <2>1, <2>2 DEF Chronicle
<1>6. TailOf(kk, aa)
  <2>1. ASSUME NEW i \in 1 .. m + 1
        PROVE  kk[i] = aa[(n + 1) - (m + 1) + i]
    <3>1. CASE i = m + 1
      <4>1. (n + 1) - (m + 1) + i = n + 1
        BY <1>2, <3>1
      <4> QED BY <1>4, <3>1, <4>1
    <3>2. CASE i # m + 1
      <4>1. /\ i \in 1 .. m /\ (n + 1) - (m + 1) + i = n - m + i
            /\ n - m + i \in 1 .. n
        BY <1>2, <3>2
      <4> QED BY <1>2, <1>4, <4>1
    <3> QED BY <3>1, <3>2
  <2> QED BY <1>2, <1>4, <2>1 DEF TailOf
<1>7. AgedOut(aa, kk, cutoff)
  <2>1. ASSUME NEW i \in 1 .. (n + 1) - (m + 1)
        PROVE  aa[i] <= cutoff
    <3>1. i \in 1 .. n - m /\ i \in 1 .. n
      BY <1>2
    <3> QED BY <1>2, <1>4, <3>1
  <2> QED BY <1>4, <2>1 DEF AgedOut
<1> QED BY <1>3, <1>5, <1>6, <1>7

\* Any n + 1 successive events span at least one window.
Spaced(all, n) == \A i \in 1 .. Len(all) - n : all[i + n] - all[i] >= Window

\* An event keeps the others spaced if the n-th event before it is a window old.
LEMMA AppendSpaced ==
  ASSUME NEW all \in Seq(Int), NEW t \in Int, NEW n \in Nat \ {0}, Spaced(all, n),
         Len(all) + 1 - n >= 1 => all[Len(all) + 1 - n] <= t - Window
  PROVE  Spaced(Append(all, t), n)
<1>0. PICK m \in Nat : m = Len(all)
  OBVIOUS
<1>1. PICK aa : aa = Append(all, t)
  OBVIOUS
<1>2. /\ Window \in Int
      /\ aa \in Seq(Int) /\ Len(aa) = m + 1 /\ aa[m + 1] = t
      /\ \A i \in 1 .. m : aa[i] = all[i] /\ all[i] \in Int
  BY <1>0, <1>1, RateLimitAssumption
<1>3. ASSUME NEW i \in 1 .. (m + 1) - n
      PROVE  aa[i + n] - aa[i] >= Window
  <2>1. CASE i + n = m + 1
    <3>1. i = m + 1 - n /\ i \in 1 .. m
      BY <1>2, <2>1
    <3>2. all[i] <= t - Window
      BY <1>0, <1>2, <3>1
    <3>3. aa[i + n] = t /\ aa[i] = all[i] /\ all[i] \in Int
      BY <1>2, <2>1, <3>1
    <3> QED BY <1>2, <3>2, <3>3
  <2>2. CASE i + n # m + 1
    <3>1. i \in 1 .. m - n /\ i \in 1 .. m /\ i + n \in 1 .. m
      BY <1>2, <2>2
    <3>2. all[i + n] - all[i] >= Window
      BY <1>0, <3>1 DEF Spaced
    <3> QED BY <1>2, <3>1, <3>2
  <2> QED BY <2>1, <2>2
<1> QED BY <1>1, <1>2, <1>3 DEF Spaced

-----------------------------------------------------------------------------
(***************************************************************************)
(* SlidingWindow.                                                          *)
(***************************************************************************)
\* hits[k] is the tail of what was granted to k: what is left out of it is a window old,
\* and nothing of it is older than a window at the last sweep.
Remembered(k) ==
  /\ Chronicle(granted[k], now)
  /\ TailOf(hits[k], granted[k])
  /\ AgedOut(granted[k], hits[k], now - Window)
  /\ hits[k] # <<>> => hits[k][Len(hits[k])] > lastSweep - Window

WindowInv ==
  /\ WindowTypeOK
  /\ hits \in [Keys -> Seq(Int)]
  /\ granted \in [Keys -> Seq(Int)]
  /\ called \in BOOLEAN
  /\ denied \subseteq Keys
  /\ called => lastSweep > now - Window
  /\ \A k \in Keys : Remembered(k)
  /\ WindowIsExact

\* The types that arithmetic on the state needs.
LEMMA WindowTypes ==
  ASSUME WindowInv
  PROVE  /\ now \in Int /\ now >= 0 /\ lastSweep \in Int /\ lastSweep <= now
         /\ Window \in Int /\ Window > 0 /\ Limit \in Int /\ Limit > 0
         /\ hits \in [Keys -> Seq(Int)] /\ granted \in [Keys -> Seq(Int)]
BY RateLimitAssumption, SlidingWindowAssumption DEF WindowInv, WindowTypeOK

\* The invariant holds at first.
LEMMA WindowStart ==
  WindowInit => WindowInv
<1> SUFFICES ASSUME WindowInit
             PROVE  WindowInv
  OBVIOUS
<1>1. WindowTypeOK
  BY RateLimitAssumption, SlidingWindowAssumption DEF WindowInit, WindowTypeOK
<1>2. \A k \in Keys : Remembered(k)
  BY DEF WindowInit, Remembered, Chronicle, TailOf, AgedOut
<1>3. WindowIsExact
  BY SlidingWindowAssumption DEF WindowInit, WindowIsExact, SpacedByWindow, DeniedOnlyAtLimit
<1>4. hits \in [Keys -> Seq(Int)] /\ granted \in [Keys -> Seq(Int)]
  BY DEF WindowInit
<1>5. called \in BOOLEAN /\ ~called /\ denied \subseteq Keys
  BY DEF WindowInit
<1> QED BY <1>1, <1>2, <1>3, <1>4, <1>5 DEF WindowInv

\* Time passes: what is a window old stays so.
LEMMA WindowTickKeeps ==
  ASSUME WindowInv, WindowTick
  PROVE  WindowInv'
<1>1. /\ now' = now + 1 /\ now < WindowHorizon /\ called' = FALSE /\ denied' = {}
      /\ hits' = hits /\ lastSweep' = lastSweep /\ granted' = granted
  BY DEF WindowTick, Advance
<1>2. WindowTypeOK'
  BY <1>1, WindowTypes, SlidingWindowAssumption DEF WindowInv, WindowTypeOK
<1>3. ASSUME NEW k \in Keys
      PROVE  Remembered(k)'
  <2>1. /\ Remembered(k) /\ granted[k] \in Seq(Int)
        /\ \A i \in 1 .. Len(granted[k]) : granted[k][i] \in Int
        /\ Len(granted[k]) \in Nat /\ Len(hits[k]) \in Nat
    BY WindowTypes DEF WindowInv
  <2>2. Chronicle(granted[k], now)' /\ TailOf(hits[k], granted[k])'
    BY <1>1, <2>1, WindowTypes DEF Remembered, Chronicle, TailOf
  <2>3. AgedOut(granted[k], hits[k], now - Window)'
    <3>1. AgedOut(granted[k], hits[k], now - Window)
      BY <2>1 DEF Remembered
    <3> QED BY <1>1, <2>1, <3>1, WindowTypes DEF AgedOut
  <2>4. hits[k] # <<>> => hits[k][Len(hits[k])] > lastSweep - Window
    BY <2>1 DEF Remembered
  <2> QED BY <1>1, <2>2, <2>3, <2>4 DEF Remembered
<1>4. WindowIsExact'
  BY <1>1 DEF WindowInv, WindowIsExact, SpacedByWindow, DeniedOnlyAtLimit
<1> QED BY <1>1, <1>2, <1>3, <1>4 DEF WindowInv

\* The sweep leaves of every key a tail, of which nothing is older than a window then.
LEMMA SweepRemembers ==
  ASSUME WindowInv, NEW k \in Keys
  PROVE  /\ TailOf(Swept[k], granted[k])
         /\ Len(Swept[k]) <= Len(hits[k])
         /\ AgedOut(granted[k], Swept[k], now - Window)
         /\ SweepDue => \A i \in 1 .. Len(Swept[k]) : Swept[k][i] > now - Window
         /\ ~SweepDue => Swept[k] = hits[k]
<1>1. /\ Remembered(k) /\ Chronicle(granted[k], now) /\ TailOf(hits[k], granted[k])
      /\ now - Window \in Int
      /\ Len(granted[k]) \in Nat /\ Len(hits[k]) \in Nat
      /\ \A i \in 1 .. Len(granted[k]) : granted[k][i] \in Int
  BY WindowTypes DEF WindowInv, Remembered
<1>2. CASE ~SweepDue
  <2>1. Swept[k] = hits[k]
    BY <1>2 DEF Swept
  <2> QED BY <1>1, <1>2, <2>1 DEF Remembered
<1>3. CASE SweepDue
  <2>1. Swept[k] = PruneBefore(hits[k], now - Window)
    BY <1>3 DEF Swept
  <2>2. AgedOut(granted[k], hits[k], now - Window)
    BY <1>1 DEF Remembered
  <2> QED BY <1>1, <1>3, <2>1, <2>2, WindowTypes, PruneAges
<1> QED BY <1>2, <1>3

\* What a call finds of its own key: the events younger than a window, all of them.
LEMMA KeptRemembers ==
  ASSUME WindowInv, NEW k \in Keys
  PROVE  /\ TailOf(Kept(k), granted[k])
         /\ Len(Kept(k)) <= Len(hits[k])
         /\ AgedOut(granted[k], Kept(k), now - Window)
         /\ \A i \in 1 .. Len(Kept(k)) : Kept(k)[i] > now - Window
<1>1. /\ Remembered(k) /\ Chronicle(granted[k], now) /\ now - Window \in Int
      /\ Len(granted[k]) \in Nat /\ Len(hits[k]) \in Nat
      /\ \A i \in 1 .. Len(granted[k]) : granted[k][i] \in Int
  BY WindowTypes DEF WindowInv, Remembered
<1>2. PICK s : s = Swept[k]
  OBVIOUS
<1>3. /\ TailOf(s, granted[k]) /\ Len(s) <= Len(hits[k])
      /\ AgedOut(granted[k], s, now - Window)
  BY <1>2, SweepRemembers
<1>4. PICK p : p = PruneBefore(s, now - Window)
  OBVIOUS
<1>5. /\ TailOf(p, granted[k]) /\ Len(p) <= Len(s)
      /\ \A i \in 1 .. Len(p) : p[i] > now - Window
      /\ AgedOut(granted[k], p, now - Window)
  BY <1>1, <1>3, <1>4, WindowTypes, PruneAges
<1>6. Len(p) \in Nat /\ Len(s) \in Nat
  BY <1>3, <1>5 DEF TailOf
<1>7. Kept(k) = p
  BY <1>2, <1>4 DEF Kept
<1> QED BY <1>1, <1>3, <1>5, <1>6, <1>7

\* A call that is allowed: the events of its key grow by one.
LEMMA GrantKeeps ==
  ASSUME WindowInv, NEW k \in Keys, HasRoom(k),
         hits' = [Swept EXCEPT ![k] = Append(Kept(k), now)],
         granted' = [granted EXCEPT ![k] = Append(@, now)],
         lastSweep' = IF SweepDue THEN now ELSE lastSweep, now' = now, denied' = denied
  PROVE  /\ Remembered(k)'
         /\ hits'[k] \in Seq(Int) /\ granted'[k] \in Seq(Int)
         /\ Len(hits'[k]) <= Limit
         /\ WindowIsExact'
<1>0. /\ now \in Int /\ lastSweep \in Int /\ lastSweep <= now
      /\ Window \in Int /\ Window > 0 /\ Limit \in Int /\ Limit > 0
  BY WindowTypes
<1>1. PICK g, p : g = granted[k] /\ p = Kept(k)
  OBVIOUS
<1>2. /\ g \in Seq(Int) /\ Chronicle(g, now)
      /\ p \in Seq(Int) /\ TailOf(p, g) /\ AgedOut(g, p, now - Window)
      /\ Len(p) < Limit
  BY <1>1, KeptRemembers, WindowTypes DEF WindowInv, Remembered, TailOf, HasRoom
<1>3. PICK gg, pp : gg = Append(g, now) /\ pp = Append(p, now)
  OBVIOUS
<1>4. hits'[k] = pp /\ granted'[k] = gg
  BY <1>1, <1>3, WindowTypes DEF Swept
<1>5. now - Window \in Int /\ now \in Nat
  BY WindowTypes
<1>6. Chronicle(gg, now) /\ TailOf(pp, gg) /\ AgedOut(gg, pp, now - Window)
  BY <1>2, <1>3, <1>5, AppendEvent
<1>7. /\ gg \in Seq(Int) /\ Len(gg) = Len(g) + 1 /\ gg[Len(g) + 1] = now
      /\ \A i \in 1 .. Len(g) : gg[i] = g[i]
      /\ pp \in Seq(Int) /\ Len(pp) = Len(p) + 1 /\ pp[Len(pp)] = now
      /\ Len(g) \in Nat /\ Len(p) \in Nat
      /\ \A i \in 1 .. Len(g) : g[i] \in Int
  BY <1>2, <1>3, <1>5
<1>8. Remembered(k)'
  <2>1. now > lastSweep' - Window
    BY WindowTypes
  <2> QED BY <1>4, <1>6, <1>7, <2>1 DEF Remembered
<1>9. Len(hits'[k]) <= Limit
  BY <1>0, <1>2, <1>4, <1>7
<1>10. SpacedByWindow'
  <2>1. Spaced(g, Limit)
    BY <1>1 DEF WindowInv, WindowIsExact, SpacedByWindow, Spaced
  <2>2. Len(g) + 1 - Limit >= 1 => g[Len(g) + 1 - Limit] <= now - Window
    <3> SUFFICES ASSUME Len(g) + 1 - Limit >= 1
                 PROVE  g[Len(g) + 1 - Limit] <= now - Window
      OBVIOUS
    <3>1. Len(g) + 1 - Limit \in 1 .. Len(g) - Len(p)
      BY <1>0, <1>2, <1>7
    <3> QED BY <1>2, <3>1 DEF AgedOut
  <2>3. Spaced(gg, Limit)
    BY <1>2, <1>3, <1>5, <2>1, <2>2, AppendSpaced, SlidingWindowAssumption
  <2>4. ASSUME NEW j \in Keys
        PROVE  Spaced(granted'[j], Limit)
    <3>1. CASE j # k
      <4>1. granted'[j] = granted[j]
        BY <3>1, WindowTypes
      <4> QED BY <4>1 DEF WindowInv, WindowIsExact, SpacedByWindow, Spaced
    <3> QED BY <1>4, <2>3, <3>1
  <2> QED BY <2>4 DEF SpacedByWindow, Spaced
<1>11. DeniedOnlyAtLimit'
  <2>1. ASSUME NEW j \in denied
        PROVE  /\ Len(granted'[j]) >= Limit
               /\ granted'[j][Len(granted'[j]) - Limit + 1] > now - Window
    <3>0. /\ Len(granted[j]) >= Limit
          /\ granted[j][Len(granted[j]) - Limit + 1] > now - Window
      BY DEF WindowInv, WindowIsExact, DeniedOnlyAtLimit
    <3>1. CASE j # k
      <4>1. granted'[j] = granted[j]
        BY <3>1, WindowTypes
      <4> QED BY <3>0, <4>1
    <3>2. CASE j = k
      <4>1. PICK n, a : n = Len(g) /\ a = n - Limit + 1
        OBVIOUS
      <4>2. n \in Nat /\ n >= Limit /\ a \in 1 .. n
        BY <1>0, <1>1, <1>7, <3>0, <3>2, <4>1
      <4>3. g[a] > now - Window /\ g[a] \in Int
        BY <1>1, <1>7, <3>0, <3>2, <4>1, <4>2
      <4>4. gg[a + 1] > now - Window
        <5>1. CASE a = n
          BY <1>0, <1>7, <4>1, <5>1
        <5>2. CASE a # n
          <6>1. a + 1 \in 1 .. n /\ a <= a + 1
            BY <4>2, <5>2
          <6>2. g[a] <= g[a + 1] /\ g[a + 1] \in Int /\ gg[a + 1] = g[a + 1]
            BY <1>2, <1>7, <4>1, <4>2, <6>1 DEF Chronicle
          <6> QED BY <1>0, <4>3, <6>2
        <5> QED BY <5>1, <5>2
      <4>5. Len(gg) - Limit + 1 = a + 1 /\ Len(gg) >= Limit
        BY <1>0, <1>7, <4>1, <4>2
      <4> QED BY <1>4, <3>2, <4>4, <4>5
    <3> QED BY <3>1, <3>2
  <2> QED BY <2>1 DEF DeniedOnlyAtLimit
<1> QED BY <1>4, <1>7, <1>8, <1>9, <1>10, <1>11 DEF WindowIsExact

\* A call that is denied is not counted, and all that is left of its key is young.
LEMMA DenialKeeps ==
  ASSUME WindowInv, NEW k \in Keys, ~HasRoom(k),
         hits' = [Swept EXCEPT ![k] = Kept(k)], granted' = granted,
         lastSweep' = IF SweepDue THEN now ELSE lastSweep, now' = now,
         denied' = denied \cup {k}
  PROVE  /\ Remembered(k)'
         /\ hits'[k] \in Seq(Int) /\ granted'[k] \in Seq(Int)
         /\ Len(hits'[k]) <= Limit
         /\ WindowIsExact'
<1>0. /\ now \in Int /\ lastSweep \in Int /\ lastSweep <= now
      /\ Window \in Int /\ Window > 0 /\ Limit \in Int /\ Limit > 0
  BY WindowTypes
<1>1. PICK g, p : g = granted[k] /\ p = Kept(k)
  OBVIOUS
<1>2. /\ g \in Seq(Int) /\ Chronicle(g, now)
      /\ p \in Seq(Int) /\ TailOf(p, g) /\ AgedOut(g, p, now - Window)
      /\ \A i \in 1 .. Len(p) : p[i] > now - Window
      /\ Len(p) <= Len(hits[k]) /\ Len(hits[k]) <= Limit
  BY <1>1, KeptRemembers, WindowTypes DEF WindowInv, WindowTypeOK, Remembered, TailOf
<1>3. Len(p) \in Nat /\ Len(g) \in Nat /\ ~(Len(p) < Limit)
  BY <1>1, <1>2 DEF HasRoom
<1>4. Len(p) = Limit
  <2>1. Len(hits[k]) \in Int
    BY WindowTypes
  <2> QED BY <1>0, <1>2, <1>3, <2>1
<1>5. hits'[k] = p /\ granted'[k] = g
  BY <1>1, WindowTypes DEF Swept
<1>6. Remembered(k)'
  <2>1. p[Len(p)] > lastSweep' - Window
    <3>1. p[Len(p)] > now - Window /\ p[Len(p)] \in Int
      BY <1>0, <1>2, <1>4
    <3> QED BY <1>0, <3>1
  <2> QED BY <1>2, <1>5, <2>1 DEF Remembered
<1>7. DeniedOnlyAtLimit'
  <2>1. Len(g) >= Limit /\ g[Len(g) - Limit + 1] > now - Window
    <3>1. p[1] = g[Len(g) - Len(p) + 1] /\ p[1] > now - Window /\ Len(p) <= Len(g)
      BY <1>0, <1>2, <1>4 DEF TailOf
    <3> QED BY <1>4, <3>1
  <2> QED BY <1>1, <2>1 DEF WindowInv, WindowIsExact, DeniedOnlyAtLimit
<1>8. SpacedByWindow'
  BY DEF WindowInv, WindowIsExact, SpacedByWindow
<1> QED BY <1>0, <1>2, <1>4, <1>5, <1>6, <1>7, <1>8 DEF WindowIsExact

\* Of another key a call drops, at most, what the sweep finds old.
LEMMA OthersRemembered ==
  ASSUME WindowInv, NEW k \in Keys, hits'[k] = Swept[k], granted'[k] = granted[k],
         lastSweep' = IF SweepDue THEN now ELSE lastSweep, now' = now
  PROVE  Remembered(k)' /\ hits'[k] \in Seq(Int) /\ Len(hits'[k]) <= Limit
<1>0. now \in Int /\ Window \in Int /\ Limit \in Int
  BY WindowTypes
<1>1. PICK s, g : s = Swept[k] /\ g = granted[k]
  OBVIOUS
<1>2. /\ TailOf(s, g) /\ AgedOut(g, s, now - Window) /\ Chronicle(g, now)
      /\ Len(s) <= Len(hits[k]) /\ Len(hits[k]) <= Limit
      /\ SweepDue => \A i \in 1 .. Len(s) : s[i] > now - Window
      /\ ~SweepDue => s = hits[k]
  BY <1>1, SweepRemembers DEF WindowInv, WindowTypeOK, Remembered
<1>3. s # <<>> => s[Len(s)] > lastSweep' - Window
  <2>1. CASE SweepDue
    <3> SUFFICES ASSUME s # <<>>
                 PROVE  s[Len(s)] > now - Window
      BY <2>1
    <3>1. Len(s) \in 1 .. Len(s)
      BY <1>2 DEF TailOf
    <3> QED BY <1>2, <2>1, <3>1
  <2>2. CASE ~SweepDue
    BY <1>2, <2>2 DEF WindowInv, Remembered
  <2> QED BY <2>1, <2>2
<1>4. Remembered(k)'
  BY <1>1, <1>2, <1>3 DEF Remembered
<1>5. Len(s) \in Nat /\ s \in Seq(Int) /\ Len(hits[k]) \in Nat
  BY <1>2, WindowTypes DEF TailOf
<1> QED BY <1>0, <1>1, <1>2, <1>4, <1>5

\* One call.
LEMMA AllowKeeps ==
  ASSUME WindowInv, NEW k \in Keys, Allow(k)
  PROVE  WindowInv'
<1>0. /\ now \in Int /\ now >= 0 /\ lastSweep \in Int /\ lastSweep <= now
      /\ Window \in Int /\ Window > 0 /\ Limit \in Int /\ Limit > 0
      /\ hits \in [Keys -> Seq(Int)] /\ granted \in [Keys -> Seq(Int)]
      /\ now <= WindowHorizon /\ lastSweep >= -Window /\ denied \subseteq Keys
  BY WindowTypes, SlidingWindowAssumption DEF WindowInv, WindowTypeOK
<1>1. /\ lastSweep' = IF SweepDue THEN now ELSE lastSweep
      /\ called' = TRUE /\ now' = now
      /\ denied' \subseteq Keys
  BY <1>0 DEF Allow
<1>2. /\ DOMAIN hits' = Keys /\ DOMAIN granted' = Keys
      /\ hits' = [j \in Keys |-> hits'[j]] /\ granted' = [j \in Keys |-> granted'[j]]
      /\ \A j \in Keys \ {k} : hits'[j] = Swept[j] /\ granted'[j] = granted[j]
  <2>1. DOMAIN Swept = Keys /\ Swept = [j \in Keys |-> Swept[j]]
    BY <1>0 DEF Swept
  <2> QED BY <1>0, <2>1 DEF Allow
<1>3. /\ Remembered(k)'
      /\ hits'[k] \in Seq(Int) /\ granted'[k] \in Seq(Int)
      /\ Len(hits'[k]) <= Limit
      /\ WindowIsExact'
  <2>1. CASE HasRoom(k)
    BY <1>1, <2>1, GrantKeeps DEF Allow
  <2>2. CASE ~HasRoom(k)
    BY <1>1, <2>2, DenialKeeps DEF Allow
  <2> QED BY <2>1, <2>2
<1>4. ASSUME NEW j \in Keys
      PROVE  /\ Remembered(j)' /\ hits'[j] \in Seq(Int) /\ granted'[j] \in Seq(Int)
             /\ Len(hits'[j]) <= Limit
  <2>1. CASE j = k
    BY <1>3, <2>1
  <2>2. CASE j # k
    BY <1>0, <1>1, <1>2, <2>2, OthersRemembered
  <2> QED BY <2>1, <2>2
<1>5. hits' \in [Keys -> Seq(Int)] /\ granted' \in [Keys -> Seq(Int)]
  BY <1>2, <1>4
<1>6. lastSweep' > now - Window
  BY <1>0, <1>1 DEF SweepDue
<1>7. WindowTypeOK'
  <2>1. now' \in 0 .. WindowHorizon /\ lastSweep' \in -Window .. now'
    BY <1>0, <1>1, SlidingWindowAssumption
  <2>2. ASSUME NEW j \in Keys, NEW i \in DOMAIN hits'[j]
        PROVE  hits'[j][i] \in 0 .. now'
    <3>1. PICK h, g : h = hits'[j] /\ g = granted'[j]
      OBVIOUS
    <3>2. Chronicle(g, now') /\ TailOf(h, g)
      BY <1>4, <3>1 DEF Remembered
    <3>3. PICK n \in Nat, m \in Nat : n = Len(g) /\ m = Len(h)
      BY <3>2 DEF Chronicle, TailOf
    <3>4. m <= n /\ i \in 1 .. m
      <4>1. i \in DOMAIN h
        BY <3>1
      <4> QED BY <3>2, <3>3, <4>1 DEF TailOf
    <3>5. n - m + i \in 1 .. n /\ h[i] = g[n - m + i]
      BY <3>2, <3>3, <3>4 DEF TailOf
    <3>6. h[i] \in Int /\ 0 <= h[i] /\ h[i] <= now'
      BY <3>2, <3>3, <3>5 DEF Chronicle
    <3> QED BY <1>0, <1>1, <3>1, <3>6
  <2> QED BY <1>4, <2>1, <2>2 DEF WindowTypeOK
<1> QED BY <1>1, <1>3, <1>4, <1>5, <1>6, <1>7 DEF WindowInv

\* What is kept of a key is the tail of what it was granted (Limiter.Allow).
THEOREM WindowInvHolds == WindowSpec => []WindowInv
<1>1. WindowInv /\ [WindowNext]_windowVars => WindowInv'
  <2> SUFFICES ASSUME WindowInv, [WindowNext]_windowVars
               PROVE  WindowInv'
    OBVIOUS
  <2>1. CASE WindowTick
    BY <2>1, WindowTickKeeps
  <2>2. ASSUME NEW k \in Keys, Allow(k)
        PROVE  WindowInv'
    BY <2>2, AllowKeeps
  <2>3. CASE UNCHANGED windowVars
    BY <2>3 DEF windowVars, WindowInv, WindowTypeOK, Remembered, WindowIsExact,
         SpacedByWindow, DeniedOnlyAtLimit
  <2> QED BY <2>1, <2>2, <2>3 DEF WindowNext
<1> QED BY <1>1, WindowStart, PTL DEF WindowSpec

\* What IdleKeysForgotten says follows from the tail: a call leaves a sweep behind
\* that is younger than a window.
LEMMA WindowForgets ==
  WindowInv => IdleKeysForgotten
<1> SUFFICES ASSUME WindowInv, called, NEW k \in Keys, hits[k] # <<>>
             PROVE  hits[k][Len(hits[k])] > now - 2 * Window
  BY DEF IdleKeysForgotten
<1>1. hits[k][Len(hits[k])] > lastSweep - Window /\ lastSweep > now - Window
  BY DEF WindowInv, Remembered
<1>2. hits[k][Len(hits[k])] \in Int
  <2>1. hits[k] \in Seq(Int)
    BY WindowTypes
  <2> QED BY <2>1
<1> QED BY <1>1, <1>2, WindowTypes

\* The limiter never remembers more than limit events of a key.
THEOREM WindowTypeCorrect == WindowSpec => []WindowTypeOK
<1>1. WindowInv => WindowTypeOK
  BY DEF WindowInv
<1> QED BY <1>1, WindowInvHolds, PTL

\* The limiter is exact, for every limit and window: any limit + 1 events of a key that
\* it grants span a window, and it refuses a call only while limit of the key's own
\* events are younger than one.
THEOREM WindowIsExactHolds == WindowSpec => []WindowIsExact
<1>1. WindowInv => WindowIsExact
  BY DEF WindowInv
<1> QED BY <1>1, WindowInvHolds, PTL

\* A key that has not been used for two windows is forgotten by any key's call.
THEOREM IdleKeysForgottenHolds == WindowSpec => []IdleKeysForgotten
BY WindowInvHolds, WindowForgets, PTL

-----------------------------------------------------------------------------
(***************************************************************************)
(* GuessThrottle.                                                          *)
(***************************************************************************)
\* The resolutions of k under way.
Flying(k) == Cardinality({s \in Slots : flight[s] = k})

\* More than limit of the kept misses younger than a window, and a block is on that the
\* last miss began.
OnGuard(all, kept, block, t) ==
  \A i \in 1 .. Len(all) - MissLimit :
    i > Len(all) - Len(kept) /\ all[i] > t - Window => block = all[Len(all)] + Cooldown

\* Of the kept misses, those younger than a window leave room for the resolutions
\* under way.
RoomFor(all, kept, flying, t) ==
  \A i \in 1 .. Len(all) - (MissLimit + Cardinality(Slots) - flying) :
    i > Len(all) - Len(kept) => all[i] <= t - Window

\* The j-th miss began the block, was one too many, and had others under way behind it:
\* they have been recorded since or are still under way.
BegunBy(j, all, block, flying) ==
  /\ all[j] - all[j - MissLimit] < Window
  /\ block = all[j] + Cooldown
  /\ Len(all) - j + flying <= Cardinality(Slots) - 1

Earned(all, block, flying) ==
  block # None => \E j \in MissLimit + 1 .. Len(all) : BegunBy(j, all, block, flying)

\* Of the misses that are not kept, a release forgot the last few, and the others are a
\* window old.
Forgotten(all, kept, t) ==
  \A i \in 1 .. Len(all) - Len(kept) :
    i <= Len(all) - Len(kept) - Cardinality(Slots) + 1 => all[i] <= t - Window

\* What the throttle knows of k is enough to hold it to the budget.
Watched(k) ==
  /\ Chronicle(missed[k], now)
  /\ TailOf(misses[k], missed[k])
  /\ OnGuard(missed[k], misses[k], blockedUntil[k], now)
  /\ RoomFor(missed[k], misses[k], Flying(k), now)
  /\ Earned(missed[k], blockedUntil[k], Flying(k))
  /\ Forgotten(missed[k], misses[k], now)
  /\ Spaced(missed[k], Budget)

ThrottleInv ==
  /\ ThrottleTypeOK
  /\ misses \in [Keys -> Seq(Int)]
  /\ missed \in [Keys -> Seq(Int)]
  /\ blockedUntil \in [Keys -> Int \cup {None}]
  /\ IdleClientsForgotten
  /\ \A k \in Keys : Watched(k)

\* The constants are numbers.
LEMMA ThrottleNumbers ==
  /\ Window \in Int /\ Window > 0 /\ MissLimit \in Int /\ MissLimit > 0
  /\ Cooldown \in Int /\ Cooldown >= Window
  /\ Cardinality(Slots) \in Nat /\ IsFiniteSet(Slots)
  /\ Budget = MissLimit + 2 * Cardinality(Slots) - 1
BY RateLimitAssumption, GuessThrottleAssumption, FS_CardinalityType DEF Budget

\* The prune leaves what is known of the misses as it is, and of the misses that are
\* younger than a window it leaves no more than there is room for.
LEMMA PruneWatched ==
  ASSUME NEW all, NEW t \in Nat, Chronicle(all, t), NEW kept, TailOf(kept, all),
         NEW block, NEW flying \in Nat,
         OnGuard(all, kept, block, t), RoomFor(all, kept, flying, t), Forgotten(all, kept, t)
  PROVE  LET p == PruneBefore(kept, t - Window)
         IN  /\ TailOf(p, all)
             /\ \A i \in 1 .. Len(p) : p[i] > t - Window
             /\ OnGuard(all, p, block, t)
             /\ RoomFor(all, p, flying, t)
             /\ Forgotten(all, p, t)
             /\ Len(p) # 0 => Len(p) <= MissLimit + Cardinality(Slots) - flying
<1>0. PICK p : p = PruneBefore(kept, t - Window)
  OBVIOUS
<1>1. /\ Window \in Int /\ Window > 0 /\ MissLimit \in Int /\ Cardinality(Slots) \in Nat
      /\ t - Window \in Int
  BY ThrottleNumbers
<1>2. /\ TailOf(p, all)
      /\ Len(p) <= Len(kept)
      /\ \A i \in 1 .. Len(p) : p[i] > t - Window
      /\ \A i \in 1 .. Len(all) - Len(p) :
           i > Len(all) - Len(kept) => all[i] <= t - Window
  BY <1>0, <1>1, PruneFacts
<1>3. PICK n \in Nat, m \in Nat, q \in Nat : n = Len(all) /\ m = Len(kept) /\ q = Len(p)
  BY <1>2 DEF TailOf, Chronicle
<1>4. /\ q <= m /\ m <= n
      /\ \A i \in 1 .. n - q : i > n - m => all[i] <= t - Window
      /\ \A i \in 1 .. q : p[i] = all[n - q + i] /\ p[i] > t - Window
      /\ \A i \in 1 .. n : all[i] \in Int
      /\ \A i, j \in 1 .. n : i <= j => all[i] <= all[j]
  BY <1>2, <1>3 DEF TailOf, Chronicle
<1>5. PICK S \in Nat : S = Cardinality(Slots)
  BY <1>1
<1>6. OnGuard(all, p, block, t)
  <2>1. ASSUME NEW i \in 1 .. n - MissLimit, i > n - q, all[i] > t - Window
        PROVE  block = all[n] + Cooldown
    <3>1. i > n - m
      BY <1>4, <2>1
    <3> QED BY <1>3, <2>1, <3>1 DEF OnGuard
  <2> QED BY <1>3, <2>1 DEF OnGuard
<1>7. RoomFor(all, p, flying, t)
  <2>1. ASSUME NEW i \in 1 .. n - (MissLimit + S - flying), i > n - q
        PROVE  all[i] <= t - Window
    <3>1. i > n - m
      BY <1>4, <2>1
    <3> QED BY <1>3, <1>5, <2>1, <3>1 DEF RoomFor
  <2> QED BY <1>3, <1>5, <2>1 DEF RoomFor
<1>8. Forgotten(all, p, t)
  <2>1. ASSUME NEW i \in 1 .. n - q, i <= n - q - S + 1
        PROVE  all[i] <= t - Window
    <3>1. CASE i > n - m
      BY <1>4, <3>1
    <3>2. CASE ~(i > n - m) /\ q = m
      BY <1>3, <1>5, <2>1, <3>2 DEF Forgotten
    <3>3. CASE ~(i > n - m) /\ q # m
      <4>1. n - q \in 1 .. n - q /\ n - q > n - m /\ n - q \in 1 .. n /\ i \in 1 .. n /\ i <= n - q
        BY <1>4, <2>1, <3>3
      <4>2. all[n - q] <= t - Window /\ all[i] <= all[n - q]
        BY <1>4, <4>1
      <4> QED BY <1>1, <1>4, <4>1, <4>2
    <3> QED BY <3>1, <3>2, <3>3
  <2> QED BY <1>3, <1>5, <2>1 DEF Forgotten
<1>9. q # 0 => q <= MissLimit + S - flying
  <2> SUFFICES ASSUME q # 0, ~(q <= MissLimit + S - flying)
               PROVE  FALSE
    OBVIOUS
  <2>1. n - q + 1 > n - q /\ n - q + 1 \in 1 .. n
    BY <1>4
  <2>2. p[1] = all[n - q + 1] /\ p[1] > t - Window
    BY <1>4
  <2>3. CASE n - q + 1 \in 1 .. n - (MissLimit + S - flying)
    <3>1. all[n - q + 1] <= t - Window
      BY <1>3, <1>5, <1>7, <2>1, <2>3 DEF RoomFor
    <3> QED BY <1>1, <1>4, <2>1, <2>2, <3>1
  <2> QED BY <1>1, <1>4, <2>1, <2>3
<1> QED BY <1>0, <1>2, <1>3, <1>5, <1>6, <1>7, <1>8, <1>9

\* A miss is recorded: of its own key there is one resolution less under way, and if the
\* misses of a window are too many a block begins now.
LEMMA MissWatched ==
  ASSUME NEW all, NEW t \in Nat, Chronicle(all, t), NEW kept, TailOf(kept, all),
         \A i \in 1 .. Len(kept) : kept[i] > t - Window,
         NEW block, NEW flying \in Nat, flying >= 1, flying <= Cardinality(Slots),
         Len(kept) # 0 => Len(kept) <= MissLimit + Cardinality(Slots) - flying,
         Earned(all, block, flying), Forgotten(all, kept, t), Spaced(all, Budget),
         NEW after, after = IF OverLimit(Append(kept, t)) THEN t + Cooldown ELSE block
  PROVE  /\ Chronicle(Append(all, t), t)
         /\ TailOf(Append(kept, t), Append(all, t))
         /\ OnGuard(Append(all, t), Append(kept, t), after, t)
         /\ RoomFor(Append(all, t), Append(kept, t), flying - 1, t)
         /\ Earned(Append(all, t), after, flying - 1)
         /\ Forgotten(Append(all, t), Append(kept, t), t)
         /\ Spaced(Append(all, t), Budget)
<1>1. /\ Window \in Int /\ Window > 0 /\ MissLimit \in Int /\ MissLimit > 0
      /\ Cardinality(Slots) \in Nat /\ Cooldown \in Int
  BY ThrottleNumbers
<1>2. PICK n \in Nat, q \in Nat, S \in Nat : n = Len(all) /\ q = Len(kept) /\ S = Cardinality(Slots)
  BY <1>1 DEF TailOf, Chronicle
<1>3. PICK aa, kk : aa = Append(all, t) /\ kk = Append(kept, t)
  OBVIOUS
<1>4. /\ q <= n
      /\ all \in Seq(Int) /\ kept \in Seq(Int)
      /\ \A i \in 1 .. q : kept[i] = all[n - q + i] /\ kept[i] > t - Window
      /\ \A i \in 1 .. n : all[i] \in Int
      /\ q # 0 => q <= MissLimit + S - flying
      /\ flying <= S /\ S >= 1
  BY <1>2 DEF TailOf, Chronicle
<1>5. /\ aa \in Seq(Int) /\ Len(aa) = n + 1 /\ aa[n + 1] = t
      /\ \A i \in 1 .. n : aa[i] = all[i]
      /\ kk \in Seq(Int) /\ Len(kk) = q + 1 /\ kk[q + 1] = t
  BY <1>2, <1>3, <1>4
<1>6. Chronicle(aa, t) /\ TailOf(kk, aa)
  <2>1. AgedOut(all, kept, t)
    BY <1>2, <1>4 DEF AgedOut, Chronicle
  <2> QED BY <1>3, <2>1, AppendEvent
<1>7. OnGuard(aa, kk, after, t)
  <2>1. ASSUME NEW i \in 1 .. (n + 1) - MissLimit, i > (n + 1) - (q + 1)
        PROVE  after = t + Cooldown
    <3>1. Len(kk) > MissLimit
      BY <1>1, <1>5, <2>1
    <3> QED BY <1>3, <3>1 DEF OverLimit
  <2> QED BY <1>5, <2>1 DEF OnGuard
<1>8. RoomFor(aa, kk, flying - 1, t)
  <2>1. ASSUME NEW i \in 1 .. (n + 1) - (MissLimit + S - (flying - 1)), i > (n + 1) - (q + 1)
        PROVE  aa[i] <= t - Window
    <3>1. q + 1 > MissLimit + S - (flying - 1)
      BY <1>1, <2>1
    <3>2. q # 0
      BY <1>1, <1>4, <3>1
    <3> QED BY <1>1, <1>4, <3>1, <3>2
  <2> QED BY <1>2, <1>5, <2>1 DEF RoomFor
<1>9. Forgotten(aa, kk, t)
  <2>1. ASSUME NEW i \in 1 .. (n + 1) - (q + 1), i <= (n + 1) - (q + 1) - S + 1
        PROVE  aa[i] <= t - Window
    <3>1. i \in 1 .. n - q /\ i <= n - q - S + 1 /\ i \in 1 .. n
      BY <1>4, <2>1
    <3> QED BY <1>2, <1>5, <3>1 DEF Forgotten
  <2> QED BY <1>2, <1>5, <2>1 DEF Forgotten
<1>10. Earned(aa, after, flying - 1)
  <2>1. CASE OverLimit(kk)
    <3>1. after = t + Cooldown /\ q + 1 > MissLimit
      BY <1>3, <1>5, <2>1 DEF OverLimit
    <3>2. aa[n + 1 - MissLimit] > t - Window /\ aa[n + 1 - MissLimit] \in Int
      <4>1. n + 1 - MissLimit \in 1 .. n /\ q + 1 - MissLimit \in 1 .. q
        BY <1>1, <1>4, <3>1
      <4>2. n - q + (q + 1 - MissLimit) = n + 1 - MissLimit
        BY <1>1
      <4>3. kept[q + 1 - MissLimit] = all[n + 1 - MissLimit] /\ kept[q + 1 - MissLimit] > t - Window
        BY <1>4, <4>1, <4>2
      <4> QED BY <1>4, <1>5, <4>1, <4>3
    <3>3. PICK j, f : j = n + 1 /\ f = flying - 1
      OBVIOUS
    <3>4. BegunBy(j, aa, after, f)
      <4>1. aa[j] - aa[j - MissLimit] < Window
        BY <1>1, <1>5, <3>2, <3>3
      <4>2. after = aa[j] + Cooldown
        BY <1>5, <3>1, <3>3
      <4>3. Len(aa) - j + f <= Cardinality(Slots) - 1
        BY <1>2, <1>4, <1>5, <3>3
      <4> QED BY <4>1, <4>2, <4>3 DEF BegunBy
    <3>5. j \in MissLimit + 1 .. Len(aa)
      BY <1>1, <1>4, <1>5, <3>1, <3>3
    <3> QED BY <3>3, <3>4, <3>5 DEF Earned
  <2>2. CASE ~OverLimit(kk) /\ block # None
    <3>1. after = block
      BY <1>3, <2>2
    <3>2. PICK j \in MissLimit + 1 .. n : BegunBy(j, all, block, flying)
      BY <1>2, <2>2 DEF Earned
    <3>3. /\ j \in 1 .. n /\ j - MissLimit \in 1 .. n
          /\ aa[j] = all[j] /\ aa[j - MissLimit] = all[j - MissLimit]
      BY <1>1, <1>5, <3>2
    <3>4. all[j] - all[j - MissLimit] < Window /\ block = all[j] + Cooldown /\ n - j + flying <= S - 1
      BY <1>2, <3>2 DEF BegunBy
    <3>5. (n + 1) - j + (flying - 1) <= S - 1
      BY <3>3, <3>4
    <3>6. BegunBy(j, aa, after, flying - 1)
      BY <1>2, <1>5, <3>1, <3>3, <3>4, <3>5 DEF BegunBy
    <3>7. j \in MissLimit + 1 .. Len(aa)
      BY <1>1, <1>5, <3>3
    <3> QED BY <3>6, <3>7 DEF Earned
  <2>3. CASE ~OverLimit(kk) /\ block = None
    BY <1>3, <2>3 DEF Earned
  <2> QED BY <2>1, <2>2, <2>3
<1>11. Spaced(aa, Budget)
  <2>1. PICK b \in Nat : b = Budget /\ b = MissLimit + 2 * S - 1 /\ b # 0
    BY <1>1, <1>2, <1>4, ThrottleNumbers
  <2>2. ASSUME Len(all) + 1 - b >= 1
        PROVE  all[Len(all) + 1 - b] <= t - Window
    <3>1. q <= MissLimit + S - 1
      BY <1>1, <1>4
    <3>2. n + 1 - b >= 1
      BY <1>2, <2>2
    <3>3. n + 1 - b \in 1 .. n - q /\ n + 1 - b <= n - q - S + 1
      BY <1>1, <1>4, <2>1, <3>1, <3>2
    <3> QED BY <1>2, <3>3 DEF Forgotten
  <2>3. b \in Nat \ {0} /\ Spaced(all, b)
    BY <2>1
  <2> QED BY <1>3, <1>4, <2>1, <2>2, <2>3, AppendSpaced
<1> QED BY <1>3, <1>6, <1>7, <1>8, <1>9, <1>10, <1>11

\* A slot that is taken or freed changes the count of its key by one.
LEMMA FlyingMoves ==
  ASSUME flight \in [Slots -> Keys \cup {None}], NEW s \in Slots, NEW x \in Keys \cup {None},
         flight' = [flight EXCEPT ![s] = x], NEW k \in Keys
  PROVE  /\ Flying(k) \in Nat /\ Flying(k) <= Cardinality(Slots)
         /\ Flying(k)' \in Nat /\ Flying(k)' <= Cardinality(Slots)
         /\ x # k /\ flight[s] # k => Flying(k)' = Flying(k)
         /\ x # k /\ flight[s] = k => Flying(k)' = Flying(k) - 1
         /\ x = k /\ flight[s] = None => Flying(k)' = Flying(k) + 1
<1> DEFINE A == {r \in Slots : flight[r] = k}
           B == {r \in Slots : flight'[r] = k}
<1>1. A \subseteq Slots /\ B \subseteq Slots /\ None \notin Keys
  BY GuessThrottleAssumption
<1>2. /\ IsFiniteSet(A) /\ IsFiniteSet(B)
      /\ Cardinality(A) \in Nat /\ Cardinality(B) \in Nat
      /\ Cardinality(A) <= Cardinality(Slots) /\ Cardinality(B) <= Cardinality(Slots)
  BY <1>1, ThrottleNumbers, FS_Subset, FS_CardinalityType
<1>3. CASE x # k /\ flight[s] # k
  <2>1. A = B
    BY <1>3
  <2> QED BY <1>1, <1>2, <1>3, <2>1 DEF Flying
<1>4. CASE x # k /\ flight[s] = k
  <2>1. B = A \ {s} /\ s \in A
    BY <1>4
  <2>2. Cardinality(B) = Cardinality(A) - 1
    <3> HIDE DEF A, B
    <3> QED BY <1>2, <2>1, FS_RemoveElement
  <2> QED BY <1>1, <1>2, <1>4, <2>2 DEF Flying
<1>5. CASE x = k /\ flight[s] = None
  <2>1. B = A \cup {s} /\ s \notin A
    BY <1>1, <1>5
  <2>2. Cardinality(B) = Cardinality(A) + 1
    <3> HIDE DEF A, B
    <3> QED BY <1>2, <2>1, FS_AddElement
  <2> QED BY <1>1, <1>2, <1>5, <2>2 DEF Flying
<1> QED BY <1>1, <1>2, <1>3, <1>4, <1>5 DEF Flying

\* The types that arithmetic on the state needs.
LEMMA ThrottleTypes ==
  ASSUME ThrottleInv
  PROVE  /\ now \in Nat /\ lastSweep \in Int /\ lastSweep <= now
         /\ misses \in [Keys -> Seq(Int)] /\ missed \in [Keys -> Seq(Int)]
         /\ blockedUntil \in [Keys -> Int \cup {None}]
         /\ flight \in [Slots -> Keys \cup {None}]
         /\ None \notin Int /\ None \notin Keys
BY ThrottleNumbers, GuessThrottleAssumption DEF ThrottleInv, ThrottleTypeOK

\* The invariant holds at first.
LEMMA ThrottleStart ==
  ThrottleInit => ThrottleInv
<1> SUFFICES ASSUME ThrottleInit
             PROVE  ThrottleInv
  OBVIOUS
<1>1. /\ now = 0 /\ lastSweep = -Window
      /\ \A k \in Keys : misses[k] = <<>> /\ missed[k] = <<>> /\ blockedUntil[k] = None
      /\ flight \in [Slots -> Keys \cup {None}]
      /\ misses \in [Keys -> Seq(Int)] /\ missed \in [Keys -> Seq(Int)]
      /\ blockedUntil \in [Keys -> Int \cup {None}]
  BY DEF ThrottleInit
<1>2. ThrottleTypeOK
  BY <1>1, ThrottleNumbers, GuessThrottleAssumption DEF ThrottleTypeOK
<1>3. IdleClientsForgotten
  BY <1>1 DEF IdleClientsForgotten
<1>4. ASSUME NEW k \in Keys
      PROVE  Watched(k)
  <2>1. Chronicle(<<>>, 0) /\ TailOf(<<>>, <<>>)
    BY DEF Chronicle, TailOf
  <2>2. Flying(k) = 0
    <3>1. {s \in Slots : flight[s] = k} = {}
      BY GuessThrottleAssumption DEF ThrottleInit
    <3> QED BY <3>1, FS_EmptySet DEF Flying
  <2>3. /\ OnGuard(<<>>, <<>>, None, 0) /\ RoomFor(<<>>, <<>>, 0, 0)
        /\ Earned(<<>>, None, 0) /\ Forgotten(<<>>, <<>>, 0)
    BY ThrottleNumbers DEF OnGuard, RoomFor, Earned, Forgotten
  <2>4. Spaced(<<>>, Budget)
    <3>1. Budget \in Nat
      BY ThrottleNumbers
    <3> QED BY <3>1 DEF Spaced
  <2> QED BY <1>1, <2>1, <2>2, <2>3, <2>4 DEF Watched
<1> QED BY <1>1, <1>2, <1>3, <1>4 DEF ThrottleInv

\* Time passes: what is a window old stays so.
LEMMA ThrottleTickKeeps ==
  ASSUME ThrottleInv, ThrottleTick
  PROVE  ThrottleInv'
<1>1. /\ now' = now + 1 /\ now < ThrottleHorizon
      /\ UNCHANGED <<misses, blockedUntil, lastSweep, flight, missed>>
  BY DEF ThrottleTick, Advance
<1>2. ThrottleTypeOK'
  BY <1>1, ThrottleTypes, ThrottleNumbers, GuessThrottleAssumption
  DEF ThrottleInv, ThrottleTypeOK
<1>3. IdleClientsForgotten'
  BY <1>1 DEF ThrottleInv, IdleClientsForgotten
<1>4. ASSUME NEW k \in Keys
      PROVE  Watched(k)'
  <2>1. PICK all, kept, block, f :
          all = missed[k] /\ kept = misses[k] /\ block = blockedUntil[k] /\ f = Flying(k)
    OBVIOUS
  <2>2. /\ Chronicle(all, now) /\ TailOf(kept, all)
        /\ OnGuard(all, kept, block, now) /\ RoomFor(all, kept, f, now)
        /\ Earned(all, block, f) /\ Forgotten(all, kept, now) /\ Spaced(all, Budget)
    BY <2>1 DEF ThrottleInv, Watched
  <2>3. PICK n \in Nat, q \in Nat : n = Len(all) /\ q = Len(kept)
    BY <2>2 DEF Chronicle, TailOf
  <2>4. /\ \A i \in 1 .. n : all[i] \in Int
        /\ now \in Int /\ Window \in Int /\ MissLimit > 0 /\ MissLimit \in Int
        /\ Cardinality(Slots) \in Int /\ q <= n /\ f \in Int /\ f <= Cardinality(Slots)
    <3>1. Flying(k) \in Int /\ Flying(k) <= Cardinality(Slots)
      <4>1. {s \in Slots : flight[s] = k} \subseteq Slots
        OBVIOUS
      <4> QED BY <4>1, ThrottleNumbers, FS_Subset, FS_CardinalityType DEF Flying
    <3> QED BY <2>1, <2>2, <2>3, <3>1, ThrottleNumbers, ThrottleTypes DEF Chronicle, TailOf
  <2>0. PICK t : t = now + 1
    OBVIOUS
  <2>5. Chronicle(all, t)
    BY <2>0, <2>2, <2>3, <2>4 DEF Chronicle
  <2>6. OnGuard(all, kept, block, t)
    <3>1. ASSUME NEW i \in 1 .. n - MissLimit, i > n - q, all[i] > t - Window
          PROVE  block = all[n] + Cooldown
      <4>1. i \in 1 .. n
        BY <2>4
      <4>2. all[i] > now - Window
        BY <2>0, <2>4, <3>1, <4>1
      <4> QED BY <2>2, <2>3, <3>1, <4>2 DEF OnGuard
    <3>2. \A i \in 1 .. Len(all) - MissLimit :
            i > Len(all) - Len(kept) /\ all[i] > t - Window
              => block = all[Len(all)] + Cooldown
      BY <2>3, <3>1
    <3> QED BY <3>2 DEF OnGuard
  <2>7. RoomFor(all, kept, f, t)
    BY <2>0, <2>2, <2>3, <2>4 DEF RoomFor
  <2>8. Forgotten(all, kept, t)
    BY <2>0, <2>2, <2>3, <2>4 DEF Forgotten
  <2>9. Flying(k)' = f
    BY <1>1, <2>1 DEF Flying
  <2> QED BY <1>1, <2>0, <2>1, <2>2, <2>5, <2>6, <2>7, <2>8, <2>9 DEF Watched
<1> QED BY <1>1, <1>2, <1>3, <1>4 DEF ThrottleInv

\* A resolution that ends without a miss.
LEMMA ResolveKeeps ==
  ASSUME ThrottleInv, NEW s \in Slots, Resolve(s)
  PROVE  ThrottleInv'
<1>1. /\ flight' = [flight EXCEPT ![s] = None]
      /\ UNCHANGED <<now, misses, blockedUntil, lastSweep, missed>>
  BY DEF Resolve
<1>2. ThrottleTypeOK'
  BY <1>1 DEF ThrottleInv, ThrottleTypeOK
<1>3. IdleClientsForgotten'
  BY <1>1 DEF ThrottleInv, IdleClientsForgotten
<1>4. ASSUME NEW k \in Keys
      PROVE  Watched(k)'
  <2>1. PICK f, g : f = Flying(k) /\ g = Flying(k)'
    OBVIOUS
  <2>2. f \in Int /\ g \in Int /\ g <= f
    <3>1. /\ flight \in [Slots -> Keys \cup {None}] /\ None \in Keys \cup {None}
          /\ None # k /\ flight' = [flight EXCEPT ![s] = None]
      BY <1>1, ThrottleTypes
    <3>2. /\ Flying(k) \in Nat /\ Flying(k)' \in Nat
          /\ flight[s] # k => Flying(k)' = Flying(k)
          /\ flight[s] = k => Flying(k)' = Flying(k) - 1
      BY <3>1, FlyingMoves
    <3> QED BY <2>1, <3>2
  <2>3. PICK all, kept, block : all = missed[k] /\ kept = misses[k] /\ block = blockedUntil[k]
    OBVIOUS
  <2>4. /\ Chronicle(all, now) /\ TailOf(kept, all)
        /\ OnGuard(all, kept, block, now) /\ RoomFor(all, kept, f, now)
        /\ Earned(all, block, f) /\ Forgotten(all, kept, now) /\ Spaced(all, Budget)
    BY <2>1, <2>3 DEF ThrottleInv, Watched
  <2>5. PICK n \in Nat, q \in Nat : n = Len(all) /\ q = Len(kept)
    BY <2>4 DEF Chronicle, TailOf
  <2>6. RoomFor(all, kept, g, now)
    <3>0. PICK S \in Nat : S = Cardinality(Slots)
      BY ThrottleNumbers
    <3>1. ASSUME NEW i \in 1 .. n - (MissLimit + S - g), i > n - q
          PROVE  all[i] <= now - Window
      <4>1. i \in 1 .. n - (MissLimit + S - f)
        BY <2>2, ThrottleNumbers
      <4> QED BY <2>4, <2>5, <3>0, <3>1, <4>1 DEF RoomFor
    <3> QED BY <2>5, <3>0, <3>1 DEF RoomFor
  <2>7. Earned(all, block, g)
    <3> SUFFICES ASSUME block # None
                 PROVE  \E j \in MissLimit + 1 .. n : BegunBy(j, all, block, g)
      BY <2>5 DEF Earned
    <3>1. PICK j \in MissLimit + 1 .. n : BegunBy(j, all, block, f)
      BY <2>4, <2>5 DEF Earned
    <3>2. n - j + g <= Cardinality(Slots) - 1
      BY <2>2, <2>5, <3>1, ThrottleNumbers DEF BegunBy
    <3> QED BY <2>5, <3>1, <3>2 DEF BegunBy
  <2> QED BY <1>1, <2>1, <2>3, <2>4, <2>6, <2>7 DEF Watched
<1> QED BY <1>1, <1>2, <1>3, <1>4 DEF ThrottleInv

\* While no block is on, the misses of a window are within the limit.
LEMMA AdmitWatched ==
  ASSUME ThrottleInv, NEW k \in Keys, blockedUntil[k] = None \/ Expired(k),
         NEW f \in Nat, f <= Cardinality(Slots)
  PROVE  RoomFor(missed[k], misses[k], f, now)
<1>1. PICK all, kept, block : all = missed[k] /\ kept = misses[k] /\ block = blockedUntil[k]
  OBVIOUS
<1>2. /\ Chronicle(all, now) /\ TailOf(kept, all) /\ OnGuard(all, kept, block, now)
  BY <1>1 DEF ThrottleInv, Watched
<1>3. PICK n \in Nat, q \in Nat, S \in Nat : n = Len(all) /\ q = Len(kept) /\ S = Cardinality(Slots)
  BY <1>2, ThrottleNumbers DEF Chronicle, TailOf
<1>4. /\ \A i \in 1 .. n : all[i] \in Int
      /\ \A i, j \in 1 .. n : i <= j => all[i] <= all[j]
      /\ MissLimit \in Int /\ MissLimit > 0 /\ Window \in Int /\ Cooldown \in Int
      /\ Cooldown >= Window /\ now \in Int /\ f <= S
  BY <1>2, <1>3, ThrottleNumbers, ThrottleTypes DEF Chronicle
<1>5. ASSUME NEW i \in 1 .. n - (MissLimit + S - f), i > n - q
      PROVE  all[i] <= now - Window
  <2>1. i \in 1 .. n - MissLimit /\ i \in 1 .. n /\ n \in 1 .. n /\ i <= n
    BY <1>4
  <2> SUFFICES ASSUME ~(all[i] <= now - Window)
               PROVE  FALSE
    OBVIOUS
  <2>2. all[i] > now - Window
    BY <1>4, <2>1
  <2>3. block = all[n] + Cooldown
    BY <1>2, <1>3, <1>5, <2>1, <2>2 DEF OnGuard
  <2>4. all[i] <= all[n] /\ all[n] \in Int /\ all[i] \in Int
    BY <1>4, <2>1
  <2>5. block \in Int /\ block >= now
    BY <1>4, <2>2, <2>3, <2>4
  <2>6. block # None
    BY <2>5, GuessThrottleAssumption
  <2> QED BY <1>1, <1>4, <2>5, <2>6 DEF Expired
<1> QED BY <1>1, <1>3, <1>5 DEF RoomFor

\* A release forgets the misses of the key: those that are not a window old were under
\* way when the block began.
LEMMA ReleaseForgets ==
  ASSUME ThrottleInv, NEW k \in Keys, Expired(k)
  PROVE  Forgotten(missed[k], <<>>, now)
<1>1. PICK all, block, f : all = missed[k] /\ block = blockedUntil[k] /\ f = Flying(k)
  OBVIOUS
<1>2. Chronicle(all, now) /\ Earned(all, block, f)
  BY <1>1 DEF ThrottleInv, Watched
<1>3. PICK n \in Nat, S \in Nat : n = Len(all) /\ S = Cardinality(Slots)
  BY <1>2, ThrottleNumbers DEF Chronicle
<1>4. /\ \A i \in 1 .. n : all[i] \in Int
      /\ \A i, j \in 1 .. n : i <= j => all[i] <= all[j]
      /\ MissLimit \in Int /\ MissLimit > 0 /\ Window \in Int /\ Cooldown \in Int
      /\ Cooldown >= Window /\ now \in Int
  BY <1>2, <1>3, ThrottleNumbers, ThrottleTypes DEF Chronicle
<1>5. f \in Nat
  <2>1. {s \in Slots : flight[s] = k} \subseteq Slots
    OBVIOUS
  <2> QED BY <1>1, <2>1, ThrottleNumbers, FS_Subset, FS_CardinalityType DEF Flying
<1>6. block # None /\ now > block
  BY <1>1 DEF Expired
<1>7. PICK j \in MissLimit + 1 .. n : BegunBy(j, all, block, f)
  BY <1>2, <1>3, <1>6 DEF Earned
<1>8. block = all[j] + Cooldown /\ n - j + f <= S - 1 /\ j \in 1 .. n /\ all[j] \in Int
  BY <1>3, <1>4, <1>7 DEF BegunBy
<1>9. ASSUME NEW i \in 1 .. n, i <= n - S + 1
      PROVE  all[i] <= now - Window
  <2>1. i <= j
    BY <1>5, <1>8, <1>9
  <2>2. all[i] <= all[j] /\ all[i] \in Int
    BY <1>4, <1>8, <2>1
  <2> QED BY <1>4, <1>6, <1>8, <2>2
<1> QED BY <1>1, <1>3, <1>9 DEF Forgotten

\* A resolution is admitted.
LEMMA AdmitKeeps ==
  ASSUME ThrottleInv, NEW s \in Slots, NEW x \in Keys, Admit(s, x)
  PROVE  ThrottleInv'
<1>1. /\ flight[s] = None
      /\ blockedUntil[x] = None \/ Expired(x)
      /\ flight' = [flight EXCEPT ![s] = x]
      /\ UNCHANGED <<now, lastSweep, missed>>
      /\ Expired(x) => /\ blockedUntil' = [blockedUntil EXCEPT ![x] = None]
                       /\ misses' = [misses EXCEPT ![x] = <<>>]
      /\ ~Expired(x) => UNCHANGED <<blockedUntil, misses>>
  BY DEF Admit
<1>2. /\ misses' \in [Keys -> Seq(Int)]
      /\ blockedUntil' \in [Keys -> Int \cup {None}]
      /\ flight' \in [Slots -> Keys \cup {None}]
      /\ \A k \in Keys : misses'[k] = misses[k] \/ misses'[k] = <<>>
      /\ \A k \in Keys : blockedUntil'[k] = blockedUntil[k] \/ blockedUntil'[k] = None
  <2>1. CASE Expired(x)
    <3>1. blockedUntil' \in [Keys -> Int \cup {None}]
      BY <1>1, <2>1, ThrottleTypes
    <3>2. misses' \in [Keys -> Seq(Int)]
      <4>1. <<>> \in Seq(Int) /\ misses' = [misses EXCEPT ![x] = <<>>]
        BY <1>1, <2>1
      <4> QED BY <4>1, ThrottleTypes
    <3>3. flight' \in [Slots -> Keys \cup {None}]
      BY <1>1, ThrottleTypes
    <3> QED BY <1>1, <2>1, <3>1, <3>2, <3>3, ThrottleTypes
  <2>2. CASE ~Expired(x)
    BY <1>1, <2>2, ThrottleTypes
  <2> QED BY <2>1, <2>2
<1>3. ThrottleTypeOK'
  BY <1>1, <1>2 DEF ThrottleInv, ThrottleTypeOK
<1>4. IdleClientsForgotten'
  BY <1>1, <1>2 DEF ThrottleInv, IdleClientsForgotten
<1>5. ASSUME NEW k \in Keys, k # x
      PROVE  Watched(k)'
  <2>1. misses'[k] = misses[k] /\ blockedUntil'[k] = blockedUntil[k]
    BY <1>1, <1>5, ThrottleTypes
  <2>2. Flying(k)' = Flying(k)
    <3>1. /\ flight \in [Slots -> Keys \cup {None}] /\ x \in Keys \cup {None}
          /\ x # k /\ flight[s] # k
      BY <1>1, <1>5, ThrottleTypes
    <3> QED BY <1>1, <3>1, FlyingMoves
  <2> QED BY <1>1, <2>1, <2>2 DEF ThrottleInv, Watched
<1>6. Watched(x)'
  <2>1. PICK g : g = Flying(x)' /\ g \in Nat /\ g <= Cardinality(Slots)
    BY <1>1, ThrottleTypes, FlyingMoves
  <2>2. /\ Chronicle(missed[x], now) /\ TailOf(misses[x], missed[x])
        /\ OnGuard(missed[x], misses[x], blockedUntil[x], now)
        /\ Forgotten(missed[x], misses[x], now) /\ Spaced(missed[x], Budget)
    BY DEF ThrottleInv, Watched
  <2>3. blockedUntil'[x] = None /\ Earned(missed[x], None, g)
    BY <1>1, ThrottleTypes DEF Earned
  <2>4. CASE Expired(x)
    <3>1. misses'[x] = <<>>
      BY <1>1, <2>4, ThrottleTypes
    <3>2. TailOf(<<>>, missed[x])
      BY <2>2 DEF TailOf, Chronicle
    <3>3. OnGuard(missed[x], <<>>, None, now) /\ RoomFor(missed[x], <<>>, g, now)
      <4>1. PICK n \in Nat : n = Len(missed[x])
        BY <2>2 DEF Chronicle
      <4>2. PICK S \in Nat : S = Cardinality(Slots) /\ g <= S /\ MissLimit > 0 /\ MissLimit \in Int
        BY <2>1, ThrottleNumbers
      <4>3. \A i \in 1 .. n - MissLimit : ~(i > n - 0)
        BY <4>2
      <4>4. \A i \in 1 .. n - (MissLimit + S - g) : ~(i > n - 0)
        BY <2>1, <4>2
      <4>5. Len(<<>>) = 0
        OBVIOUS
      <4>6. OnGuard(missed[x], <<>>, None, now)
        BY <4>1, <4>3, <4>5 DEF OnGuard
      <4>7. RoomFor(missed[x], <<>>, g, now)
        BY <4>1, <4>2, <4>4, <4>5 DEF RoomFor
      <4> QED BY <4>6, <4>7
    <3>4. Forgotten(missed[x], <<>>, now)
      BY <2>4, ReleaseForgets
    <3> QED BY <1>1, <2>1, <2>2, <2>3, <3>1, <3>2, <3>3, <3>4 DEF Watched
  <2>5. CASE ~Expired(x)
    <3>1. RoomFor(missed[x], misses[x], g, now)
      BY <1>1, <2>1, AdmitWatched
    <3> QED BY <1>1, <2>1, <2>2, <2>3, <2>5, <3>1 DEF Watched
  <2> QED BY <2>4, <2>5
<1>7. missed' \in [Keys -> Seq(Int)]
  BY <1>1, ThrottleTypes
<1> QED BY <1>2, <1>3, <1>4, <1>5, <1>6, <1>7 DEF ThrottleInv

\* What the sweep leaves of a key's misses and of its block is still enough.
LEMMA SweepWatched ==
  ASSUME ThrottleInv, NEW k \in Keys, NEW f \in Nat, f = Flying(k)
  PROVE  /\ TailOf(SweptMisses[k], missed[k])
         /\ OnGuard(missed[k], SweptMisses[k], SweptBlocks[k], now)
         /\ RoomFor(missed[k], SweptMisses[k], f, now)
         /\ Earned(missed[k], SweptBlocks[k], f)
         /\ Forgotten(missed[k], SweptMisses[k], now)
         /\ SweepDue => \A i \in 1 .. Len(SweptMisses[k]) : SweptMisses[k][i] > now - Window
         /\ ~SweepDue => SweptMisses[k] = misses[k]
<1>1. PICK all, kept, block, swept, left :
        /\ all = missed[k] /\ kept = misses[k] /\ block = blockedUntil[k]
        /\ swept = SweptMisses[k] /\ left = SweptBlocks[k]
  OBVIOUS
<1>2. /\ Chronicle(all, now) /\ TailOf(kept, all)
      /\ OnGuard(all, kept, block, now) /\ RoomFor(all, kept, f, now)
      /\ Earned(all, block, f) /\ Forgotten(all, kept, now)
  BY <1>1 DEF ThrottleInv, Watched
<1>3. /\ TailOf(swept, all)
      /\ OnGuard(all, swept, block, now)
      /\ RoomFor(all, swept, f, now)
      /\ Forgotten(all, swept, now)
      /\ SweepDue => \A i \in 1 .. Len(swept) : swept[i] > now - Window
      /\ ~SweepDue => swept = kept
  <2>1. CASE SweepDue
    <3>1. swept = PruneBefore(kept, now - Window)
      BY <1>1, <2>1 DEF SweptMisses
    <3> QED BY <1>2, <2>1, <3>1, ThrottleTypes, PruneWatched
  <2>2. CASE ~SweepDue
    BY <1>1, <1>2, <2>2 DEF SweptMisses
  <2> QED BY <2>1, <2>2
<1>4. left = block \/ (left = None /\ Expired(k))
  BY <1>1 DEF SweptBlocks
<1>5. OnGuard(all, swept, left, now)
  <2>1. CASE left = block
    BY <1>3, <2>1
  <2>2. CASE Expired(k)
    <3>1. PICK n \in Nat : n = Len(all)
      BY <1>2 DEF Chronicle
    <3>2. /\ \A i \in 1 .. n : all[i] \in Int
          /\ \A i, j \in 1 .. n : i <= j => all[i] <= all[j]
          /\ MissLimit \in Int /\ MissLimit > 0 /\ Window \in Int /\ Cooldown \in Int
          /\ Cooldown >= Window /\ now \in Int
      BY <1>2, <3>1, ThrottleNumbers, ThrottleTypes DEF Chronicle
    <3>3. ASSUME NEW i \in 1 .. n - MissLimit, i > n - Len(swept), all[i] > now - Window
          PROVE  FALSE
      <4>1. i \in 1 .. n /\ n \in 1 .. n /\ i <= n
        BY <3>2
      <4>2. block = all[n] + Cooldown
        BY <1>3, <3>1, <3>3 DEF OnGuard
      <4>3. all[i] <= all[n] /\ all[n] \in Int /\ all[i] \in Int
        BY <3>2, <4>1
      <4>4. now > block
        BY <1>1, <2>2 DEF Expired
      <4> QED BY <3>2, <3>3, <4>2, <4>3, <4>4
    <3> QED BY <3>1, <3>3 DEF OnGuard
  <2> QED BY <1>4, <2>1, <2>2
<1>6. Earned(all, left, f)
  BY <1>2, <1>4 DEF Earned
<1> QED BY <1>1, <1>3, <1>5, <1>6

\* After a sweep no miss is older than two windows and no block has ended.
LEMMA SweepForgets ==
  ASSUME ThrottleInv, NEW k \in Keys, NEW s, s = IF SweepDue THEN now ELSE lastSweep
  PROVE  /\ SweptMisses[k] # <<>> => SweptMisses[k][Len(SweptMisses[k])] > s - Window
         /\ SweptBlocks[k] # None => SweptBlocks[k] >= s
<1>1. PICK f : f = Flying(k) /\ f \in Nat
  <2>1. {r \in Slots : flight[r] = k} \subseteq Slots
    OBVIOUS
  <2> QED BY <2>1, ThrottleNumbers, FS_Subset, FS_CardinalityType DEF Flying
<1>2. PICK swept : swept = SweptMisses[k]
  OBVIOUS
<1>3. /\ TailOf(swept, missed[k])
      /\ SweepDue => \A i \in 1 .. Len(swept) : swept[i] > now - Window
      /\ ~SweepDue => swept = misses[k]
  BY <1>1, <1>2, SweepWatched
<1>4. swept # <<>> => swept[Len(swept)] > s - Window
  <2>1. CASE SweepDue
    <3> SUFFICES ASSUME swept # <<>>
                 PROVE  swept[Len(swept)] > now - Window
      BY <2>1
    <3>1. Len(swept) \in 1 .. Len(swept)
      BY <1>3 DEF TailOf
    <3> QED BY <1>3, <2>1, <3>1
  <2>2. CASE ~SweepDue
    BY <1>3, <2>2 DEF ThrottleInv, IdleClientsForgotten
  <2> QED BY <2>1, <2>2
<1>5. SweptBlocks[k] # None => SweptBlocks[k] >= s
  <2>1. CASE SweepDue
    BY <2>1, ThrottleTypes DEF SweptBlocks, Expired
  <2>2. CASE ~SweepDue
    BY <2>2 DEF SweptBlocks, ThrottleInv, IdleClientsForgotten
  <2> QED BY <2>1, <2>2
<1> QED BY <1>2, <1>4, <1>5

\* A resolution ends in a miss.
LEMMA MissKeeps ==
  ASSUME ThrottleInv, NEW s \in Slots, RecordMiss(s)
  PROVE  ThrottleInv'
<1>0. /\ now \in Nat /\ lastSweep \in Int /\ lastSweep <= now
      /\ misses \in [Keys -> Seq(Int)] /\ missed \in [Keys -> Seq(Int)]
      /\ blockedUntil \in [Keys -> Int \cup {None}]
      /\ flight \in [Slots -> Keys \cup {None}] /\ None \notin Int /\ None \notin Keys
      /\ Window \in Int /\ Window > 0 /\ Cooldown \in Int /\ Cooldown >= Window
  BY ThrottleTypes, ThrottleNumbers
<1>a. /\ now \in Int /\ now >= 0 /\ Window \in Int /\ Window > 0
      /\ Cooldown \in Int /\ Cooldown >= Window /\ now + Cooldown \in Int
  BY <1>0
<1>1. PICK x \in Keys : x = flight[s]
  BY <1>0 DEF RecordMiss
<1>2. PICK p : p = PruneBefore(SweptMisses[x], now - Window)
  OBVIOUS
<1>3. PICK kk : kk = Append(p, now)
  OBVIOUS
<1>4. /\ misses' = [SweptMisses EXCEPT ![x] = kk]
      /\ blockedUntil' = IF OverLimit(kk) THEN [SweptBlocks EXCEPT ![x] = now + Cooldown]
                                          ELSE SweptBlocks
      /\ lastSweep' = IF SweepDue THEN now ELSE lastSweep
      /\ missed' = [missed EXCEPT ![x] = Append(@, now)]
      /\ flight' = [flight EXCEPT ![s] = None]
      /\ now' = now
  BY <1>1, <1>2, <1>3 DEF RecordMiss, BlockEnd
<1>5. DOMAIN SweptMisses = Keys /\ DOMAIN SweptBlocks = Keys
  BY <1>0 DEF SweptMisses, SweptBlocks
<1>6. /\ misses'[x] = kk
      /\ blockedUntil'[x] = IF OverLimit(kk) THEN now + Cooldown ELSE SweptBlocks[x]
      /\ missed'[x] = Append(missed[x], now)
      /\ \A k \in Keys \ {x} : /\ misses'[k] = SweptMisses[k]
                               /\ blockedUntil'[k] = SweptBlocks[k]
                               /\ missed'[k] = missed[k]
      /\ DOMAIN misses' = Keys /\ DOMAIN blockedUntil' = Keys /\ DOMAIN missed' = Keys
  BY <1>0, <1>4, <1>5
<1>7. \A k \in Keys : SweptBlocks[k] = blockedUntil[k] \/ SweptBlocks[k] = None
  BY DEF SweptBlocks
<1>8. flight' \in [Slots -> Keys \cup {None}]
  BY <1>0, <1>4
<1>9. Watched(x)' /\ TailOf(p, missed[x])
  <2>1. PICK f, g : f = Flying(x) /\ g = Flying(x)'
    OBVIOUS
  <2>2. /\ f \in Nat /\ g \in Nat /\ g = f - 1 /\ f <= Cardinality(Slots) /\ f >= 1
    <3>1. None \in Keys \cup {None} /\ None # x
      BY <1>0
    <3>2. /\ Flying(x) \in Nat /\ Flying(x)' \in Nat /\ Flying(x) <= Cardinality(Slots)
          /\ Flying(x)' = Flying(x) - 1
      BY <1>0, <1>1, <1>4, <3>1, FlyingMoves
    <3> QED BY <2>1, <3>2
  <2>3. PICK all, swept, block : all = missed[x] /\ swept = SweptMisses[x] /\ block = SweptBlocks[x]
    OBVIOUS
  <2>4. Chronicle(all, now) /\ Spaced(all, Budget)
    BY <2>3 DEF ThrottleInv, Watched
  <2>5. /\ TailOf(swept, all) /\ OnGuard(all, swept, block, now) /\ RoomFor(all, swept, f, now)
        /\ Earned(all, block, f) /\ Forgotten(all, swept, now)
    BY <2>1, <2>2, <2>3, SweepWatched
  <2>6. /\ TailOf(p, all)
        /\ \A i \in 1 .. Len(p) : p[i] > now - Window
        /\ Forgotten(all, p, now)
        /\ Len(p) # 0 => Len(p) <= MissLimit + Cardinality(Slots) - f
    BY <1>0, <1>2, <2>2, <2>3, <2>4, <2>5, PruneWatched
  <2>7. PICK after, aa :
          /\ after = IF OverLimit(Append(p, now)) THEN now + Cooldown ELSE block
          /\ aa = Append(all, now)
    OBVIOUS
  <2>8. /\ Chronicle(aa, now) /\ TailOf(kk, aa)
        /\ OnGuard(aa, kk, after, now) /\ RoomFor(aa, kk, f - 1, now)
        /\ Earned(aa, after, f - 1) /\ Forgotten(aa, kk, now) /\ Spaced(aa, Budget)
    BY <1>0, <1>3, <2>2, <2>4, <2>5, <2>6, <2>7, MissWatched
  <2>9. blockedUntil'[x] = after /\ missed'[x] = aa /\ misses'[x] = kk
    BY <1>3, <1>6, <2>3, <2>7
  <2> QED BY <1>4, <2>1, <2>2, <2>3, <2>6, <2>8, <2>9 DEF Watched
<1>10. ASSUME NEW k \in Keys, k # x
       PROVE  Watched(k)' /\ TailOf(SweptMisses[k], missed[k])
  <2>1. PICK f : f = Flying(k) /\ f \in Nat /\ Flying(k)' = f
    <3>1. None \in Keys \cup {None} /\ None # k /\ flight[s] # k
      BY <1>0, <1>1, <1>10
    <3> QED BY <1>0, <1>4, <3>1, FlyingMoves
  <2>2. /\ TailOf(SweptMisses[k], missed[k])
        /\ OnGuard(missed[k], SweptMisses[k], SweptBlocks[k], now)
        /\ RoomFor(missed[k], SweptMisses[k], f, now)
        /\ Earned(missed[k], SweptBlocks[k], f)
        /\ Forgotten(missed[k], SweptMisses[k], now)
    BY <2>1, SweepWatched
  <2>3. Chronicle(missed[k], now) /\ Spaced(missed[k], Budget)
    BY DEF ThrottleInv, Watched
  <2> QED BY <1>4, <1>6, <1>10, <2>1, <2>2, <2>3 DEF Watched
<1>11. /\ misses' \in [Keys -> Seq(Int)]
       /\ missed' \in [Keys -> Seq(Int)]
       /\ blockedUntil' \in [Keys -> Int \cup {None}]
  <2>1. ASSUME NEW k \in Keys
        PROVE  misses'[k] \in Seq(Int) /\ missed'[k] \in Seq(Int)
               /\ blockedUntil'[k] \in Int \cup {None}
    <3>1. Watched(k)'
      BY <1>9, <1>10
    <3>2. misses'[k] \in Seq(Int) /\ missed'[k] \in Seq(Int)
      BY <3>1 DEF Watched, TailOf, Chronicle
    <3>3. blockedUntil'[k] \in Int \cup {None}
      <4>1. SweptBlocks[k] \in Int \cup {None}
        BY <1>0, <1>7
      <4>2. blockedUntil'[k] = SweptBlocks[k] \/ blockedUntil'[k] = now + Cooldown
        BY <1>6
      <4> QED BY <1>a, <4>1, <4>2
    <3> QED BY <3>2, <3>3
  <2>2. /\ misses' = [k \in Keys |-> misses'[k]] /\ missed' = [k \in Keys |-> missed'[k]]
        /\ blockedUntil' = [k \in Keys |-> blockedUntil'[k]]
    BY <1>0, <1>4, <1>5, <1>6 DEF SweptMisses, SweptBlocks
  <2> QED BY <2>1, <2>2
<1>12. lastSweep' \in -Window .. now /\ now \in 0 .. ThrottleHorizon
  BY <1>0, <1>4 DEF ThrottleInv, ThrottleTypeOK
<1>13. ThrottleTypeOK'
  <2>1. ASSUME NEW k \in Keys, NEW i \in DOMAIN misses'[k]
        PROVE  misses'[k][i] \in 0 .. now
    <3>1. PICK h, g : h = misses'[k] /\ g = missed'[k]
      OBVIOUS
    <3>2. Chronicle(g, now) /\ TailOf(h, g)
      BY <1>4, <1>9, <1>10, <3>1 DEF Watched
    <3>3. PICK n \in Nat, m \in Nat : n = Len(g) /\ m = Len(h)
      BY <3>2 DEF Chronicle, TailOf
    <3>4. m <= n /\ i \in 1 .. m
      <4>1. i \in DOMAIN h
        BY <3>1
      <4> QED BY <3>2, <3>3, <4>1 DEF TailOf
    <3>5. n - m + i \in 1 .. n /\ h[i] = g[n - m + i]
      BY <3>2, <3>3, <3>4 DEF TailOf
    <3>6. h[i] \in Int /\ 0 <= h[i] /\ h[i] <= now
      BY <3>2, <3>3, <3>5 DEF Chronicle
    <3> QED BY <1>0, <3>1, <3>6
  <2>2. ASSUME NEW k \in Keys
        PROVE  blockedUntil'[k] = None \/ blockedUntil'[k] \in 0 .. now + Cooldown
    <3>1. blockedUntil[k] = None \/ blockedUntil[k] \in 0 .. now + Cooldown
      BY DEF ThrottleInv, ThrottleTypeOK
    <3>2. \/ blockedUntil'[k] = blockedUntil[k] \/ blockedUntil'[k] = None
          \/ blockedUntil'[k] = now + Cooldown
      BY <1>6, <1>7
    <3> QED BY <1>a, <3>1, <3>2
  <2> QED BY <1>4, <1>8, <1>12, <2>1, <2>2 DEF ThrottleTypeOK
<1>14. IdleClientsForgotten'
  <2>1. ASSUME NEW k \in Keys
        PROVE  /\ misses'[k] # <<>> => misses'[k][Len(misses'[k])] > lastSweep' - Window
               /\ blockedUntil'[k] # None => blockedUntil'[k] >= lastSweep'
    <3>1. PICK t \in Int : t = lastSweep' /\ t <= now
      <4>1. lastSweep' \in Int /\ lastSweep' <= now
        BY <1>0, <1>4
      <4> QED BY <4>1
    <3>2. /\ SweptMisses[k] # <<>> => SweptMisses[k][Len(SweptMisses[k])] > t - Window
          /\ SweptBlocks[k] # None => SweptBlocks[k] >= t
      BY <1>4, <3>1, SweepForgets
    <3>3. CASE k # x
      BY <1>6, <3>1, <3>2, <3>3
    <3>4. CASE k = x
      <4>1. kk[Len(kk)] = now
        BY <1>3, <1>9, <1>a DEF TailOf
      <4>2. now > t - Window /\ now + Cooldown >= t
        <5>1. t <= now
          BY <3>1
        <5> QED BY <1>a, <5>1
      <4> QED BY <1>6, <3>1, <3>2, <3>4, <4>1, <4>2
    <3> QED BY <3>3, <3>4
  <2> QED BY <2>1 DEF IdleClientsForgotten
<1> QED BY <1>9, <1>10, <1>11, <1>13, <1>14 DEF ThrottleInv

\* What the throttle knows of each key stays enough.
THEOREM ThrottleInvHolds == ThrottleSpec => []ThrottleInv
<1>1. ThrottleInv /\ [ThrottleNext]_throttleVars => ThrottleInv'
  <2> SUFFICES ASSUME ThrottleInv, [ThrottleNext]_throttleVars
               PROVE  ThrottleInv'
    OBVIOUS
  <2>1. ASSUME NEW s \in Slots, Resolve(s)
        PROVE  ThrottleInv'
    BY <2>1, ResolveKeeps
  <2>2. ASSUME NEW s \in Slots, RecordMiss(s)
        PROVE  ThrottleInv'
    BY <2>2, MissKeeps
  <2>3. ASSUME NEW s \in Slots, NEW k \in Keys, Admit(s, k)
        PROVE  ThrottleInv'
    BY <2>3, AdmitKeeps
  <2>4. CASE ThrottleTick
    BY <2>4, ThrottleTickKeeps
  <2>5. ASSUME UNCHANGED throttleVars
        PROVE  ThrottleInv'
    BY <2>5 DEF throttleVars, ThrottleInv, ThrottleTypeOK, IdleClientsForgotten, Watched, Flying
  <2>6. ASSUME NEW k \in Keys, Refuse(k)
        PROVE  ThrottleInv'
    BY <2>5, <2>6 DEF Refuse
  <2> QED BY <2>1, <2>2, <2>3, <2>4, <2>5, <2>6 DEF ThrottleNext
<1> QED BY <1>1, ThrottleStart, PTL DEF ThrottleSpec

\* A block is never set further ahead than one cooldown.
THEOREM ThrottleTypeCorrect == ThrottleSpec => []ThrottleTypeOK
<1>1. ThrottleInv => ThrottleTypeOK
  BY DEF ThrottleInv
<1> QED BY <1>1, ThrottleInvHolds, PTL

\* For any limit and number of resolutions under way: no window holds more misses of a
\* client than the budget, however blocks begin and end between a resolution's admission
\* and its miss; and nobody is blocked who has not missed too often within a window.
THEOREM ThrottleIsFairHolds == ThrottleSpec => []ThrottleIsFair
<1>1. ThrottleInv => ThrottleIsFair
  <2> SUFFICES ASSUME ThrottleInv
               PROVE  ThrottleIsFair
    OBVIOUS
  <2>1. BudgetWithRaces
    BY DEF ThrottleInv, Watched, Spaced, BudgetWithRaces
  <2>2. ASSUME NEW k \in Keys, blockedUntil[k] # None
        PROVE  \E j \in MissLimit + 1 .. Len(missed[k]) :
                 BegunBy(j, missed[k], blockedUntil[k], Flying(k))
    BY <2>2 DEF ThrottleInv, Watched, Earned
  <2>3. BlocksAreEarned
    BY <2>2 DEF BlocksAreEarned, BegunBy
  <2> QED BY <2>1, <2>3 DEF ThrottleIsFair
<1> QED BY <1>1, ThrottleInvHolds, PTL

\* A client that stays away is forgotten, misses and block.
THEOREM IdleClientsForgottenHolds == ThrottleSpec => []IdleClientsForgotten
<1>1. ThrottleInv => IdleClientsForgotten
  BY DEF ThrottleInv
<1> QED BY <1>1, ThrottleInvHolds, PTL
=============================================================================
