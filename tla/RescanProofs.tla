------------------------------ MODULE RescanProofs ------------------------------
(***************************************************************************)
(* Proofs about Rescan and the list it scans with, for any links, runs at  *)
(* once, sizes of pages and of runs: types, and that the job disables a    *)
(* link only for a cause.                                                  *)
(***************************************************************************)
EXTENDS Rescan, FiniteSetTheorems, WellFoundedInduction, TLAPS

-----------------------------------------------------------------------------
(***************************************************************************)
(* Sets of numbers.                                                        *)
(***************************************************************************)
\* A set of numbers has a least one.
LEMMA LeastNumber ==
  ASSUME NEW S, S \subseteq Nat, S # {}
  PROVE  \E i \in S : \A j \in S : i <= j
<1> DEFINE upTo(n) == 1 .. n
           T == {upTo(n) : n \in S}
<1>1. T \subseteq FiniteSubsetsOf(Nat) /\ T # {}
  <2>1. ASSUME NEW n \in S
        PROVE  upTo(n) \in FiniteSubsetsOf(Nat)
    <3>1. IsFiniteSet(1 .. n)
      BY FS_Interval
    <3> QED BY <3>1 DEF FiniteSubsetsOf
  <2> QED BY <2>1
<1>2. PICK X \in T : \A Y \in T : ~(<<Y, X>> \in StrictSubsetOrdering(Nat))
  <2> HIDE DEF T
  <2> QED BY <1>1, FS_StrictSubsetOrderingWellFounded, WFMin
<1>3. PICK x \in S : X = upTo(x)
  OBVIOUS
<1>4. ASSUME NEW y \in S, y < x
      PROVE  FALSE
  <2>1. upTo(y) \in T /\ upTo(y) \in SUBSET Nat /\ upTo(x) \in SUBSET Nat
    BY <1>3
  <2>2. upTo(y) \subseteq upTo(x) /\ upTo(y) # upTo(x)
    BY <1>4
  <2> QED BY <1>2, <1>3, <2>1, <2>2 DEF StrictSubsetOrdering
<1> QED BY <1>4

\* A set of numbers below a bound has a greatest one.
LEMMA GreatestNumber ==
  ASSUME NEW n \in Nat, NEW S, S \subseteq 1 .. n, S # {}
  PROVE  \E i \in S : \A j \in S : j <= i
<1>1. PICK T : T = {n - i : i \in S}
  OBVIOUS
<1>2. T \subseteq Nat /\ T # {}
  <2>1. \A i \in 1 .. n : n - i \in Nat
    OBVIOUS
  <2> QED BY <1>1, <2>1
<1>3. PICK k \in T : \A m \in T : k <= m
  BY <1>2, LeastNumber
<1>4. PICK i \in S : k = n - i
  BY <1>1, <1>3
<1>5. ASSUME NEW j \in S
      PROVE  j <= i
  <2>1. n - j \in T
    BY <1>1
  <2>2. n - i <= n - j
    BY <1>3, <1>4, <2>1
  <2> QED BY <2>2
<1> QED BY <1>5

\* LIMIT n: fewer than n numbers come before each of the first n, so these are at most n.
LEMMA FirstAreFew ==
  ASSUME NEW max \in Nat, NEW due, due \subseteq 1 .. max, NEW n \in Nat,
         NEW first, first = {m \in due : Cardinality({k \in due : k < m}) < n}
  PROVE  IsFiniteSet(first) /\ Cardinality(first) \in Nat /\ Cardinality(first) <= n
<1>1. IsFiniteSet(due)
  <2>1. IsFiniteSet(1 .. max)
    BY FS_Interval
  <2> QED BY <2>1, FS_Subset
<1>2. first \subseteq due
  OBVIOUS
<1>3. IsFiniteSet(first)
  BY <1>1, <1>2, FS_Subset
<1>4. Cardinality(first) \in Nat
  BY <1>3, FS_CardinalityType
<1>5. CASE first = {}
  <2>1. Cardinality(first) = 0
    BY <1>5, FS_EmptySet
  <2> QED BY <1>3, <2>1
<1>6. CASE first # {}
  <2>1. PICK m \in first : \A j \in first : j <= m
    <3>1. first \subseteq 1 .. max
      BY <1>2
    <3> QED BY <1>6, <3>1, GreatestNumber
  <2>2. PICK before : before = {k \in due : k < m}
    OBVIOUS
  <2>3. first \ {m} \subseteq before
    <3> SUFFICES ASSUME NEW j \in first, j # m
                 PROVE  j \in before
      OBVIOUS
    <3>1. j \in 1 .. max /\ m \in 1 .. max /\ j <= m
      BY <1>2, <2>1
    <3>2. j < m
      BY <3>1
    <3> QED BY <1>2, <2>2, <3>2
  <2>4. IsFiniteSet(before) /\ before \subseteq due
    BY <1>1, <2>2, FS_Subset
  <2>5. Cardinality(first \ {m}) <= Cardinality(before)
    BY <2>3, <2>4, FS_Subset
  <2>6. Cardinality(first \ {m}) = Cardinality(first) - 1
    BY <1>3, <2>1, FS_RemoveElement
  <2>7. Cardinality(before) \in Nat /\ Cardinality(before) < n
    BY <2>1, <2>2, <2>4, FS_CardinalityType
  <2> QED BY <1>3, <1>4, <2>5, <2>6, <2>7
<1> QED BY <1>5, <1>6

-----------------------------------------------------------------------------
(***************************************************************************)
(* The invariant.                                                          *)
(***************************************************************************)
\* A run, and what is left of its page.
JobOK(j) ==
  /\ job[j] \in Job /\ job[j].scanned < MaxPerRun
  /\ IsFiniteSet(job[j].batch) /\ Cardinality(job[j].batch) <= BatchSize
  /\ job[j].at \in {"scanning", "flagged"} <=> job[j].batch # {}

\* What a run has read are links, which are never deleted.
BatchesOK == \A j \in Jobs : \A b \in job[j].batch : b.id \in Created

RescanInv == TypeOK /\ (\A j \in Jobs : JobOK(j)) /\ BatchesOK

\* A run scans what it has read during the run; what it is about to disable was
\* flagged during the run.
CauseOK(j) ==
  /\ \A b \in job[j].batch : <<b.id, b.dest>> \in past[j]
  /\ job[j].at = "flagged" => Current(j).dest \in flagged[j]

CauseInv == \A j \in Jobs : CauseOK(j)

\* The row that a run is at is one of its page's.
LEMMA CurrentInBatch ==
  ASSUME RescanInv, NEW j \in Jobs, job[j].batch # {}
  PROVE  Current(j) \in job[j].batch
<1>1. job[j].batch \subseteq [id : Links, dest : Destinations]
  BY DEF RescanInv, TypeOK, Job
<1>2. PICK ids : ids = {b.id : b \in job[j].batch}
  OBVIOUS
<1>3. ids \subseteq Nat /\ ids # {}
  BY <1>1, <1>2, RescanAssumption DEF Links
<1>4. PICK i \in ids : \A k \in ids : i <= k
  BY <1>3, LeastNumber
<1>5. PICK b \in job[j].batch : b.id = i
  BY <1>2, <1>4
<1>6. \A c \in job[j].batch : b.id <= c.id
  BY <1>2, <1>4, <1>5
<1> QED BY <1>5, <1>6 DEF Current

\* A page has at most n rows, of links that are there, as they are.
LEMMA PageOfRows ==
  ASSUME RescanInv, NEW after \in Nat, NEW batch, batch = Page(Due(after), BatchSize)
  PROVE  /\ batch \subseteq [id : Links, dest : Destinations]
         /\ IsFiniteSet(batch) /\ Cardinality(batch) <= BatchSize
         /\ \A b \in batch : b.id \in Created /\ b.dest = row[b.id].dest
<1>1. PICK due : due = Due(after)
  OBVIOUS
<1>2. PICK first : first = {m \in due : Cardinality({k \in due : k < m}) < BatchSize}
  OBVIOUS
<1>3. due \subseteq Created /\ Created \subseteq Links
  BY <1>1 DEF Due, Created
<1>4. /\ IsFiniteSet(first) /\ Cardinality(first) \in Nat /\ Cardinality(first) <= BatchSize
  <2>1. due \subseteq 1 .. MaxLinks /\ MaxLinks \in Nat /\ BatchSize \in Nat
    BY <1>3, RescanAssumption DEF Links
  <2> QED BY <1>2, <2>1, FirstAreFew
<1>5. first \subseteq due /\ batch = {[id |-> l, dest |-> row[l].dest] : l \in first}
  BY <1>1, <1>2 DEF Page
<1>6. ASSUME NEW b \in batch
      PROVE  /\ b \in [id : Links, dest : Destinations]
             /\ b.id \in Created /\ b.dest = row[b.id].dest
  <2>1. PICK l \in first : b = [id |-> l, dest |-> row[l].dest]
    BY <1>5
  <2>2. l \in Created /\ l \in Links
    BY <1>3, <1>5
  <2>3. row[l] \in Row
    BY <2>2 DEF Created, RescanInv, TypeOK
  <2> QED BY <2>1, <2>2, <2>3 DEF Row
<1>7. IsFiniteSet(batch) /\ Cardinality(batch) <= BatchSize
  <2>1. PICK f : f = [l \in first |-> [id |-> l, dest |-> row[l].dest]]
    OBVIOUS
  <2>2. f \in Surjection(first, batch)
    BY <1>5, <2>1 DEF Surjection
  <2>3. IsFiniteSet(batch) /\ Cardinality(batch) <= Cardinality(first)
    BY <1>4, <2>2, FS_Surjection
  <2>4. Cardinality(batch) \in Nat
    BY <2>3, FS_CardinalityType
  <2> QED BY <1>4, <2>3, <2>4, RescanAssumption
<1> QED BY <1>6, <1>7

-----------------------------------------------------------------------------
(***************************************************************************)
(* Types.                                                                  *)
(***************************************************************************)
\* No run is under way at first.
LEMMA RescanStart ==
  Init => RescanInv /\ CauseInv
<1> SUFFICES ASSUME Init
             PROVE  RescanInv /\ CauseInv
  OBVIOUS
<1>1. FeedTypeOK
  <2>1. NotRefreshing \in Refresh
    BY FeedListAssumption DEF NotRefreshing, Refresh
  <2> QED BY <2>1 DEF Init, FeedInit, FeedTypeOK
<1>2. /\ NoRun \in Job /\ NoRun.at = "idle" /\ NoRun.batch = {} /\ NoRun.scanned = 0
      /\ IsFiniteSet({}) /\ Cardinality({}) = 0 /\ 0 < MaxPerRun /\ 0 <= BatchSize
  BY RescanAssumption, FS_EmptySet DEF NoRun, Job
<1>3. \A j \in Jobs : job[j] = NoRun
  BY DEF Init
<1>4. \A j \in Jobs : JobOK(j) /\ CauseOK(j)
  BY <1>2, <1>3 DEF JobOK, CauseOK
<1>5. TypeOK
  BY <1>1, <1>2, <1>3, RescanAssumption DEF Init, TypeOK, Created
<1>6. BatchesOK
  BY <1>2, <1>3 DEF BatchesOK
<1> QED BY <1>4, <1>5, <1>6 DEF RescanInv, CauseInv

\* What the invariant says of the values that the steps read.
LEMMA RescanTypes ==
  ASSUME RescanInv
  PROVE  /\ FeedTypeOK /\ row \in [Links -> Row \cup {None}] /\ served \subseteq Created
         /\ job \in [Jobs -> Job] /\ (\A j \in Jobs : JobOK(j)) /\ faults \in 0 .. MaxFaults
         /\ None \notin Row /\ Created \subseteq Links /\ (\A l \in Created : row[l] \in Row)
         /\ MaxFaults \in Nat
BY RescanAssumption, RowAssumption DEF RescanInv, TypeOK, Created

\* The list is refreshed, feed after feed.
LEMMA FeedKept ==
  ASSUME FeedTypeOK, FeedNext \/ ForgetFeeds \/ UNCHANGED feedVars
  PROVE  FeedTypeOK'
<1>1. /\ NotRefreshing \in Refresh /\ NumFeeds \in Nat
      /\ upstream \in [Feeds -> SUBSET Entries] /\ feeds \in [Feeds -> SUBSET Entries]
      /\ refresh \in [Refreshers -> Refresh]
  BY FeedListAssumption DEF NotRefreshing, Refresh, FeedTypeOK
<1>2. ASSUME NEW r \in Refreshers, NextFeed(r)
      PROVE  refresh' \in [Refreshers -> Refresh]
  <2>1. PICK f : f = refresh[r].feed
    OBVIOUS
  <2>2. f \in 0 .. NumFeeds
    BY <1>1, <2>1 DEF Refresh
  <2>3. PICK t : t = f + 1
    OBVIOUS
  <2>4. f # NumFeeds => t \in 0 .. NumFeeds
    BY <1>1, <2>2, <2>3
  <2>5. PICK next : next = [NotRefreshing EXCEPT !.feed = t]
    OBVIOUS
  <2>6. f # NumFeeds => next \in Refresh
    BY <1>1, <2>4, <2>5 DEF Refresh
  <2>7. refresh' = [refresh EXCEPT ![r] = IF f = NumFeeds THEN NotRefreshing ELSE next]
    BY <1>2, <2>1, <2>3, <2>5 DEF NextFeed
  <2> QED BY <1>1, <2>6, <2>7
<1>3. ASSUME NEW f \in Feeds, Publish(f)
      PROVE  FeedTypeOK'
  BY <1>1, <1>3 DEF Publish, FeedTypeOK
<1>4. ASSUME NEW r \in Refreshers, RefreshStart(r) \/ FetchFails(r)
      PROVE  FeedTypeOK'
  BY <1>1, <1>2, <1>4 DEF RefreshStart, FetchFails, FeedTypeOK
<1>5. ASSUME NEW r \in Refreshers, FetchAnswers(r)
      PROVE  FeedTypeOK'
  <2>1. PICK f : f = refresh[r].feed
    OBVIOUS
  <2>2. f \in Feeds /\ refresh[r] \in Refresh
    BY <1>1, <1>5, <2>1 DEF FetchAnswers, Refresh, Feeds
  <2>3. PICK part \in SUBSET upstream[f] :
          refresh' = [refresh EXCEPT ![r].fetched = TRUE, ![r].answer = part]
    BY <1>5, <2>1 DEF FetchAnswers
  <2>4. part \in SUBSET Entries
    BY <1>1, <2>2, <2>3
  <2>5. PICK next : next = [refresh[r] EXCEPT !.fetched = TRUE, !.answer = part]
    OBVIOUS
  <2>6. next \in Refresh
    BY <2>2, <2>4, <2>5 DEF Refresh
  <2>7. refresh' = [refresh EXCEPT ![r] = next]
    BY <1>1, <2>3, <2>5
  <2> QED BY <1>1, <1>5, <2>6, <2>7 DEF FetchAnswers, FeedTypeOK
<1>6. ASSUME NEW r \in Refreshers, StoreFeed(r)
      PROVE  FeedTypeOK'
  <2>1. feeds' \in [Feeds -> SUBSET Entries]
    BY <1>1, <1>6 DEF StoreFeed, Refresh
  <2> QED BY <1>1, <1>2, <1>6, <2>1 DEF StoreFeed, FeedTypeOK
<1>7. CASE ForgetFeeds
  BY <1>1, <1>7 DEF ForgetFeeds, FeedTypeOK
<1>8. CASE UNCHANGED feedVars
  BY <1>8 DEF feedVars, FeedTypeOK
<1> QED BY <1>3, <1>4, <1>5, <1>6, <1>7, <1>8 DEF FeedNext

\* The histories stay in their domains; so the types hold if those of the rest do.
LEMMA TypesTogether ==
  ASSUME RescanInv, Watch, FeedTypeOK', row' \in [Links -> Row \cup {None}],
         served' \subseteq Created', job' \in [Jobs -> Job], \A j \in Jobs : JobOK(j)',
         BatchesOK', faults' \in 0 .. MaxFaults
  PROVE  RescanInv'
<1>1. past \in [Jobs -> SUBSET (Links \X Destinations)] /\ flagged \in [Jobs -> SUBSET Destinations]
  BY DEF RescanInv, TypeOK
<1>2. \A l \in Created' : l \in Links /\ row'[l].dest \in Destinations
  BY DEF Created, Row
<1>3. past' \in [Jobs -> SUBSET (Links \X Destinations)]
  <2> SUFFICES ASSUME NEW j \in Jobs
               PROVE  past[j] \cup {<<l, row'[l].dest>> : l \in Created'} \subseteq Links \X Destinations
    BY DEF Watch
  <2>1. past[j] \subseteq Links \X Destinations
    BY <1>1
  <2>2. \A l \in Created' : <<l, row'[l].dest>> \in Links \X Destinations
    BY <1>2
  <2> QED BY <2>1, <2>2
<1>4. flagged' \in [Jobs -> SUBSET Destinations]
  BY <1>1 DEF Watch
<1>5. TypeOK'
  BY <1>3, <1>4 DEF TypeOK, JobOK
<1> QED BY <1>5 DEF RescanInv

\* Steps on links and on the list leave the runs as they are.
LEMMA RowStep ==
  ASSUME RescanInv, Watch, FeedTypeOK', row' \in [Links -> Row \cup {None}],
         Created \subseteq Created', served' \subseteq Created', UNCHANGED jobVars
  PROVE  RescanInv'
<1>1. job' = job /\ faults' = faults
  BY DEF jobVars
<1>2. \A j \in Jobs : JobOK(j)'
  BY <1>1 DEF RescanInv, JobOK
<1>3. BatchesOK'
  BY <1>1 DEF RescanInv, BatchesOK
<1> QED BY <1>1, <1>2, <1>3, RescanTypes, TypesTogether

\* The row of one link that is there changes.
LEMMA OneRow ==
  ASSUME RescanInv, NEW l \in Created, NEW new \in Row, row' = [row EXCEPT ![l] = new]
  PROVE  /\ row' \in [Links -> Row \cup {None}] /\ Created' = Created
         /\ row'[l] = new /\ \A k \in Links \ {l} : row'[k] = row[k]
BY RescanTypes DEF Created

\* What a step on a link does to the rows: none goes.
LEMMA LinkStepKeeps ==
  ASSUME RescanInv, NEW l \in Links, LinkStep(l)
  PROVE  /\ row' \in [Links -> Row \cup {None}] /\ Created' = Created
         /\ served' \subseteq Created' /\ UNCHANGED <<feedVars, jobVars>>
<1>1. served \subseteq Created
  BY RescanTypes
<1>2. ASSUME NEW new \in Row, l \in Created, row' = [row EXCEPT ![l] = new], served' \subseteq served
      PROVE  /\ row' \in [Links -> Row \cup {None}] /\ Created' = Created
             /\ served' \subseteq Created'
  BY <1>1, <1>2, OneRow
<1>3. ASSUME NEW d \in Destinations, EditLink(l, d)
      PROVE  /\ row' \in [Links -> Row \cup {None}] /\ Created' = Created
             /\ served' \subseteq Created' /\ UNCHANGED <<feedVars, jobVars>>
  <2>1. PICK new : new = [row[l] EXCEPT !.dest = d]
    OBVIOUS
  <2>2. new \in Row /\ row' = [row EXCEPT ![l] = new]
    BY <1>3, <2>1, RescanTypes DEF EditLink, Row
  <2> QED BY <1>2, <1>3, <2>2 DEF EditLink
<1>4. CASE ServeVisit(l) \/ DropVisit(l)
  BY <1>1, <1>4, RescanTypes DEF ServeVisit, DropVisit, Created
<1>5. CASE RecordVisit(l)
  <2>1. PICK new : new = [row[l] EXCEPT !.clicked = TRUE]
    OBVIOUS
  <2>2. l \in Created /\ new \in Row /\ row' = [row EXCEPT ![l] = new]
    BY <1>1, <1>5, <2>1, RescanTypes DEF RecordVisit, Row
  <2> QED BY <1>2, <1>5, <2>2 DEF RecordVisit
<1>6. CASE LeaveWindow(l)
  <2>1. PICK new : new = [row[l] EXCEPT !.clicked = FALSE]
    OBVIOUS
  <2>2. new \in Row /\ row' = [row EXCEPT ![l] = new]
    BY <1>6, <2>1, RescanTypes DEF LeaveWindow, Row
  <2> QED BY <1>2, <1>6, <2>2 DEF LeaveWindow
<1>7. ASSUME NEW s \in {"ACTIVE", "DISABLED_ABUSE"}, AdminSetStatus(l, s)
      PROVE  /\ row' \in [Links -> Row \cup {None}] /\ Created' = Created
             /\ served' \subseteq Created' /\ UNCHANGED <<feedVars, jobVars>>
  <2>1. PICK new : new = [row[l] EXCEPT !.status = s]
    OBVIOUS
  <2>2. new \in Row /\ row' = [row EXCEPT ![l] = new]
    BY <1>7, <2>1, RescanTypes DEF AdminSetStatus, Row
  <2> QED BY <1>2, <1>7, <2>2 DEF AdminSetStatus
<1> QED BY <1>3, <1>4, <1>5, <1>6, <1>7 DEF LinkStep, DisableLink, EnableLink

\* A link is created.
LEMMA CreateKeeps ==
  ASSUME RescanInv, NEW d \in Destinations, CreateLink(d)
  PROVE  /\ row' \in [Links -> Row \cup {None}] /\ Created \subseteq Created'
         /\ served' \subseteq Created' /\ UNCHANGED <<feedVars, jobVars>>
<1>1. PICK l, new : /\ l = Cardinality(Created) + 1
                    /\ new = [dest |-> d, status |-> "ACTIVE", clicked |-> FALSE]
  OBVIOUS
<1>2. new \in Row
  BY <1>1 DEF Row
<1>3. row' = [row EXCEPT ![l] = new] /\ served' = served /\ UNCHANGED <<feedVars, jobVars>>
  BY <1>1 DEF CreateLink
<1>4. row' \in [Links -> Row \cup {None}] /\ \A k \in Links : row'[k] = row[k] \/ row'[k] = new
  BY <1>2, <1>3, RescanTypes
<1>5. Created \subseteq Created'
  BY <1>2, <1>4, RescanTypes DEF Created
<1> QED BY <1>3, <1>4, <1>5, RescanTypes

\* A run that ends, or has not begun, is in order.
LEMMA NoRunOK ==
  ASSUME RescanInv
  PROVE  /\ NoRun \in Job /\ NoRun.at = "idle" /\ NoRun.batch = {} /\ NoRun.scanned < MaxPerRun
         /\ IsFiniteSet({}) /\ Cardinality({}) <= BatchSize
<1>1. IsFiniteSet({}) /\ Cardinality({}) = 0
  BY FS_EmptySet
<1> QED BY <1>1, RescanAssumption DEF NoRun, Job

\* A step that puts run j in order leaves all runs in order.
LEMMA OneRun ==
  ASSUME RescanInv, NEW j \in Jobs, NEW new \in Job, job' = [job EXCEPT ![j] = new],
         new.scanned < MaxPerRun, IsFiniteSet(new.batch), Cardinality(new.batch) <= BatchSize,
         new.at \in {"scanning", "flagged"} <=> new.batch # {}
  PROVE  /\ job' \in [Jobs -> Job] /\ (\A k \in Jobs : JobOK(k)')
         /\ job'[j] = new /\ \A k \in Jobs \ {j} : job'[k] = job[k]
<1>1. job \in [Jobs -> Job] /\ \A k \in Jobs : JobOK(k)
  BY RescanTypes
<1>2. job' \in [Jobs -> Job] /\ job'[j] = new /\ \A k \in Jobs \ {j} : job'[k] = job[k]
  BY <1>1
<1>3. JobOK(j)'
  BY <1>2 DEF JobOK
<1>4. \A k \in Jobs \ {j} : JobOK(k)'
  BY <1>1, <1>2 DEF JobOK
<1> QED BY <1>2, <1>3, <1>4

\* A run goes on with the next row: it ends, or its page has lost the current row.
LEMMA NextRowKeeps ==
  ASSUME RescanInv, NEW j \in Jobs, job[j].at \in {"scanning", "flagged"}, NextRow(j)
  PROVE  /\ job' \in [Jobs -> Job] /\ \A k \in Jobs : JobOK(k)'
         /\ job'[j].batch \subseteq job[j].batch /\ job'[j].at # "flagged"
         /\ job'[j].at = "idle" => job'[j].batch = {}
         /\ \A k \in Jobs \ {j} : job'[k] = job[k]
<1>1. /\ job[j] \in Job /\ job[j].scanned < MaxPerRun
      /\ IsFiniteSet(job[j].batch) /\ Cardinality(job[j].batch) <= BatchSize
      /\ job[j].batch # {}
  BY RescanTypes DEF JobOK
<1>2. PICK cur, n, batch, rest : /\ cur = Current(j) /\ n = job[j].scanned
                                 /\ batch = job[j].batch /\ rest = batch \ {cur}
  OBVIOUS
<1>3. cur \in batch /\ batch \subseteq [id : Links, dest : Destinations] /\ n \in 0 .. MaxPerRun
      /\ n < MaxPerRun
  BY <1>1, <1>2, CurrentInBatch DEF Job
<1>4. PICK m : m = n + 1
  OBVIOUS
<1>5. PICK at : at = IF batch = {cur} THEN "listing" ELSE "scanning"
  OBVIOUS
<1>6. PICK new : new = [at |-> at, after |-> cur.id, scanned |-> m, batch |-> rest]
  OBVIOUS
<1>7. job' = [job EXCEPT ![j] = IF m = MaxPerRun THEN NoRun ELSE new]
  BY <1>2, <1>4, <1>5, <1>6, RescanTypes DEF NextRow
<1>8. CASE m = MaxPerRun
  <2>1. job' = [job EXCEPT ![j] = NoRun]
    BY <1>7, <1>8
  <2>2. /\ job' \in [Jobs -> Job] /\ (\A k \in Jobs : JobOK(k)')
        /\ job'[j] = NoRun /\ \A k \in Jobs \ {j} : job'[k] = job[k]
    BY <2>1, NoRunOK, OneRun
  <2> QED BY <2>2, NoRunOK
<1>9. CASE m # MaxPerRun
  <2>1. m \in 0 .. MaxPerRun /\ m < MaxPerRun
    BY <1>3, <1>4, <1>9, RescanAssumption
  <2>2. cur.id \in 0 .. MaxLinks
    <3>1. cur.id \in Links
      BY <1>3
    <3> QED BY <3>1, RescanAssumption DEF Links
  <2>3. at \in {"listing", "scanning"} /\ (at = "scanning" <=> rest # {})
    BY <1>2, <1>3, <1>5
  <2>4. new \in Job
    BY <1>2, <1>3, <1>6, <2>1, <2>2, <2>3 DEF Job
  <2>5. new.at = at /\ new.scanned = m /\ new.batch = rest
    BY <1>6
  <2>6. IsFiniteSet(rest) /\ Cardinality(rest) <= BatchSize
    <3>1. IsFiniteSet(batch) /\ Cardinality(batch) <= BatchSize /\ rest \in SUBSET batch
      BY <1>1, <1>2
    <3>2. IsFiniteSet(rest) /\ Cardinality(rest) <= Cardinality(batch)
      BY <3>1, FS_Subset
    <3>3. Cardinality(rest) \in Nat /\ Cardinality(batch) \in Nat
      BY <3>1, <3>2, FS_CardinalityType
    <3> QED BY <3>1, <3>2, <3>3, RescanAssumption
  <2>7. job' = [job EXCEPT ![j] = new]
    BY <1>7, <1>9
  <2>8. /\ job' \in [Jobs -> Job] /\ (\A k \in Jobs : JobOK(k)')
        /\ job'[j] = new /\ \A k \in Jobs \ {j} : job'[k] = job[k]
    BY <2>1, <2>3, <2>4, <2>5, <2>6, <2>7, OneRun
  <2> QED BY <1>2, <2>3, <2>5, <2>8
<1> QED BY <1>8, <1>9

\* What a step of a run does: it reads a page, flags a row, disables it, goes on or ends.
LEMMA JobStepKeeps ==
  ASSUME RescanInv, NEW j \in Jobs, JobStep(j)
  PROVE  /\ job' \in [Jobs -> Job] /\ (\A k \in Jobs : JobOK(k)')
         /\ row' \in [Links -> Row \cup {None}] /\ Created' = Created
         /\ UNCHANGED <<feedVars, served>> /\ faults' \in 0 .. MaxFaults
         /\ BatchesOK'
<1>0. /\ job \in [Jobs -> Job] /\ JobOK(j) /\ row \in [Links -> Row \cup {None}]
      /\ faults \in 0 .. MaxFaults /\ MaxFaults \in Nat
  BY RescanTypes
<1>1. ASSUME faults < MaxFaults, faults' = faults + 1
      PROVE  faults' \in 0 .. MaxFaults
  BY <1>0, <1>1
<1>2. ASSUME UNCHANGED row
      PROVE  row' \in [Links -> Row \cup {None}] /\ Created' = Created
  BY <1>0, <1>2 DEF Created
<1>3. ASSUME Created' = Created, job'[j].batch \subseteq job[j].batch,
             \A k \in Jobs \ {j} : job'[k] = job[k]
      PROVE  BatchesOK'
  BY <1>3 DEF RescanInv, BatchesOK
<1>4. CASE RunStart(j)
  <2>1. PICK new : new = [job[j] EXCEPT !.at = "listing"]
    OBVIOUS
  <2>2. /\ new \in Job /\ new.at = "listing" /\ new.batch = job[j].batch
        /\ new.scanned = job[j].scanned
    BY <1>0, <2>1 DEF JobOK, Job
  <2>3. job' = [job EXCEPT ![j] = new] /\ UNCHANGED <<feedVars, rowVars, faults>>
    BY <1>4, <2>1 DEF RunStart
  <2>4. job[j].batch = {}
    BY <1>0, <1>4 DEF RunStart, JobOK
  <2>5. /\ job' \in [Jobs -> Job] /\ (\A k \in Jobs : JobOK(k)')
    BY <1>0, <2>2, <2>3, <2>4, OneRun DEF JobOK
  <2>6. BatchesOK'
    BY <1>0, <1>2, <1>3, <2>2, <2>3 DEF rowVars
  <2> QED BY <1>0, <1>2, <2>3, <2>5, <2>6 DEF rowVars
<1>5. CASE ListBatch(j)
  <2>1. PICK batch : batch = Page(Due(job[j].after), BatchSize)
    OBVIOUS
  <2>2. job[j].after \in Nat
    BY <1>0, RescanAssumption DEF JobOK, Job
  <2>3. /\ batch \subseteq [id : Links, dest : Destinations]
        /\ IsFiniteSet(batch) /\ Cardinality(batch) <= BatchSize
        /\ \A b \in batch : b.id \in Created
    BY <2>1, <2>2, PageOfRows
  <2>4. PICK new : new = [job[j] EXCEPT !.at = "scanning", !.batch = batch]
    OBVIOUS
  <2>5. /\ new \in Job /\ new.at = "scanning" /\ new.batch = batch
        /\ new.scanned = job[j].scanned
    BY <1>0, <2>3, <2>4 DEF JobOK, Job
  <2>6. /\ job' = [job EXCEPT ![j] = IF batch = {} THEN NoRun ELSE new]
        /\ UNCHANGED <<feedVars, rowVars, faults>>
    BY <1>0, <1>5, <2>1, <2>4 DEF ListBatch
  <2>7. CASE batch = {}
    <3>1. job' = [job EXCEPT ![j] = NoRun]
      BY <2>6, <2>7
    <3>2. /\ job' \in [Jobs -> Job] /\ (\A k \in Jobs : JobOK(k)')
      BY <3>1, NoRunOK, OneRun
    <3>3. BatchesOK'
      BY <1>0, <1>2, <1>3, <2>6, <3>1, NoRunOK DEF rowVars
    <3> QED BY <1>0, <1>2, <2>6, <3>2, <3>3 DEF rowVars
  <2>8. CASE batch # {}
    <3>1. job' = [job EXCEPT ![j] = new]
      BY <2>6, <2>8
    <3>2. /\ job' \in [Jobs -> Job] /\ (\A k \in Jobs : JobOK(k)')
      BY <1>0, <2>3, <2>5, <2>8, <3>1, OneRun DEF JobOK
    <3>3. BatchesOK'
      BY <1>0, <1>2, <2>3, <2>5, <2>6, <3>1 DEF rowVars, RescanInv, BatchesOK
    <3> QED BY <1>0, <1>2, <2>6, <3>2, <3>3 DEF rowVars
  <2> QED BY <2>7, <2>8
<1>6. CASE ListFails(j)
  <2>1. job' = [job EXCEPT ![j] = NoRun] /\ UNCHANGED <<feedVars, rowVars>>
        /\ faults < MaxFaults /\ faults' = faults + 1
    BY <1>6 DEF ListFails
  <2>2. /\ job' \in [Jobs -> Job] /\ (\A k \in Jobs : JobOK(k)')
    BY <2>1, NoRunOK, OneRun
  <2>3. BatchesOK'
    BY <1>0, <1>2, <1>3, <2>1, NoRunOK DEF rowVars
  <2> QED BY <1>1, <1>2, <2>1, <2>2, <2>3 DEF rowVars
<1>7. CASE ScanAllows(j) \/ SetStatusFails(j)
  BY <1>0, <1>1, <1>2, <1>7, <1>3, NextRowKeeps DEF ScanAllows, SetStatusFails, rowVars
<1>8. CASE ScanFlags(j)
  <2>1. PICK new : new = [job[j] EXCEPT !.at = "flagged"]
    OBVIOUS
  <2>2. /\ new \in Job /\ new.at = "flagged" /\ new.batch = job[j].batch
        /\ new.scanned = job[j].scanned
    BY <1>0, <2>1 DEF JobOK, Job
  <2>3. job' = [job EXCEPT ![j] = new] /\ UNCHANGED <<feedVars, rowVars, faults>>
    BY <1>8, <2>1 DEF ScanFlags
  <2>4. job[j].batch # {}
    BY <1>0, <1>8 DEF ScanFlags, JobOK
  <2>5. /\ job' \in [Jobs -> Job] /\ (\A k \in Jobs : JobOK(k)')
    BY <1>0, <2>2, <2>3, <2>4, OneRun DEF JobOK
  <2>6. BatchesOK'
    BY <1>0, <1>2, <1>3, <2>2, <2>3 DEF rowVars
  <2> QED BY <1>0, <1>2, <2>3, <2>5, <2>6 DEF rowVars
<1>9. CASE SetStatus(j)
  <2>1. /\ job[j].at = "flagged" /\ NextRow(j) /\ UNCHANGED <<feedVars, served, faults>>
        /\ row' = [row EXCEPT ![Current(j).id].status = "DISABLED_ABUSE"]
    BY <1>9 DEF SetStatus
  <2>2. PICK l : l = Current(j).id
    OBVIOUS
  <2>3. PICK new : new = [row[l] EXCEPT !.status = "DISABLED_ABUSE"]
    OBVIOUS
  <2>4. row' = [row EXCEPT ![l] = new]
    BY <2>1, <2>2, <2>3
  <2>5. row' \in [Links -> Row \cup {None}] /\ Created' = Created
    <3>1. l \in Created
      BY <1>0, <2>1, <2>2, CurrentInBatch DEF JobOK, RescanInv, BatchesOK
    <3>2. new \in Row
      BY <2>3, <3>1, RescanTypes DEF Row
    <3> QED BY <2>4, <3>1, <3>2, OneRow
  <2>6. BatchesOK'
    BY <1>3, <2>1, <2>5, NextRowKeeps
  <2> QED BY <1>0, <2>1, <2>5, <2>6, NextRowKeeps
<1> QED BY <1>4, <1>5, <1>6, <1>7, <1>8, <1>9 DEF JobStep

\* No step breaks the types.
LEMMA RescanKept ==
  RescanInv /\ [Next]_vars => RescanInv'
<1> SUFFICES ASSUME RescanInv, [Next]_vars
             PROVE  RescanInv'
  OBVIOUS
<1>1. /\ FeedTypeOK /\ row \in [Links -> Row \cup {None}] /\ served \subseteq Created
      /\ faults \in 0 .. MaxFaults
  BY RescanTypes
<1>2. CASE Watch /\ FeedNext /\ UNCHANGED <<rowVars, jobVars>>
  BY <1>1, <1>2, FeedKept, RowStep DEF rowVars, Created
<1>3. ASSUME Watch, NEW d \in Destinations, CreateLink(d)
      PROVE  RescanInv'
  BY <1>1, <1>3, CreateKeeps, FeedKept, RowStep
<1>4. ASSUME Watch, NEW l \in Links, LinkStep(l)
      PROVE  RescanInv'
  BY <1>1, <1>4, LinkStepKeeps, FeedKept, RowStep
<1>5. ASSUME Watch, NEW j \in Jobs, JobStep(j)
      PROVE  RescanInv'
  BY <1>1, <1>5, JobStepKeeps, FeedKept, TypesTogether
<1>6. CASE Watch /\ Restart
  <2>1. job' \in [Jobs -> Job] /\ \A j \in Jobs : JobOK(j)'
    BY <1>6, NoRunOK DEF Restart, JobOK
  <2>2. Created' = Created /\ BatchesOK'
    BY <1>6, NoRunOK DEF Restart, Created, BatchesOK
  <2> QED BY <1>1, <1>6, <2>1, <2>2, FeedKept, TypesTogether DEF Restart
<1>7. CASE UNCHANGED vars
  <2>1. FeedTypeOK'
    BY <1>1, <1>7, FeedKept DEF vars
  <2>2. UNCHANGED <<row, served, job, faults, past, flagged>>
    BY <1>7 DEF vars, rowVars, jobVars
  <2>3. TypeOK'
    BY <2>1, <2>2 DEF RescanInv, TypeOK, Created
  <2>4. BatchesOK'
    BY <2>2 DEF RescanInv, BatchesOK, Created
  <2> QED BY <2>2, <2>3, <2>4 DEF RescanInv, JobOK
<1> QED BY <1>2, <1>3, <1>4, <1>5, <1>6, <1>7 DEF Next, Step

\* Every variable stays in its domain, for any links, feeds, runs at once and sizes of
\* pages: a run scans fewer than rescanMaxLinks rows before it ends, and a page has at
\* most rescanBatchSize.
THEOREM RescanTypeCorrect == Spec => []TypeOK
<1>1. Init => RescanInv
  BY RescanStart
<1>2. RescanInv => TypeOK
  BY DEF RescanInv
<1> QED BY <1>1, <1>2, RescanKept, PTL DEF Spec

-----------------------------------------------------------------------------
(***************************************************************************)
(* The job's causes.                                                       *)
(***************************************************************************)
\* The cause of a run stays, as long as its page only loses rows.
LEMMA CauseStays ==
  ASSUME RescanInv, RescanInv', CauseInv, Watch, NEW j \in Jobs,
         job'[j].batch \subseteq job[j].batch,
         job'[j].at = "flagged" => job[j].at = "flagged" /\ job'[j] = job[j]
  PROVE  CauseOK(j)'
<1>1. CASE job'[j].at = "idle"
  <2>1. job'[j].batch = {}
    BY <1>1 DEF RescanInv, JobOK
  <2> QED BY <1>1, <2>1 DEF CauseOK
<1>2. CASE job'[j].at # "idle"
  <2>1. past[j] \subseteq past'[j] /\ flagged[j] \subseteq flagged'[j]
    BY <1>2 DEF Watch
  <2>2. \A b \in job'[j].batch : <<b.id, b.dest>> \in past'[j]
    BY <2>1 DEF CauseInv, CauseOK
  <2>3. ASSUME job'[j].at = "flagged"
        PROVE  Current(j)' \in {Current(j)} /\ Current(j).dest \in flagged'[j]
    BY <2>1, <2>3 DEF CauseInv, CauseOK, Current
  <2> QED BY <2>2, <2>3 DEF CauseOK
<1> QED BY <1>1, <1>2

\* A step of a run: the page it reads is of the destinations that links have now, and
\* what it flags a scan can flag now.
LEMMA JobStepCause ==
  ASSUME RescanInv, RescanInv', CauseInv, Watch, NEW j \in Jobs, JobStep(j)
  PROVE  CauseInv'
<1>1. job \in [Jobs -> Job] /\ JobOK(j)
  BY RescanTypes
<1>2. ASSUME \A k \in Jobs \ {j} : job'[k] = job[k], CauseOK(j)'
      PROVE  CauseInv'
  BY <1>2, CauseStays DEF CauseInv
<1>3. CASE RunStart(j)
  <2>1. job'[j].batch = job[j].batch /\ job'[j].at = "listing"
        /\ \A k \in Jobs \ {j} : job'[k] = job[k]
    BY <1>1, <1>3 DEF RunStart, JobOK, Job
  <2> QED BY <1>2, <2>1, CauseStays
<1>4. CASE ListBatch(j)
  <2>1. PICK batch : batch = Page(Due(job[j].after), BatchSize)
    OBVIOUS
  <2>2. job[j].after \in Nat
    BY <1>1, RescanAssumption DEF JobOK, Job
  <2>3. \A b \in batch : b \in [id : Links, dest : Destinations] /\ b.id \in Created
                         /\ b.dest = row[b.id].dest
    BY <2>1, <2>2, PageOfRows
  <2>4. PICK new : new = [job[j] EXCEPT !.at = "scanning", !.batch = batch]
    OBVIOUS
  <2>5. new.at = "scanning" /\ new.batch = batch
    BY <1>1, <2>4 DEF JobOK, Job
  <2>6. /\ job' = [job EXCEPT ![j] = IF batch = {} THEN NoRun ELSE new]
        /\ UNCHANGED row
    BY <1>1, <1>4, <2>1, <2>4 DEF ListBatch, rowVars
  <2>7. CASE batch = {}
    <3>1. job'[j] = NoRun /\ \A k \in Jobs \ {j} : job'[k] = job[k]
      BY <1>1, <2>6, <2>7
    <3> QED BY <1>2, <3>1, NoRunOK, CauseStays
  <2>8. CASE batch # {}
    <3>1. job'[j] = new /\ \A k \in Jobs \ {j} : job'[k] = job[k]
      BY <1>1, <2>6, <2>8
    <3>2. past'[j] = past[j] \cup {<<l, row'[l].dest>> : l \in Created'}
      BY <2>5, <3>1 DEF Watch
    <3>3. Created' = Created
      BY <2>6 DEF Created
    <3>4. ASSUME NEW b \in batch
          PROVE  <<b.id, b.dest>> \in past'[j]
      BY <2>3, <2>6, <3>2, <3>3
    <3>5. CauseOK(j)'
      BY <2>5, <3>1, <3>4 DEF CauseOK
    <3> QED BY <1>2, <3>1, <3>5
  <2> QED BY <2>7, <2>8
<1>5. CASE ListFails(j)
  <2>1. job'[j] = NoRun /\ \A k \in Jobs \ {j} : job'[k] = job[k]
    BY <1>1, <1>5 DEF ListFails
  <2> QED BY <1>2, <2>1, NoRunOK, CauseStays
<1>6. CASE ScanFlags(j)
  <2>1. /\ job'[j].batch = job[j].batch /\ job'[j].at = "flagged"
        /\ \A k \in Jobs \ {j} : job'[k] = job[k]
    BY <1>1, <1>6 DEF ScanFlags, JobOK, Job
  <2>2. Current(j)' = Current(j)
    BY <2>1 DEF Current
  <2>3. PICK d : d = Current(j).dest
    OBVIOUS
  <2>4. d \in Destinations /\ MayFlag(d)'
    <3>1. Current(j) \in job[j].batch
      BY <1>1, <1>6, CurrentInBatch DEF ScanFlags, JobOK
    <3>2. d \in Destinations
      BY <1>1, <2>3, <3>1 DEF JobOK, Job
    <3>3. MayFlag(d) /\ feeds' = feeds
      BY <1>6, <2>3 DEF ScanFlags, feedVars
    <3> QED BY <3>2, <3>3 DEF MayFlag, Listed
  <2>5. past'[j] = past[j] \cup {<<l, row'[l].dest>> : l \in Created'}
        /\ flagged'[j] = flagged[j] \cup {e \in Destinations : MayFlag(e)'}
    BY <2>1 DEF Watch
  <2>6. CauseOK(j)'
    BY <2>1, <2>2, <2>3, <2>4, <2>5 DEF CauseInv, CauseOK
  <2> QED BY <1>2, <2>1, <2>6
<1>7. CASE ScanAllows(j) \/ SetStatus(j) \/ SetStatusFails(j)
  <2>1. /\ job'[j].batch \subseteq job[j].batch /\ job'[j].at # "flagged"
        /\ \A k \in Jobs \ {j} : job'[k] = job[k]
    BY <1>7, NextRowKeeps DEF ScanAllows, SetStatus, SetStatusFails
  <2> QED BY <1>2, <2>1, CauseStays
<1> QED BY <1>3, <1>4, <1>5, <1>6, <1>7 DEF JobStep

\* No step breaks it.
LEMMA CauseKept ==
  RescanInv /\ RescanInv' /\ CauseInv /\ [Next]_vars => CauseInv'
<1> SUFFICES ASSUME RescanInv, RescanInv', CauseInv, [Next]_vars
             PROVE  CauseInv'
  OBVIOUS
<1>1. ASSUME Watch, job' = job
      PROVE  CauseInv'
  BY <1>1, CauseStays DEF CauseInv
<1>2. CASE Watch /\ Restart
  <2>1. \A j \in Jobs : job'[j] = NoRun
    BY <1>2 DEF Restart
  <2> QED BY <1>2, <2>1, NoRunOK, CauseStays DEF CauseInv
<1>3. ASSUME Watch, NEW j \in Jobs, JobStep(j)
      PROVE  CauseInv'
  BY <1>3, JobStepCause
<1>4. ASSUME Watch, NEW d \in Destinations, CreateLink(d)
      PROVE  CauseInv'
  BY <1>1, <1>4, CreateKeeps DEF jobVars
<1>5. ASSUME Watch, NEW l \in Links, LinkStep(l)
      PROVE  CauseInv'
  BY <1>1, <1>5, LinkStepKeeps DEF jobVars
<1>6. CASE UNCHANGED vars
  BY <1>6 DEF vars, rowVars, jobVars, CauseInv, CauseOK, Current
<1> QED BY <1>1, <1>2, <1>3, <1>4, <1>5, <1>6 DEF Next, Step, jobVars

\* The step of a run that disables a link is that of its update; the link is the one
\* it has flagged.
LEMMA DisablingStep ==
  ASSUME RescanInv, CauseInv, [Next]_vars, NEW j \in Jobs, NEW l \in Links,
         job[j].at = "flagged", job'[j] # job[j], l \in Created, row[l].status = "ACTIVE",
         row'[l].status # "ACTIVE"
  PROVE  \E d \in flagged[j] : <<l, d>> \in past[j]
<1>1. job \in [Jobs -> Job] /\ row \in [Links -> Row \cup {None}]
  BY RescanTypes
<1>2. SetStatus(j)
  <2>1. ~UNCHANGED vars /\ ~UNCHANGED jobVars /\ row' # row
    BY DEF vars, rowVars, jobVars
  <2>2. \A d \in Destinations : ~CreateLink(d)
    BY <2>1 DEF CreateLink
  <2>3. \A k \in Links : ~LinkStep(k)
    BY <2>1, LinkStepKeeps
  <2>4. ~Restart
    BY <2>1 DEF Restart
  <2>5. PICK k \in Jobs : JobStep(k)
    BY <2>1, <2>2, <2>3, <2>4 DEF Next, Step
  <2>6. SetStatus(k)
    BY <2>1, <2>5 DEF JobStep, RunStart, ListBatch, ListFails, ScanAllows, ScanFlags,
                      SetStatusFails, rowVars
  <2>7. k = j
    BY <2>6, NextRowKeeps DEF SetStatus
  <2> QED BY <2>6, <2>7
<1>3. Current(j) \in job[j].batch
  BY <1>1, CurrentInBatch, RescanTypes DEF JobOK
<1>4. PICK k : k = Current(j).id
  OBVIOUS
<1>5. row' = [row EXCEPT ![k].status = "DISABLED_ABUSE"]
  BY <1>2, <1>4 DEF SetStatus
<1>6. l = k
  BY <1>1, <1>5
<1> QED BY <1>3, <1>4, <1>6 DEF CauseInv, CauseOK

\* The job disables a link only for a cause, for any runs at once and however edits,
\* refreshes of the list and the operator fall between its steps.
THEOREM DisabledForCauseHolds == Spec => DisabledForCause
<1>1. RescanInv /\ CauseInv /\ [Next]_vars =>
        [\A j \in Jobs, l \in Links :
           /\ job[j].at = "flagged"
           /\ job'[j] # job[j]
           /\ l \in Created
           /\ row[l].status = "ACTIVE"
           /\ row'[l].status # "ACTIVE"
           => \E d \in flagged[j] : <<l, d>> \in past[j]]_vars
  BY DisablingStep
<1> QED BY <1>1, RescanStart, RescanKept, CauseKept, PTL DEF Spec, DisabledForCause
=============================================================================
