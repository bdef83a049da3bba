-------------------------------- MODULE Rescan --------------------------------
(***************************************************************************)
(* The life of a link's destination: written by creation and by edits,     *)
(* visited, scanned again by the periodic job, disabled by the job or by   *)
(* the operator, enabled by the operator.  A link is its row in the links  *)
(* table, and an action is one statement on it; what LinkService does      *)
(* between its statements is in module Links.                              *)
(***************************************************************************)
EXTENDS FeedList, FiniteSets

CONSTANTS
  MaxLinks,   \* the number of links ever created
  Jobs,       \* runs of the job under way at once (ticks that overlap)
  BatchSize,  \* rescanBatchSize
  MaxPerRun,  \* rescanMaxLinks
  MaxFaults,  \* bound: statements of the job that fail
  None        \* no row

ASSUME RescanAssumption ==
  /\ MaxLinks \in Nat
  /\ BatchSize \in Nat \ {0}
  /\ MaxPerRun \in Nat \ {0}
  /\ MaxFaults \in Nat

VARIABLES
  row,     \* row[l]: destination_url, status, and whether last_visit_at is in the job's window
  served,  \* links that a visitor is being redirected by: read as ACTIVE, visit not recorded yet
  job,     \* job[j]: where run j stands
  faults,  \* how many statements of the job have failed
  past,    \* history: <<l, d>> when link l had destination d during run j
  flagged  \* history: destinations that some scan could flag during run j

rowVars == <<row, served>>
jobVars == <<job, faults>>
vars == <<feedVars, rowVars, jobVars, past, flagged>>

Links == 1 .. MaxLinks

Row == [dest : Destinations, status : {"ACTIVE", "DISABLED_ABUSE"}, clicked : BOOLEAN]

ASSUME RowAssumption == None \notin Row  \* a row is not NULL

Created == {l \in Links : row[l] # None}

-----------------------------------------------------------------------------
(***************************************************************************)
(* Creation, edits, visits.                                                *)
(***************************************************************************)
\* The verdict on the URL as submitted was to allow it, when it was asked.
CreateLink(d) ==
  /\ Created # Links
  /\ row' = [row EXCEPT ![Cardinality(Created) + 1] =
       [dest |-> d, status |-> "ACTIVE", clicked |-> FALSE]]
  /\ UNCHANGED <<feedVars, served, jobVars>>

\* An edit changes neither status nor counters.
EditLink(l, d) ==
  /\ l \in Created
  /\ d # row[l].dest
  /\ row' = [row EXCEPT ![l].dest = d]
  /\ UNCHANGED <<feedVars, served, jobVars>>

\* A visitor's request reads the row: a disabled link answers 410 and counts nothing.
ServeVisit(l) ==
  /\ l \in Created \ served
  /\ row[l].status = "ACTIVE"
  /\ served' = served \cup {l}
  /\ UNCHANGED <<feedVars, row, jobVars>>

\* RecordVisit looks at the id only; it may fail, and the redirect is answered anyway.
RecordVisit(l) ==
  /\ l \in served
  /\ row' = [row EXCEPT ![l].clicked = TRUE]
  /\ served' = served \ {l}
  /\ UNCHANGED <<feedVars, jobVars>>

DropVisit(l) ==
  /\ l \in served
  /\ served' = served \ {l}
  /\ UNCHANGED <<feedVars, row, jobVars>>

\* Seven days without a visit.  The window of a run is fixed when the run starts.
LeaveWindow(l) ==
  /\ l \in Created
  /\ row[l].clicked
  /\ \A j \in Jobs : job[j].at = "idle"
  /\ row' = [row EXCEPT ![l].clicked = FALSE]
  /\ UNCHANGED <<feedVars, served, jobVars>>

-----------------------------------------------------------------------------
(***************************************************************************)
(* The operator.  Links are never deleted, so the read before the update   *)
(* only tells that the link exists.                                        *)
(***************************************************************************)
AdminSetStatus(l, s) ==
  /\ l \in Created
  /\ row' = [row EXCEPT ![l].status = s]
  /\ UNCHANGED <<feedVars, served, jobVars>>

DisableLink(l) == AdminSetStatus(l, "DISABLED_ABUSE")
EnableLink(l) == AdminSetStatus(l, "ACTIVE")

-----------------------------------------------------------------------------
(***************************************************************************)
(* The job: pages of rows by id, each row scanned with the destination it  *)
(* had when the page was read.  What is left of a page is a set: Current   *)
(* takes the rows in the order of their ids.                               *)
(***************************************************************************)
Job == [at : {"idle", "listing", "scanning", "flagged"}, after : 0 .. MaxLinks,
        scanned : 0 .. MaxPerRun, batch : SUBSET [id : Links, dest : Destinations]]

NoRun == [at |-> "idle", after |-> 0, scanned |-> 0, batch |-> {}]

RunStart(j) ==
  /\ job[j].at = "idle"
  /\ job' = [job EXCEPT ![j].at = "listing"]
  /\ UNCHANGED <<feedVars, rowVars, faults>>

\* status = 'ACTIVE' AND last_visit_at >= since AND id > after
Due(after) ==
  {l \in Created : row[l].status = "ACTIVE" /\ row[l].clicked /\ l > after}

\* Mutant: ORDER BY id without LIMIT.
WholePage(due, n) == {[id |-> l, dest |-> row[l].dest] : l \in due}

\* ORDER BY id LIMIT n
Page(due, n) ==
  {[id |-> l, dest |-> row[l].dest] : l \in {m \in due : Cardinality({k \in due : k < m}) < n}}

ListBatch(j) ==
  /\ job[j].at = "listing"
  /\ LET batch == Page(Due(job[j].after), BatchSize) IN
       job' = [job EXCEPT ![j] =
         IF batch = {} THEN NoRun ELSE [@ EXCEPT !.at = "scanning", !.batch = batch]]
  /\ UNCHANGED <<feedVars, rowVars, faults>>

ListFails(j) ==
  /\ job[j].at = "listing"
  /\ faults < MaxFaults
  /\ faults' = faults + 1
  /\ job' = [job EXCEPT ![j] = NoRun]
  /\ UNCHANGED <<feedVars, rowVars>>

Current(j) == CHOOSE b \in job[j].batch : \A c \in job[j].batch : b.id <= c.id

\* Mutant: the cursor stays where it was.
NextRowSameCursor(j) ==
  job' = [job EXCEPT ![j] =
    IF @.scanned + 1 = MaxPerRun THEN NoRun
    ELSE [at |-> IF @.batch = {Current(j)} THEN "listing" ELSE "scanning",
          after |-> @.after, scanned |-> @.scanned + 1, batch |-> @.batch \ {Current(j)}]]

\* The loop goes on with the next row of the page, or with the next page.
NextRow(j) ==
  job' = [job EXCEPT ![j] =
    IF @.scanned + 1 = MaxPerRun THEN NoRun
    ELSE [at |-> IF @.batch = {Current(j)} THEN "listing" ELSE "scanning",
          after |-> Current(j).id, scanned |-> @.scanned + 1, batch |-> @.batch \ {Current(j)}]]

ScanAllows(j) ==
  /\ job[j].at = "scanning"
  /\ MayAllow(Current(j).dest)
  /\ NextRow(j)
  /\ UNCHANGED <<feedVars, rowVars, faults>>

\* Mutant: the verdict is not looked at.
ScanFlagsAll(j) ==
  /\ job[j].at = "scanning"
  /\ job' = [job EXCEPT ![j].at = "flagged"]
  /\ UNCHANGED <<feedVars, rowVars, faults>>

ScanFlags(j) ==
  /\ job[j].at = "scanning"
  /\ MayFlag(Current(j).dest)
  /\ job' = [job EXCEPT ![j].at = "flagged"]
  /\ UNCHANGED <<feedVars, rowVars, faults>>

\* The update names the id only.
SetStatus(j) ==
  /\ job[j].at = "flagged"
  /\ row' = [row EXCEPT ![Current(j).id].status = "DISABLED_ABUSE"]
  /\ NextRow(j)
  /\ UNCHANGED <<feedVars, served, faults>>

SetStatusFails(j) ==
  /\ job[j].at = "flagged"
  /\ faults < MaxFaults
  /\ faults' = faults + 1
  /\ NextRow(j)
  /\ UNCHANGED <<feedVars, rowVars>>

\* The process stops, with its jobs, its visitors' requests and its list.
Restart ==
  /\ ForgetFeeds
  /\ job' = [j \in Jobs |-> NoRun]
  /\ served' = {}
  /\ UNCHANGED <<row, faults>>

-----------------------------------------------------------------------------
JobStep(j) ==
  \/ RunStart(j) \/ ListBatch(j) \/ ListFails(j)
  \/ ScanAllows(j) \/ ScanFlags(j) \/ SetStatus(j) \/ SetStatusFails(j)

LinkStep(l) ==
  \/ \E d \in Destinations : EditLink(l, d)
  \/ ServeVisit(l) \/ RecordVisit(l) \/ DropVisit(l) \/ LeaveWindow(l)
  \/ DisableLink(l) \/ EnableLink(l)

Step ==
  \/ FeedNext /\ UNCHANGED <<rowVars, jobVars>>
  \/ \E d \in Destinations : CreateLink(d)
  \/ \E l \in Links : LinkStep(l)
  \/ \E j \in Jobs : JobStep(j)
  \/ Restart

\* The histories of a run begin with its first step and end with its last.
Watch ==
  /\ past' = [j \in Jobs |-> IF job'[j].at = "idle" THEN {}
                             ELSE past[j] \cup {<<l, row'[l].dest>> : l \in Created'}]
  /\ flagged' = [j \in Jobs |-> IF job'[j].at = "idle" THEN {}
                                ELSE flagged[j] \cup {d \in Destinations : MayFlag(d)'}]

Init ==
  /\ FeedInit
  /\ row = [l \in Links |-> None]
  /\ served = {}
  /\ job = [j \in Jobs |-> NoRun]
  /\ faults = 0
  /\ past = [j \in Jobs |-> {}]
  /\ flagged = [j \in Jobs |-> {}]

Next == Step /\ Watch

Spec == Init /\ [][Next]_vars

\* Cron starts a run at every interval, and a run that has started goes on: its scans
\* have timeouts, its statements return or fail.
FairSpec == Spec /\ \A j \in Jobs : WF_vars(JobStep(j) /\ Watch)

-----------------------------------------------------------------------------
(***************************************************************************)
(* Properties                                                              *)
(***************************************************************************)

\* Every variable stays in its domain; a run scans at most rescanMaxLinks rows and a
\* page has at most rescanBatchSize.
TypeOK ==
  /\ FeedTypeOK
  /\ row \in [Links -> Row \cup {None}]
  /\ served \subseteq Created
  /\ job \in [Jobs -> Job]
  /\ \A j \in Jobs :
       /\ Cardinality(job[j].batch) <= BatchSize
       /\ job[j].at \in {"scanning", "flagged"} <=> job[j].batch # {}
  /\ faults \in 0 .. MaxFaults
  /\ past \in [Jobs -> SUBSET (Links \X Destinations)]
  /\ flagged \in [Jobs -> SUBSET Destinations]

\* The job never disables a link without a cause: while this run was under way the
\* link had a destination that a scan could flag, however edits, refreshes of the
\* list and the operator fell between the page's read, the scan and the update.
DisabledForCause ==
  [][\A j \in Jobs, l \in Links :
       /\ job[j].at = "flagged"
       /\ job'[j] # job[j]
       /\ l \in Created
       /\ row[l].status = "ACTIVE"
       /\ row'[l].status # "ACTIVE"
       => \E d \in flagged[j] : <<l, d>> \in past[j]]_vars

\* A link that visitors use and whose destination the list holds.
Exposed(l) ==
  l \in Created /\ row[l].status = "ACTIVE" /\ row[l].clicked /\ Listed(row[l].dest)

\* What the job is for: no link stays exposed for ever, whatever statements of the
\* job have failed, and however many links come before it.
ExposureEnds == \A l \in Links : Exposed(l) ~> ~Exposed(l)

=============================================================================
