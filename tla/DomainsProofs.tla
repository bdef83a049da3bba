---------------------------- MODULE DomainsProofs ----------------------------
(***************************************************************************)
(* Proofs about Domains, for any number of domains, hostnames, orgs and    *)
(* concurrent requests.                                                    *)
(***************************************************************************)
EXTENDS Domains, TLAPS

-----------------------------------------------------------------------------
(***************************************************************************)
(* What a step does to the slots                                           *)
(***************************************************************************)
OnlyChanges(r) == \A q \in Handlers \ {r} : work'[q] = work[q]

\* A request starts, goes on, ends or serves a link in its own slot, and every
\* slot keeps a task.
LEMMA SlotSteps ==
  ASSUME DomainsTypeOK, NEW r \in Handlers
  PROVE  /\ \A at \in Stages, d \in DomainIds \cup {Nobody}, h \in Hosts \cup {Nobody},
               o \in Owners \cup {Nobody} :
              Start(r, at, d, h, o) =>
                /\ OnlyChanges(r) /\ work' \in [Handlers -> Task] /\ overtaken' = overtaken
                /\ work'[r] = [at |-> at, domain |-> d, host |-> h, org |-> o]
         /\ \A at \in Stages : Continue(r, at) =>
              /\ OnlyChanges(r) /\ work' \in [Handlers -> Task] /\ overtaken' = overtaken
              /\ work'[r].at = at /\ work'[r].domain = work[r].domain
              /\ work'[r].host = work[r].host /\ work'[r].org = work[r].org
         /\ End(r) =>
              /\ OnlyChanges(r) /\ work' \in [Handlers -> Task] /\ overtaken' = overtaken \ {r}
              /\ work'[r] = NoTask
         /\ \A o \in Owners : Serve(r, o) =>
              /\ OnlyChanges(r) /\ work' \in [Handlers -> Task] /\ overtaken' = overtaken
              /\ work'[r].at = "served" /\ work'[r].host = work[r].host /\ work'[r].org = o
<1>0. work \in [Handlers -> Task] /\ work[r] \in Task
  BY DEF DomainsTypeOK
<1>1. ASSUME NEW at \in Stages, NEW d \in DomainIds \cup {Nobody},
             NEW h \in Hosts \cup {Nobody}, NEW o \in Owners \cup {Nobody},
             Start(r, at, d, h, o)
      PROVE  /\ OnlyChanges(r) /\ work' \in [Handlers -> Task] /\ overtaken' = overtaken
             /\ work'[r] = [at |-> at, domain |-> d, host |-> h, org |-> o]
  <2>1. [at |-> at, domain |-> d, host |-> h, org |-> o] \in Task
    BY DEF Task
  <2> QED BY <1>0, <1>1, <2>1 DEF Start, OnlyChanges
<1>2. ASSUME NEW at \in Stages, Continue(r, at)
      PROVE  /\ OnlyChanges(r) /\ work' \in [Handlers -> Task] /\ overtaken' = overtaken
             /\ work'[r].at = at /\ work'[r].domain = work[r].domain
             /\ work'[r].host = work[r].host /\ work'[r].org = work[r].org
  BY <1>0, <1>2 DEF Continue, OnlyChanges, Task
<1>3. ASSUME End(r)
      PROVE  /\ OnlyChanges(r) /\ work' \in [Handlers -> Task] /\ overtaken' = overtaken \ {r}
             /\ work'[r] = NoTask
  <2>1. NoTask \in Task
    BY DEF NoTask, Task, Stages
  <2> QED BY <1>0, <1>3, <2>1 DEF End, OnlyChanges
<1>4. ASSUME NEW o \in Owners, Serve(r, o)
      PROVE  /\ OnlyChanges(r) /\ work' \in [Handlers -> Task] /\ overtaken' = overtaken
             /\ work'[r].at = "served" /\ work'[r].host = work[r].host /\ work'[r].org = o
  BY <1>0, <1>4 DEF Serve, OnlyChanges, Task, Stages
<1> QED BY <1>1, <1>2, <1>3, <1>4

-----------------------------------------------------------------------------
(***************************************************************************)
(* The inductive invariant: what a request has read or looked up is still  *)
(* true of the domain's history when the request acts on it.               *)
(***************************************************************************)
\* A row has a hostname and an org from the insert on.
RowsFilled ==
  \A d \in DomainIds : domainStatus[d] # "UNUSED" => domainHost[d] \in Hosts /\ domainOrg[d] \in Owners

\* Tokens exist from the insert on; a token at the domain's own name has been shown.
TokensAreIssued ==
  /\ \A d \in shown : domainStatus[d] # "UNUSED"
  /\ \A h \in Hosts : \A d \in txt[h] :
       domainStatus[d] # "UNUSED" /\ (domainHost[d] = h => d \in shown)

\* Org o has proved its hold on hostname h at some time.
ProvedOnce(h, o) ==
  \E d \in DomainIds : domainHost[d] = h /\ domainOrg[d] = o /\ d \in shown

TaskOK(r) ==
  /\ work[r].at = "nameFree" => work[r].host \in Hosts /\ work[r].org \in Owners
  /\ work[r].at \in {"verifying", "proved"} =>
       /\ work[r].domain \in DomainIds /\ domainStatus[work[r].domain] # "UNUSED"
       /\ work[r].host \in Hosts /\ work[r].host # shortHost
       /\ work[r].host = domainHost[work[r].domain]
       /\ domainStatus[work[r].domain] = "DISABLED" => r \in overtaken
  /\ work[r].at = "proved" => work[r].domain \in shown
  /\ work[r].at = "swapping" =>
       /\ work[r].domain \in DomainIds /\ domainStatus[work[r].domain] # "UNUSED"
       /\ work[r].org = domainOrg[work[r].domain]
  /\ work[r].at \in {"scoped", "served"} /\ work[r].host # shortHost =>
       ProvedOnce(work[r].host, work[r].org)

DomainsInv ==
  /\ DomainsTypeOK
  /\ RowsFilled
  /\ TokensAreIssued
  /\ VerifiedWasProved
  /\ \A r \in Handlers : TaskOK(r)

\* Nothing that has been inserted or shown is forgotten, and SHORT_DOMAIN stays.
HistoryGrows ==
  /\ shortHost' = shortHost /\ shown \subseteq shown'
  /\ \A d \in DomainIds : domainStatus[d] # "UNUSED" =>
       /\ domainStatus'[d] # "UNUSED"
       /\ domainHost'[d] = domainHost[d] /\ domainOrg'[d] = domainOrg[d]

\* Then a slot that is left alone keeps its part of the invariant, unless its domain
\* is disabled and the slot not among those that are overtaken.
LEMMA TaskKept ==
  ASSUME DomainsInv, HistoryGrows, NEW q \in Handlers, work'[q] = work[q],
         q \in overtaken => q \in overtaken',
         work[q].at \in {"verifying", "proved"} /\ domainStatus'[work[q].domain] = "DISABLED" =>
           domainStatus[work[q].domain] = "DISABLED" \/ q \in overtaken'
  PROVE  TaskOK(q)'
<1>1. TaskOK(q) /\ shortHost' = shortHost /\ \A d \in shown : d \in shown'
  BY DEF DomainsInv, HistoryGrows
<1>2. \A h, o : ProvedOnce(h, o) => ProvedOnce(h, o)'
  BY DEF DomainsInv, DomainsTypeOK, TokensAreIssued, HistoryGrows, ProvedOnce
<1>3. \A d \in DomainIds : domainStatus[d] # "UNUSED" =>
        /\ domainStatus'[d] # "UNUSED"
        /\ domainHost'[d] = domainHost[d] /\ domainOrg'[d] = domainOrg[d]
  BY DEF HistoryGrows
<1>4. CASE work[q].at \in {"verifying", "proved"}
  BY <1>1, <1>3, <1>4 DEF TaskOK
<1>5. CASE work[q].at \in {"scoped", "served"}
  BY <1>1, <1>2, <1>5 DEF TaskOK
<1>6. CASE work[q].at = "swapping"
  BY <1>1, <1>3, <1>6 DEF TaskOK
<1>7. CASE work[q].at \notin {"verifying", "proved", "scoped", "served", "swapping"}
  BY <1>1, <1>7 DEF TaskOK
<1> QED BY <1>4, <1>5, <1>6, <1>7

\* The same for all slots but r's, and with r's part for the whole invariant.
LEMMA SlotStepKeeps ==
  ASSUME DomainsInv, HistoryGrows, NEW r \in Handlers, OnlyChanges(r),
         overtaken \ {r} \subseteq overtaken',
         \A q \in Handlers \ {r} :
           work[q].at \in {"verifying", "proved"} /\ domainStatus'[work[q].domain] = "DISABLED" =>
             domainStatus[work[q].domain] = "DISABLED",
         TaskOK(r)'
  PROVE  (\A q \in Handlers : TaskOK(q))'
<1>1. ASSUME NEW q \in Handlers, q # r
      PROVE  TaskOK(q)'
  <2>1. work'[q] = work[q] /\ (q \in overtaken => q \in overtaken')
    BY <1>1 DEF OnlyChanges
  <2> QED BY <1>1, <2>1, TaskKept
<1> QED BY <1>1

\* A step of a request that leaves the tables and the zones alone.
LEMMA ReadStep ==
  ASSUME DomainsInv, UNCHANGED <<table, outside>>, NEW r \in Handlers, OnlyChanges(r),
         work' \in [Handlers -> Task], overtaken' \in {overtaken, overtaken \ {r}}, TaskOK(r)'
  PROVE  DomainsInv'
<1>1. HistoryGrows
  BY DEF HistoryGrows, table, outside
<1>2. (\A q \in Handlers : TaskOK(q))'
  BY <1>1, SlotStepKeeps DEF table
<1>3. DomainsTypeOK'
  BY DEF DomainsInv, DomainsTypeOK, table, outside, Rows
<1>4. RowsFilled' /\ TokensAreIssued' /\ VerifiedWasProved'
  BY DEF DomainsInv, RowsFilled, TokensAreIssued, VerifiedWasProved, table, outside
<1> QED BY <1>2, <1>3, <1>4 DEF DomainsInv

\* A request that has ended asks nothing of the rows.
LEMMA IdleIsOK ==
  ASSUME NEW r \in Handlers, work'[r] = NoTask
  PROVE  TaskOK(r)'
BY DEF TaskOK, NoTask

-----------------------------------------------------------------------------
(***************************************************************************)
(* The steps, one lemma per request                                        *)
(***************************************************************************)
LEMMA CreateKeeps ==
  ASSUME DomainsInv, NEW r \in Handlers,
         \/ \E o \in Owners, h \in Hosts : CreateDomainCheck(r, o, h)
         \/ CreateDomainInsert(r)
  PROVE  DomainsInv'
<1>0. DomainsTypeOK
  BY DEF DomainsInv
<1>1. ASSUME NEW o \in Owners, NEW h \in Hosts, CreateDomainCheck(r, o, h)
      PROVE  DomainsInv'
  <2>1. Start(r, "nameFree", Nobody, h, o) /\ UNCHANGED <<table, outside>>
    BY <1>1 DEF CreateDomainCheck
  <2>2. /\ OnlyChanges(r) /\ work' \in [Handlers -> Task] /\ overtaken' = overtaken
        /\ work'[r] = [at |-> "nameFree", domain |-> Nobody, host |-> h, org |-> o]
    BY <1>0, <2>1, SlotSteps DEF Stages
  <2>3. TaskOK(r)'
    BY <2>2 DEF TaskOK
  <2> QED BY <2>1, <2>2, <2>3, ReadStep
<1>2. ASSUME CreateDomainInsert(r)
      PROVE  DomainsInv'
  <2>1. /\ OnlyChanges(r) /\ work' \in [Handlers -> Task] /\ overtaken' = overtaken \ {r}
        /\ work'[r] = NoTask /\ UNCHANGED outside
    BY <1>0, <1>2, SlotSteps DEF CreateDomainInsert
  <2>2. TaskOK(r)'
    BY <2>1, IdleIsOK
  <2>3. CASE UNCHANGED table
    BY <2>1, <2>2, <2>3, ReadStep
  <2>4. CASE /\ DomainAt(work[r].host) = {}
             /\ \E d \in DomainIds : domainStatus[d] = "UNUSED"
             /\ domainStatus' = [domainStatus EXCEPT ![NextId] = "PENDING"]
             /\ domainHost' = [domainHost EXCEPT ![NextId] = work[r].host]
             /\ domainOrg' = [domainOrg EXCEPT ![NextId] = work[r].org]
             /\ primaries' = primaries
    <3> DEFINE new == NextId
    <3>1. new \in DomainIds /\ domainStatus[new] = "UNUSED"
      BY <2>4 DEF NextId
    <3> HIDE DEF new
    <3>2. work[r].host \in Hosts /\ work[r].org \in Owners
      BY <1>2 DEF CreateDomainInsert, DomainsInv, TaskOK
    <3>3. /\ domainStatus' = [domainStatus EXCEPT ![new] = "PENDING"]
          /\ domainHost' = [domainHost EXCEPT ![new] = work[r].host]
          /\ domainOrg' = [domainOrg EXCEPT ![new] = work[r].org]
          /\ primaries' = primaries
      BY <2>4 DEF new
    <3>4. HistoryGrows
      BY <1>0, <2>1, <3>1, <3>3 DEF HistoryGrows, outside, DomainsTypeOK
    <3>5. \A d \in DomainIds : domainStatus'[d] = "DISABLED" => domainStatus[d] = "DISABLED"
      BY <1>0, <3>1, <3>3 DEF DomainsTypeOK
    <3>6. (\A q \in Handlers : TaskOK(q))'
      <4>1. \A q \in Handlers : work[q].at \in {"verifying", "proved"} => work[q].domain \in DomainIds
        BY DEF DomainsInv, TaskOK
      <4> QED BY <2>1, <2>2, <3>4, <3>5, <4>1, SlotStepKeeps
    <3>7. DomainsTypeOK'
      <4>1. /\ domainStatus' \in [DomainIds -> Statuses]
            /\ domainHost' \in [DomainIds -> Hosts \cup {Nobody}]
            /\ domainOrg' \in [DomainIds -> Owners \cup {Nobody}]
        BY <1>0, <3>1, <3>2, <3>3 DEF DomainsTypeOK, Statuses
      <4>2. ASSUME NEW d \in Rows', NEW e \in Rows', d # e
            PROVE  domainHost'[d] # domainHost'[e]
        <5>1. \A f \in DomainIds : f # new /\ f \in Rows' =>
                f \in Rows /\ domainHost'[f] = domainHost[f] /\ domainHost[f] # work[r].host
          BY <1>0, <2>4, <3>1, <3>3 DEF DomainsTypeOK, Rows, DomainAt
        <5>2. domainHost'[new] = work[r].host
          BY <1>0, <3>1, <3>3 DEF DomainsTypeOK
        <5>3. d \in DomainIds /\ e \in DomainIds
          BY DEF Rows
        <5> QED BY <1>0, <4>2, <5>1, <5>2, <5>3 DEF DomainsTypeOK
      <4> QED BY <1>0, <2>1, <3>3, <4>1, <4>2 DEF DomainsTypeOK, outside
    <3>8. RowsFilled'
      BY <1>0, <3>1, <3>2, <3>3 DEF RowsFilled, DomainsInv, DomainsTypeOK
    <3>9. TokensAreIssued'
      BY <1>0, <2>1, <3>1, <3>3 DEF TokensAreIssued, DomainsInv, DomainsTypeOK, outside
    <3>10. VerifiedWasProved'
      BY <1>0, <2>1, <3>1, <3>3 DEF VerifiedWasProved, DomainsInv, DomainsTypeOK, outside
    <3> QED BY <3>6, <3>7, <3>8, <3>9, <3>10 DEF DomainsInv
  <2> QED BY <1>2, <2>3, <2>4 DEF CreateDomainInsert
<1> QED BY <1>1, <1>2

\* The record that is looked up is the one at the domain's own hostname, so that a
\* value found there has been shown; the UPDATE revives no deleted row.
LEMMA VerifyKeeps ==
  ASSUME DomainsInv, NEW r \in Handlers,
         (\E d \in DomainIds : VerifyRead(r, d)) \/ VerifyLookup(r) \/ VerifyWrite(r)
  PROVE  DomainsInv'
<1>0. DomainsTypeOK /\ TaskOK(r)
  BY DEF DomainsInv
<1>1. ASSUME NEW d \in DomainIds, VerifyRead(r, d)
      PROVE  DomainsInv'
  <2>1. /\ domainStatus[d] = "PENDING" /\ domainHost[d] # shortHost
        /\ domainHost[d] \in Hosts /\ domainOrg[d] \in Owners
        /\ Start(r, "verifying", d, domainHost[d], domainOrg[d]) /\ UNCHANGED <<table, outside>>
    BY <1>1 DEF VerifyRead, MayVerify, Claimable, DomainsInv, RowsFilled
  <2>2. /\ OnlyChanges(r) /\ work' \in [Handlers -> Task] /\ overtaken' = overtaken
        /\ work'[r] = [at |-> "verifying", domain |-> d, host |-> domainHost[d],
                       org |-> domainOrg[d]]
    BY <1>0, <2>1, SlotSteps DEF Stages
  <2>3. TaskOK(r)'
    BY <2>1, <2>2 DEF TaskOK, table, outside
  <2> QED BY <2>1, <2>2, <2>3, ReadStep
<1>2. ASSUME VerifyLookup(r)
      PROVE  DomainsInv'
  <2>1. work[r].at = "verifying" /\ UNCHANGED <<table, outside>>
    BY <1>2 DEF VerifyLookup
  <2>2. CASE RecordProves(r) /\ Continue(r, "proved")
    <3>1. /\ OnlyChanges(r) /\ work' \in [Handlers -> Task] /\ overtaken' = overtaken
          /\ work'[r].at = "proved" /\ work'[r].domain = work[r].domain
          /\ work'[r].host = work[r].host /\ work'[r].org = work[r].org
      BY <1>0, <2>2, SlotSteps DEF Stages
    <3>2. work[r].domain \in shown
      BY <1>0, <2>1, <2>2 DEF RecordProves, TaskOK, DomainsInv, TokensAreIssued
    <3>3. TaskOK(r)'
      BY <1>0, <2>1, <3>1, <3>2 DEF TaskOK, table, outside
    <3> QED BY <2>1, <3>1, <3>3, ReadStep
  <2>3. CASE End(r)
    BY <1>0, <2>1, <2>3, SlotSteps, IdleIsOK, ReadStep
  <2> QED BY <1>2, <2>2, <2>3 DEF VerifyLookup
<1>3. ASSUME VerifyWrite(r)
      PROVE  DomainsInv'
  <2> DEFINE d == work[r].domain
  <2>1. /\ d \in DomainIds /\ d \in shown
        /\ UNCHANGED <<domainHost, domainOrg, primaries, txt, shortHost, shown>>
    BY <1>0, <1>3 DEF VerifyWrite, TaskOK, outside
  <2>2. domainStatus' = [e \in DomainIds |->
                           IF e = d /\ e \in Rows THEN "VERIFIED" ELSE domainStatus[e]]
    BY <1>3 DEF VerifyWrite, SetVerified
  <2>3. /\ OnlyChanges(r) /\ work' \in [Handlers -> Task] /\ overtaken' = overtaken \ {r}
        /\ work'[r] = NoTask
    BY <1>0, <1>3, SlotSteps DEF VerifyWrite
  <2> HIDE DEF d
  <2>4. HistoryGrows
    BY <1>0, <2>1, <2>2 DEF HistoryGrows, DomainsTypeOK
  <2>5. \A e \in DomainIds : domainStatus'[e] = "DISABLED" => domainStatus[e] = "DISABLED"
    BY <2>2
  <2>6. (\A q \in Handlers : TaskOK(q))'
    <3>1. \A q \in Handlers : work[q].at \in {"verifying", "proved"} => work[q].domain \in DomainIds
      BY DEF DomainsInv, TaskOK
    <3>2. TaskOK(r)'
      BY <2>3, IdleIsOK
    <3> QED BY <2>3, <2>4, <2>5, <3>1, <3>2, SlotStepKeeps
  <2>7. DomainsTypeOK'
    <3>1. Rows' = Rows
      BY <1>0, <2>1, <2>2 DEF Rows
    <3>2. domainStatus' \in [DomainIds -> Statuses]
      BY <1>0, <2>2 DEF DomainsTypeOK, Statuses
    <3> QED BY <1>0, <2>1, <2>3, <3>1, <3>2 DEF DomainsTypeOK
  <2>8. RowsFilled'
    BY <2>1, <2>2 DEF RowsFilled, DomainsInv, Rows
  <2>9. TokensAreIssued'
    BY <1>0, <2>1, <2>4 DEF TokensAreIssued, DomainsInv, DomainsTypeOK, HistoryGrows
  <2>10. VerifiedWasProved'
    BY <2>1, <2>2 DEF VerifiedWasProved, DomainsInv
  <2> QED BY <2>6, <2>7, <2>8, <2>9, <2>10 DEF DomainsInv
<1> QED BY <1>1, <1>2, <1>3

\* A swap makes primary what it finds VERIFIED, and no other domain.
LEMMA PrimaryKeeps ==
  ASSUME DomainsInv, NEW r \in Handlers,
         (\E d \in DomainIds : SetPrimaryRead(r, d)) \/ SetPrimaryWrite(r)
  PROVE  DomainsInv'
<1>0. DomainsTypeOK /\ TaskOK(r)
  BY DEF DomainsInv
<1>1. ASSUME NEW d \in DomainIds, SetPrimaryRead(r, d)
      PROVE  DomainsInv'
  <2>1. /\ domainStatus[d] = "VERIFIED" /\ domainOrg[d] \in Owners
        /\ Start(r, "swapping", d, Nobody, domainOrg[d]) /\ UNCHANGED <<table, outside>>
    BY <1>1 DEF SetPrimaryRead, DomainsInv, RowsFilled
  <2>2. /\ OnlyChanges(r) /\ work' \in [Handlers -> Task] /\ overtaken' = overtaken
        /\ work'[r] = [at |-> "swapping", domain |-> d, host |-> Nobody, org |-> domainOrg[d]]
    BY <1>0, <2>1, SlotSteps DEF Stages
  <2>3. TaskOK(r)'
    BY <2>1, <2>2 DEF TaskOK, table, outside
  <2> QED BY <2>1, <2>2, <2>3, ReadStep
<1>2. ASSUME SetPrimaryWrite(r)
      PROVE  DomainsInv'
  <2>1. /\ UNCHANGED <<domainStatus, domainHost, domainOrg, txt, shortHost, shown>>
        /\ Swap(work[r].domain, work[r].org)
    BY <1>2 DEF SetPrimaryWrite, outside
  <2>2. /\ OnlyChanges(r) /\ work' \in [Handlers -> Task] /\ overtaken' = overtaken \ {r}
        /\ work'[r] = NoTask
    BY <1>0, <1>2, SlotSteps DEF SetPrimaryWrite
  <2>3. (\A q \in Handlers : TaskOK(q))'
    <3>1. HistoryGrows
      BY <2>1 DEF HistoryGrows
    <3>2. TaskOK(r)'
      BY <2>2, IdleIsOK
    <3> QED BY <2>1, <2>2, <3>1, <3>2, SlotStepKeeps
  <2>4. \A d \in primaries' : d \in primaries \/ (d \in Rows /\ domainStatus[d] = "VERIFIED")
    BY <2>1 DEF Swap
  <2>5. DomainsTypeOK'
    BY <1>0, <2>1, <2>2, <2>4 DEF DomainsTypeOK, Rows
  <2>6. VerifiedWasProved'
    BY <2>1, <2>4 DEF VerifiedWasProved, DomainsInv, Rows
  <2>7. RowsFilled' /\ TokensAreIssued'
    BY <2>1 DEF RowsFilled, TokensAreIssued, DomainsInv
  <2> QED BY <2>3, <2>5, <2>6, <2>7 DEF DomainsInv
<1> QED BY <1>1, <1>2

\* A visit's scope is an org that has proved its hold on the host, and stays that.
LEMMA VisitKeeps ==
  ASSUME DomainsInv, NEW r \in Handlers,
         \/ \E h \in Hosts : VisitScope(r, h)
         \/ \E o \in Owners : VisitLink(r, o)
         \/ VisitDone(r)
  PROVE  DomainsInv'
<1>0. DomainsTypeOK /\ TaskOK(r)
  BY DEF DomainsInv
<1>1. ASSUME NEW h \in Hosts, VisitScope(r, h)
      PROVE  DomainsInv'
  <2>1. PICK o \in HostScope(h) : Start(r, "scoped", Nobody, h, o)
    BY <1>1 DEF VisitScope
  <2>2. UNCHANGED <<table, outside>>
    BY <1>1 DEF VisitScope
  <2>3. o \in Owners \cup {Nobody} /\ (h # shortHost => ProvedOnce(h, o))
    BY <2>1 DEF HostScope, DomainAt, Rows, ProvedOnce, DomainsInv, RowsFilled, VerifiedWasProved
  <2>4. /\ OnlyChanges(r) /\ work' \in [Handlers -> Task] /\ overtaken' = overtaken
        /\ work'[r] = [at |-> "scoped", domain |-> Nobody, host |-> h, org |-> o]
    BY <1>0, <2>1, <2>3, SlotSteps DEF Stages
  <2>5. h # shortHost' => ProvedOnce(h, o)'
    BY <2>2, <2>3 DEF ProvedOnce, table, outside
  <2>6. TaskOK(r)'
    BY <2>4, <2>5 DEF TaskOK
  <2> QED BY <2>2, <2>4, <2>6, ReadStep
<1>2. ASSUME NEW o \in Owners, VisitLink(r, o)
      PROVE  DomainsInv'
  <2>1. work[r].at = "scoped" /\ UNCHANGED <<table, outside>>
    BY <1>2 DEF VisitLink
  <2>2. CASE InScope(work[r].org, o) /\ Serve(r, o)
    <3>1. /\ OnlyChanges(r) /\ work' \in [Handlers -> Task] /\ overtaken' = overtaken
          /\ work'[r].at = "served" /\ work'[r].host = work[r].host /\ work'[r].org = o
      BY <1>0, <2>2, SlotSteps
    <3>2. work[r].host # shortHost => ProvedOnce(work[r].host, o)
      <4> SUFFICES ASSUME work[r].host # shortHost
                   PROVE  ProvedOnce(work[r].host, o)
        OBVIOUS
      <4>1. ProvedOnce(work[r].host, work[r].org)
        BY <1>0, <2>1 DEF TaskOK
      <4>2. work[r].org \in Owners
        BY <4>1 DEF ProvedOnce, DomainsInv, TokensAreIssued, RowsFilled
      <4> QED BY <2>2, <4>1, <4>2, DomainsAssumption DEF InScope
    <3>3. work'[r].host # shortHost' => ProvedOnce(work[r].host, o)'
      BY <2>1, <3>1, <3>2 DEF ProvedOnce, table, outside
    <3>4. TaskOK(r)'
      BY <3>1, <3>3 DEF TaskOK
    <3> QED BY <2>1, <3>1, <3>4, ReadStep
  <2>3. CASE End(r)
    BY <1>0, <2>1, <2>3, SlotSteps, IdleIsOK, ReadStep
  <2> QED BY <1>2, <2>2, <2>3 DEF VisitLink
<1>3. ASSUME VisitDone(r)
      PROVE  DomainsInv'
  BY <1>0, <1>3, SlotSteps, IdleIsOK, ReadStep DEF VisitDone
<1> QED BY <1>1, <1>2, <1>3

\* What the owner of a row, the holders of zones and the operator do.
LEMMA OtherKeeps ==
  ASSUME DomainsInv,
         \/ \E d \in DomainIds : DeleteDomain(d) \/ Disable(d)
         \/ \E h \in Hosts : Restart(h) \/ \E d \in DomainIds : Publish(h, d) \/ Withdraw(h, d)
  PROVE  DomainsInv'
<1>0. DomainsTypeOK
  BY DEF DomainsInv
<1>1. ASSUME HistoryGrows, work' = work,
             \A q \in Handlers :
               /\ q \in overtaken => q \in overtaken'
               /\ work[q].at \in {"verifying", "proved"} /\ domainStatus'[work[q].domain] = "DISABLED" =>
                    domainStatus[work[q].domain] = "DISABLED" \/ q \in overtaken'
      PROVE  (\A q \in Handlers : TaskOK(q))'
  BY <1>1, TaskKept
<1>2. \A q \in Handlers : work[q].at \in {"verifying", "proved"} => work[q].domain \in DomainIds
  BY DEF DomainsInv, TaskOK
<1>3. ASSUME NEW d \in DomainIds, DeleteDomain(d)
      PROVE  DomainsInv'
  <2>1. /\ d \in Rows /\ domainStatus' = [domainStatus EXCEPT ![d] = "DELETED"]
        /\ primaries' = primaries \ {d}
        /\ UNCHANGED <<domainHost, domainOrg, txt, shortHost, shown, work, overtaken>>
    BY <1>3 DEF DeleteDomain, outside
  <2>2. HistoryGrows
    BY <1>0, <2>1 DEF HistoryGrows, DomainsTypeOK, Rows
  <2>3. \A e \in DomainIds : domainStatus'[e] = "DISABLED" => domainStatus[e] = "DISABLED"
    BY <1>0, <2>1 DEF DomainsTypeOK
  <2>4. (\A q \in Handlers : TaskOK(q))'
    BY <1>1, <1>2, <2>1, <2>2, <2>3
  <2>5. DomainsTypeOK'
    <3>1. Rows' \subseteq Rows
      BY <1>0, <2>1 DEF Rows, DomainsTypeOK
    <3>2. domainStatus' \in [DomainIds -> Statuses]
      BY <1>0, <2>1 DEF DomainsTypeOK, Statuses
    <3> QED BY <1>0, <2>1, <3>1, <3>2 DEF DomainsTypeOK
  <2>6. RowsFilled' /\ TokensAreIssued' /\ VerifiedWasProved'
    BY <1>0, <2>1 DEF RowsFilled, TokensAreIssued, VerifiedWasProved, DomainsInv, DomainsTypeOK, Rows
  <2> QED BY <2>4, <2>5, <2>6 DEF DomainsInv
<1>4. ASSUME NEW d \in DomainIds, Disable(d)
      PROVE  DomainsInv'
  <2>1. /\ d \in Rows /\ domainStatus' = [domainStatus EXCEPT ![d] = "DISABLED"]
        /\ overtaken' = overtaken \cup
             {r \in Handlers : work[r].domain = d /\ work[r].at \in {"verifying", "proved"}}
        /\ UNCHANGED <<domainHost, domainOrg, primaries, txt, shortHost, shown, work>>
    BY <1>4 DEF Disable, outside
  <2>2. HistoryGrows
    BY <1>0, <2>1 DEF HistoryGrows, DomainsTypeOK, Rows
  <2>3. ASSUME NEW q \in Handlers, work[q].at \in {"verifying", "proved"},
               domainStatus'[work[q].domain] = "DISABLED"
        PROVE  domainStatus[work[q].domain] = "DISABLED" \/ q \in overtaken'
    BY <1>0, <1>2, <2>1, <2>3 DEF DomainsTypeOK
  <2>4. (\A q \in Handlers : TaskOK(q))'
    BY <1>1, <2>1, <2>2, <2>3
  <2>5. DomainsTypeOK'
    <3>1. Rows' = Rows
      BY <1>0, <2>1 DEF Rows, DomainsTypeOK
    <3>2. domainStatus' \in [DomainIds -> Statuses]
      BY <1>0, <2>1 DEF DomainsTypeOK, Statuses
    <3> QED BY <1>0, <2>1, <3>1, <3>2 DEF DomainsTypeOK
  <2>6. RowsFilled' /\ TokensAreIssued' /\ VerifiedWasProved'
    BY <1>0, <2>1 DEF RowsFilled, TokensAreIssued, VerifiedWasProved, DomainsInv, DomainsTypeOK, Rows
  <2> QED BY <2>4, <2>5, <2>6 DEF DomainsInv
<1>5. ASSUME NEW h \in Hosts, Restart(h)
      PROVE  DomainsInv'
  <2>1. /\ shortHost' = h /\ work' = [r \in Handlers |-> NoTask] /\ overtaken' = {}
        /\ UNCHANGED <<domainStatus, domainHost, domainOrg, primaries, txt, shown>>
    BY <1>5 DEF Restart, table
  <2>2. (\A q \in Handlers : TaskOK(q))'
    BY <2>1, IdleIsOK
  <2>3. NoTask \in Task
    BY DEF NoTask, Task, Stages
  <2>4. DomainsTypeOK'
    BY <1>0, <2>1, <2>3 DEF DomainsTypeOK, Rows
  <2>5. RowsFilled' /\ TokensAreIssued' /\ VerifiedWasProved'
    BY <2>1 DEF RowsFilled, TokensAreIssued, VerifiedWasProved, DomainsInv
  <2> QED BY <2>2, <2>4, <2>5 DEF DomainsInv
<1>6. ASSUME NEW h \in Hosts, NEW d \in DomainIds, Publish(h, d) \/ Withdraw(h, d)
      PROVE  DomainsInv'
  <2>1. /\ UNCHANGED <<domainStatus, domainHost, domainOrg, primaries, shortHost, work, overtaken>>
        /\ shown \subseteq shown' /\ shown' \subseteq DomainIds
        /\ \A g \in Hosts : txt'[g] \subseteq txt[g] \cup {d}
        /\ txt' \in [Hosts -> SUBSET DomainIds]
    BY <1>0, <1>6 DEF Publish, Withdraw, table, DomainsTypeOK
  <2>2. HistoryGrows
    BY <2>1 DEF HistoryGrows
  <2>3. (\A q \in Handlers : TaskOK(q))'
    BY <1>1, <2>1, <2>2
  <2>4. DomainsTypeOK'
    BY <1>0, <2>1 DEF DomainsTypeOK, Rows
  <2>5. RowsFilled' /\ VerifiedWasProved'
    BY <2>1 DEF RowsFilled, VerifiedWasProved, DomainsInv
  <2>6. TokensAreIssued'
    BY <1>0, <1>6 DEF TokensAreIssued, DomainsInv, DomainsTypeOK, Publish, Withdraw, table
  <2> QED BY <2>3, <2>4, <2>5, <2>6 DEF DomainsInv
<1> QED BY <1>3, <1>4, <1>5, <1>6

-----------------------------------------------------------------------------
(***************************************************************************)
(* What a step may do to VERIFIED domains                                  *)
(***************************************************************************)
\* Only the UPDATE of a verification makes a domain VERIFIED, and the invariant tells
\* what that verification has read.
LEMMA OnlyVerificationVerifies ==
  ASSUME DomainsInv, [DomainsNext]_domainVars, NEW d \in DomainIds,
         domainStatus[d] # "VERIFIED", domainStatus'[d] = "VERIFIED"
  PROVE  \E r \in Handlers : work[r].at = "proved" /\ work[r].domain = d
<1>1. domainStatus \in [DomainIds -> Statuses]
  BY DEF DomainsInv, DomainsTypeOK
<1>2. DomainsNext /\ domainStatus' # domainStatus
  BY DEF domainVars
<1>3. CASE \E r \in Handlers : CreateDomainInsert(r)
  BY <1>1, <1>3 DEF CreateDomainInsert, table
<1>4. CASE \E r \in Handlers : VerifyWrite(r)
  BY <1>1, <1>4 DEF VerifyWrite, SetVerified
<1>5. CASE \E e \in DomainIds : DeleteDomain(e) \/ Disable(e)
  BY <1>1, <1>5 DEF DeleteDomain, Disable
<1> QED
  BY <1>2, <1>3, <1>4, <1>5
  DEF DomainsNext, VisitScope, CreateDomainCheck, VerifyRead, SetPrimaryRead, VisitLink,
      VerifyLookup, SetPrimaryWrite, VisitDone, Restart, Publish, Withdraw, table

\* Rows are not moved to another org, and only a swap or a delete changes primaries.
LEMMA PrimariesStay ==
  ASSUME DomainsInv, [DomainsNext]_domainVars, ~ \E r \in Handlers : SetPrimaryWrite(r),
         NEW o \in Owners, NEW d \in PrimaryVerified(o)
  PROVE  d \in PrimaryVerified(o)' \/ domainStatus'[d] \in {"DELETED", "DISABLED"}
<1>0. /\ d \in DomainIds /\ d \in primaries /\ domainStatus[d] = "VERIFIED" /\ domainOrg[d] = o
      /\ domainStatus \in [DomainIds -> Statuses]
      /\ domainOrg \in [DomainIds -> Owners \cup {Nobody}]
  BY DEF PrimaryVerified, DomainsOf, Rows, DomainsInv, DomainsTypeOK
<1>1. SUFFICES /\ domainOrg'[d] = o
               /\ \/ domainStatus'[d] = "VERIFIED" /\ d \in primaries'
                  \/ domainStatus'[d] \in {"DELETED", "DISABLED"}
  BY <1>0 DEF PrimaryVerified, DomainsOf, Rows
<1>2. CASE UNCHANGED <<domainStatus, domainOrg, primaries>>
  BY <1>0, <1>2
<1>3. CASE \E r \in Handlers : CreateDomainInsert(r)
  <2>1. CASE \E e \in DomainIds : domainStatus[e] = "UNUSED"
    <3>1. NextId \in DomainIds /\ domainStatus[NextId] = "UNUSED"
      BY <2>1 DEF NextId
    <3> QED BY <1>0, <1>2, <1>3, <3>1 DEF CreateDomainInsert, table
  <2>2. CASE ~ \E e \in DomainIds : domainStatus[e] = "UNUSED"
    BY <1>2, <1>3, <2>2 DEF CreateDomainInsert, table
  <2> QED BY <2>1, <2>2
<1>4. CASE \E r \in Handlers : VerifyWrite(r)
  BY <1>0, <1>4 DEF VerifyWrite, SetVerified
<1>5. CASE \E e \in DomainIds : DeleteDomain(e) \/ Disable(e)
  BY <1>0, <1>5 DEF DeleteDomain, Disable
<1> QED
  BY <1>2, <1>3, <1>4, <1>5
  DEF DomainsNext, domainVars, VisitScope, CreateDomainCheck, VerifyRead, SetPrimaryRead,
      VisitLink, VerifyLookup, VisitDone, Restart, Publish, Withdraw, table

\* A swap that goes through leaves the org a primary, and other orgs theirs.
LEMMA SwapLeavesPrimary ==
  ASSUME DomainsInv, NEW r \in Handlers, SetPrimaryWrite(r), NEW o \in Owners,
         PrimaryVerified(o) # {}
  PROVE  PrimaryVerified(o)' # {}
<1> DEFINE d == work[r].domain
<1>1. /\ d \in DomainIds /\ work[r].org = domainOrg[d] /\ Swap(d, work[r].org)
      /\ UNCHANGED <<domainStatus, domainHost, domainOrg>>
  BY DEF SetPrimaryWrite, DomainsInv, TaskOK
<1> HIDE DEF d
<1>2. CASE d \in Rows /\ domainStatus[d] = "VERIFIED"
  <2>1. primaries' = (primaries \ DomainsOf(work[r].org)) \cup {d}
    BY <1>1, <1>2 DEF Swap
  <2>2. CASE o = work[r].org
    <3>1. d \in PrimaryVerified(o)'
      BY <1>1, <1>2, <2>1, <2>2 DEF PrimaryVerified, DomainsOf, Rows
    <3> QED BY <3>1
  <2>3. CASE o # work[r].org
    <3>1. PICK e \in PrimaryVerified(o) : TRUE
      OBVIOUS
    <3>2. e \notin DomainsOf(work[r].org)
      BY <2>3, <3>1 DEF PrimaryVerified, DomainsOf
    <3>3. e \in PrimaryVerified(o)'
      BY <1>1, <2>1, <3>1, <3>2 DEF PrimaryVerified, DomainsOf, Rows
    <3> QED BY <3>3
  <2> QED BY <2>2, <2>3
<1>3. CASE ~(d \in Rows /\ domainStatus[d] = "VERIFIED")
  <2>1. primaries' = primaries
    BY <1>1, <1>3 DEF Swap
  <2> QED BY <1>1, <2>1 DEF PrimaryVerified, DomainsOf, Rows
<1> QED BY <1>2, <1>3

-----------------------------------------------------------------------------
(***************************************************************************)
(* The theorems                                                            *)
(***************************************************************************)
LEMMA DomainsStart ==
  DomainsInit => DomainsInv
<1> SUFFICES ASSUME DomainsInit
             PROVE  DomainsInv
  OBVIOUS
<1>1. NoTask \in Task
  BY DEF NoTask, Task, Stages
<1>2. DomainsTypeOK
  BY <1>1 DEF DomainsInit, DomainsTypeOK, Statuses, Rows
<1>3. \A r \in Handlers : TaskOK(r)
  BY DEF DomainsInit, TaskOK, NoTask
<1> QED BY <1>2, <1>3
       DEF DomainsInit, DomainsInv, RowsFilled, TokensAreIssued, VerifiedWasProved

\* Every request's step, of any number of them, keeps the invariant.
LEMMA DomainsStep ==
  DomainsInv /\ [DomainsNext]_domainVars => DomainsInv'
<1> SUFFICES ASSUME DomainsInv, [DomainsNext]_domainVars
             PROVE  DomainsInv'
  OBVIOUS
<1>1. CASE UNCHANGED domainVars
  BY <1>1 DEF domainVars, DomainsInv, DomainsTypeOK, Rows, RowsFilled, TokensAreIssued,
              VerifiedWasProved, TaskOK, ProvedOnce
<1>2. CASE \E r \in Handlers :
             \/ \E h \in Hosts : VisitScope(r, h) \/ \E o \in Owners : CreateDomainCheck(r, o, h)
             \/ \E d \in DomainIds : VerifyRead(r, d) \/ SetPrimaryRead(r, d)
             \/ \E o \in Owners : VisitLink(r, o)
             \/ CreateDomainInsert(r) \/ VerifyLookup(r) \/ VerifyWrite(r) \/ SetPrimaryWrite(r)
             \/ VisitDone(r)
  BY <1>2, CreateKeeps, VerifyKeeps, PrimaryKeeps, VisitKeeps
<1>3. CASE \/ \E d \in DomainIds : DeleteDomain(d) \/ Disable(d)
           \/ \E h \in Hosts : Restart(h) \/ \E d \in DomainIds : Publish(h, d) \/ Withdraw(h, d)
  BY <1>3, OtherKeeps
<1> QED BY <1>1, <1>2, <1>3 DEF DomainsNext

\* The rows, the zones and what each request has read of them agree at every step.
THEOREM DomainsInvariant == DomainsSpec => []DomainsInv
BY DomainsStart, DomainsStep, PTL DEF DomainsSpec

\* The rows, the zones and the requests have their types, and no two rows have one
\* hostname (the unique key of the domains table, stores/domain.go Create).
THEOREM DomainsTypeCorrect == DomainsSpec => []DomainsTypeOK
<1>1. DomainsInv => DomainsTypeOK
  BY DEF DomainsInv
<1> QED BY <1>1, DomainsInvariant, PTL

\* A VERIFIED or primary domain has shown its own token in its own zone
\* (DomainService.Verify, DomainStore.SetVerified and SetPrimary).
THEOREM VerifiedProved == DomainsSpec => []VerifiedWasProved
<1>1. DomainsInv => VerifiedWasProved
  BY DEF DomainsInv
<1> QED BY <1>1, DomainsInvariant, PTL

\* A link answered on a custom domain is one of an org that has proved its hold on
\* the hostname (ResolveService.hostScope and lookup).
THEOREM ServedProved == DomainsSpec => []ServedByProver
<1>1. DomainsInv => ServedByProver
  BY DEF DomainsInv, TaskOK, ServedByProver, ProvedOnce
<1> QED BY <1>1, DomainsInvariant, PTL

\* An org that shows a hostname of its own shows one after every step that neither
\* deletes nor disables it (DomainStore.SetPrimary's transaction and its rollback).
THEOREM PrimaryKept == DomainsSpec => PrimaryShownIsKept
<1>1. ASSUME DomainsInv, [DomainsNext]_domainVars, NEW o \in Owners, PrimaryVerified(o) # {}
      PROVE  \/ PrimaryVerified(o)' # {}
             \/ \E d \in PrimaryVerified(o) : domainStatus'[d] \in {"DELETED", "DISABLED"}
  <2>1. PICK d \in PrimaryVerified(o) : TRUE
    BY <1>1
  <2>2. CASE \E r \in Handlers : SetPrimaryWrite(r)
    BY <1>1, <2>2, SwapLeavesPrimary
  <2>3. CASE ~ \E r \in Handlers : SetPrimaryWrite(r)
    BY <1>1, <2>1, <2>3, PrimariesStay
  <2> QED BY <2>2, <2>3
<1>2. DomainsInv /\ [DomainsNext]_domainVars =>
        \A o \in Owners : PrimaryVerified(o) # {} =>
          \/ PrimaryVerified(o)' # {}
          \/ \E d \in PrimaryVerified(o) : domainStatus'[d] \in {"DELETED", "DISABLED"}
  BY <1>1
<1> QED BY <1>2, DomainsInvariant, PTL DEF DomainsSpec, PrimaryShownIsKept

\* No domain becomes VERIFIED at the deployment's own hostname, and a DISABLED one does
\* only by a verification begun before (DomainService.Verify, DomainStore.SetVerified).
THEOREM VerificationCurrent == DomainsSpec => VerificationIsCurrent
<1>1. ASSUME DomainsInv, [DomainsNext]_domainVars, NEW d \in DomainIds,
             domainStatus[d] # "VERIFIED", domainStatus'[d] = "VERIFIED"
      PROVE  /\ domainHost[d] # shortHost
             /\ domainStatus[d] = "DISABLED" => \E r \in overtaken : work[r].domain = d
  <2>1. PICK r \in Handlers : work[r].at = "proved" /\ work[r].domain = d
    BY <1>1, OnlyVerificationVerifies
  <2>2. TaskOK(r)
    BY <1>1 DEF DomainsInv
  <2> QED BY <2>1, <2>2 DEF TaskOK
<1>2. DomainsInv /\ [DomainsNext]_domainVars =>
        \A d \in DomainIds : domainStatus[d] # "VERIFIED" /\ domainStatus'[d] = "VERIFIED" =>
          /\ domainHost[d] # shortHost
          /\ domainStatus[d] = "DISABLED" => \E r \in overtaken : work[r].domain = d
  BY <1>1
<1> QED BY <1>2, DomainsInvariant, PTL DEF DomainsSpec, VerificationIsCurrent

=============================================================================
