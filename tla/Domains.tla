------------------------------- MODULE Domains -------------------------------
(***************************************************************************)
(* Custom domains (DomainService and DomainStore) and the visits that      *)
(* enter through them (ResolveService.hostScope and lookup).               *)
(*                                                                         *)
(* An action is one statement on MySQL, or one DNS lookup, with the        *)
(* handler's decision on its result; requests interleave between them.     *)
(* The verification token is random and never used twice: the domain's id  *)
(* stands for it.  requireOwner and the policy only end a request early    *)
(* and are left out.  The zone of a hostname is its holder's, who may      *)
(* publish any token there; the operator disables domains in the database. *)
(* SHORT_DOMAIN changes with a restart, which ends all requests.           *)
(***************************************************************************)
CONSTANTS
  DomainIds,  \* domains.id: the number of domains ever registered
  Hosts,      \* hostnames
  Owners,     \* orgs.id
  Handlers,   \* request slots
  Nobody      \* a field not in use; the global namespace

ASSUME DomainsAssumption ==
  Nobody \notin DomainIds /\ Nobody \notin Hosts /\ Nobody \notin Owners

VARIABLES
  domainStatus,  \* domainStatus[d]: domains.status; "UNUSED" before the insert, "DELETED" after
  domainHost,    \* domainHost[d]: domains.hostname, kept as history once deleted
  domainOrg,     \* domainOrg[d]: domains.org_id, likewise
  primaries,     \* the domains with is_primary = 1
  txt,           \* txt[h]: the values of the TXT record at _ogtr-verify.h
  shortHost,     \* SHORT_DOMAIN
  work,          \* work[r]: what the handler in slot r has read and where it stands
  shown,         \* history: the domains whose hostname's zone has held their token
  overtaken      \* history: slots of verifications begun before their domain was disabled

domainVars ==
  <<domainStatus, domainHost, domainOrg, primaries, txt, shortHost, work, shown, overtaken>>

-----------------------------------------------------------------------------
Statuses == {"UNUSED", "PENDING", "VERIFIED", "DISABLED", "DELETED"}

\* The rows of the table.
Rows == {d \in DomainIds : domainStatus[d] \notin {"UNUSED", "DELETED"}}

DomainAt(h) == {d \in Rows : domainHost[d] = h}

DomainsOf(o) == {d \in Rows : domainOrg[d] = o}

\* The hostname the org's short URLs are shown with.
PrimaryVerified(o) == {d \in DomainsOf(o) : d \in primaries /\ domainStatus[d] = "VERIFIED"}

Stages == {"idle", "nameFree", "verifying", "proved", "swapping", "scoped", "served"}

Task == [at : Stages, domain : DomainIds \cup {Nobody}, host : Hosts \cup {Nobody},
         org : Owners \cup {Nobody}]

NoTask == [at |-> "idle", domain |-> Nobody, host |-> Nobody, org |-> Nobody]

Start(r, at, d, h, o) ==
  /\ work[r] = NoTask
  /\ work' = [work EXCEPT ![r] = [at |-> at, domain |-> d, host |-> h, org |-> o]]
  /\ overtaken' = overtaken

Continue(r, at) ==
  /\ work' = [work EXCEPT ![r].at = at]
  /\ overtaken' = overtaken

End(r) ==
  /\ work' = [work EXCEPT ![r] = NoTask]
  /\ overtaken' = overtaken \ {r}

outside == <<txt, shortHost, shown>>
table == <<domainStatus, domainHost, domainOrg, primaries>>

-----------------------------------------------------------------------------
(***************************************************************************)
(* POST /org/domains                                                       *)
(***************************************************************************)
\* rejectDeploymentHost; a subdomain of SHORT_DOMAIN is refused as well.
Claimable(h) == h # shortHost

CreateDomainCheck(r, o, h) ==
  /\ Claimable(h)
  /\ DomainAt(h) = {}
  /\ Start(r, "nameFree", Nobody, h, o)
  /\ UNCHANGED <<table, outside>>

NextId == CHOOSE d \in DomainIds : domainStatus[d] = "UNUSED"

\* The unique key on hostname refuses the later of two inserts.
CreateDomainInsert(r) ==
  /\ work[r].at = "nameFree"
  /\ \/ /\ DomainAt(work[r].host) = {}
        /\ \E d \in DomainIds : domainStatus[d] = "UNUSED"
        /\ domainStatus' = [domainStatus EXCEPT ![NextId] = "PENDING"]
        /\ domainHost' = [domainHost EXCEPT ![NextId] = work[r].host]
        /\ domainOrg' = [domainOrg EXCEPT ![NextId] = work[r].org]
        /\ primaries' = primaries
     \/ DomainAt(work[r].host) # {} /\ UNCHANGED table
  /\ End(r)
  /\ UNCHANGED outside

-----------------------------------------------------------------------------
(***************************************************************************)
(* POST /org/domains/{id}/verify: read the row, look the record up for up  *)
(* to five seconds, then mark the row VERIFIED whatever became of it.      *)
(***************************************************************************)
\* Mutant: the re-check of the deployment's own domain is dropped.
AnyPending(d) == domainStatus[d] = "PENDING"

\* A VERIFIED domain is answered as it is, a DISABLED one refused.
MayVerify(d) == domainStatus[d] = "PENDING" /\ Claimable(domainHost[d])

VerifyRead(r, d) ==
  /\ MayVerify(d)
  /\ Start(r, "verifying", d, domainHost[d], domainOrg[d])
  /\ UNCHANGED <<table, outside>>

\* Mutant: any record at the name will do.
SomeRecord(r) == txt[work[r].host] # {}

\* One of the values is the domain's token.
RecordProves(r) == work[r].domain \in txt[work[r].host]

VerifyLookup(r) ==
  /\ work[r].at = "verifying"
  /\ \/ RecordProves(r) /\ Continue(r, "proved")
     \/ End(r)  \* no such value, no record, an error or a timeout
  /\ UNCHANGED <<table, outside>>

\* Mutant: the row is saved whole, which brings a deleted one back.
SaveVerified(d) == domainStatus' = [domainStatus EXCEPT ![d] = "VERIFIED"]

\* UPDATE domains SET status = 'VERIFIED' WHERE id = ?
SetVerified(d) ==
  domainStatus' = [e \in DomainIds |-> IF e = d /\ e \in Rows THEN "VERIFIED" ELSE domainStatus[e]]

VerifyWrite(r) ==
  /\ work[r].at = "proved"
  /\ SetVerified(work[r].domain)
  /\ End(r)
  /\ UNCHANGED <<domainHost, domainOrg, primaries, outside>>

-----------------------------------------------------------------------------
(***************************************************************************)
(* PUT /org/domains/{id}/primary and DELETE /org/domains/{id}              *)
(***************************************************************************)
SetPrimaryRead(r, d) ==
  /\ domainStatus[d] = "VERIFIED"
  /\ Start(r, "swapping", d, Nobody, domainOrg[d])
  /\ UNCHANGED <<table, outside>>

\* Mutant: a swap that sets no row is committed all the same.
SwapCommitted(d, o) ==
  primaries' = (primaries \ DomainsOf(o)) \cup
                 (IF d \in Rows /\ domainStatus[d] = "VERIFIED" THEN {d} ELSE {})

\* The transaction: clear the org's primary, set this one, roll back unless the
\* second UPDATE found the row VERIFIED.
Swap(d, o) ==
  primaries' = IF d \in Rows /\ domainStatus[d] = "VERIFIED"
                 THEN (primaries \ DomainsOf(o)) \cup {d}
                 ELSE primaries

SetPrimaryWrite(r) ==
  /\ work[r].at = "swapping"
  /\ Swap(work[r].domain, work[r].org)
  /\ End(r)
  /\ UNCHANGED <<domainStatus, domainHost, domainOrg, outside>>

DeleteDomain(d) ==
  /\ d \in Rows
  /\ domainStatus' = [domainStatus EXCEPT ![d] = "DELETED"]
  /\ primaries' = primaries \ {d}
  /\ UNCHANGED <<domainHost, domainOrg, outside, work, overtaken>>

-----------------------------------------------------------------------------
(***************************************************************************)
(* A visit to host h for a link of org o: the scope of the host, then the  *)
(* link, which is out of scope if it is another org's.                     *)
(***************************************************************************)
\* Mutant: the status of the domain is not looked at.
ScopeOfAnyRow(h) ==
  IF h = shortHost THEN {Nobody} ELSE {domainOrg[d] : d \in DomainAt(h)}

\* {Nobody} is the global namespace, {} a 404.
HostScope(h) ==
  IF h = shortHost THEN {Nobody}
  ELSE {domainOrg[d] : d \in {e \in DomainAt(h) : domainStatus[e] = "VERIFIED"}}

VisitScope(r, h) ==
  /\ \E o \in HostScope(h) : Start(r, "scoped", Nobody, h, o)
  /\ UNCHANGED <<table, outside>>

InScope(scope, o) == scope = Nobody \/ scope = o

\* Org o's link is answered on the host: a redirect or a preview.
Serve(r, o) ==
  /\ work' = [work EXCEPT ![r].at = "served", ![r].org = o]
  /\ overtaken' = overtaken

VisitLink(r, o) ==
  /\ work[r].at = "scoped"
  /\ \/ InScope(work[r].org, o) /\ Serve(r, o)
     \/ ~InScope(work[r].org, o) /\ End(r)
  /\ UNCHANGED <<table, outside>>

VisitDone(r) ==
  /\ work[r].at = "served"
  /\ End(r)
  /\ UNCHANGED <<table, outside>>

-----------------------------------------------------------------------------
(***************************************************************************)
(* The zones, the operator and the deployment.                             *)
(***************************************************************************)
Publish(h, d) ==
  /\ domainStatus[d] # "UNUSED" /\ d \notin txt[h]
  /\ txt' = [txt EXCEPT ![h] = @ \cup {d}]
  /\ shown' = IF h = domainHost[d] THEN shown \cup {d} ELSE shown
  /\ UNCHANGED <<table, shortHost, work, overtaken>>

Withdraw(h, d) ==
  /\ d \in txt[h]
  /\ txt' = [txt EXCEPT ![h] = @ \ {d}]
  /\ UNCHANGED <<table, shortHost, work, shown, overtaken>>

Disable(d) ==
  /\ d \in Rows /\ domainStatus[d] # "DISABLED"
  /\ domainStatus' = [domainStatus EXCEPT ![d] = "DISABLED"]
  /\ overtaken' = overtaken \cup
       {r \in Handlers : work[r].domain = d /\ work[r].at \in {"verifying", "proved"}}
  /\ UNCHANGED <<domainHost, domainOrg, primaries, outside, work>>

Restart(h) ==
  /\ shortHost' = h
  /\ work' = [r \in Handlers |-> NoTask]
  /\ overtaken' = {}
  /\ UNCHANGED <<table, txt, shown>>

DomainsInit ==
  /\ domainStatus = [d \in DomainIds |-> "UNUSED"]
  /\ domainHost = [d \in DomainIds |-> Nobody]
  /\ domainOrg = [d \in DomainIds |-> Nobody]
  /\ primaries = {}
  /\ txt = [h \in Hosts |-> {}]
  /\ shortHost \in Hosts
  /\ work = [r \in Handlers |-> NoTask]
  /\ shown = {}
  /\ overtaken = {}

DomainsNext ==
  \/ \E r \in Handlers :
       \/ \E h \in Hosts : VisitScope(r, h) \/ \E o \in Owners : CreateDomainCheck(r, o, h)
       \/ \E d \in DomainIds : VerifyRead(r, d) \/ SetPrimaryRead(r, d)
       \/ \E o \in Owners : VisitLink(r, o)
       \/ CreateDomainInsert(r) \/ VerifyLookup(r) \/ VerifyWrite(r) \/ SetPrimaryWrite(r)
       \/ VisitDone(r)
  \/ \E d \in DomainIds : DeleteDomain(d) \/ Disable(d)
  \/ \E h \in Hosts : Restart(h) \/ \E d \in DomainIds : Publish(h, d) \/ Withdraw(h, d)

DomainsSpec == DomainsInit /\ [][DomainsNext]_domainVars

-----------------------------------------------------------------------------
\* Types of the rows, the zones and the requests; a hostname has one row at most.
DomainsTypeOK ==
  /\ domainStatus \in [DomainIds -> Statuses]
  /\ domainHost \in [DomainIds -> Hosts \cup {Nobody}]
  /\ domainOrg \in [DomainIds -> Owners \cup {Nobody}]
  /\ primaries \subseteq DomainIds
  /\ txt \in [Hosts -> SUBSET DomainIds]
  /\ shortHost \in Hosts
  /\ work \in [Handlers -> Task]
  /\ shown \subseteq DomainIds
  /\ overtaken \subseteq Handlers
  /\ \A d, e \in Rows : d # e => domainHost[d] # domainHost[e]

\* A domain is VERIFIED, or an org's primary, only if the zone of its hostname has
\* held its own token: whatever is deleted, registered again or published meanwhile.
VerifiedWasProved ==
  \A d \in DomainIds : domainStatus[d] = "VERIFIED" \/ d \in primaries => d \in shown

\* What a visitor finds on a custom domain is a link of an org that has proved its
\* hold on the hostname, though the domain may be gone by the time of the answer.
ServedByProver ==
  \A r \in Handlers : work[r].at = "served" /\ work[r].host # shortHost =>
    \E d \in DomainIds :
      domainHost[d] = work[r].host /\ domainOrg[d] = work[r].org /\ d \in shown

\* An org that shows a hostname of its own keeps showing one, until that domain is
\* deleted or disabled: a swap that loses its race leaves the old primary.
PrimaryShownIsKept ==
  [][\A o \in Owners : PrimaryVerified(o) # {} =>
       \/ PrimaryVerified(o)' # {}
       \/ \E d \in PrimaryVerified(o) : domainStatus'[d] \in {"DELETED", "DISABLED"}]_domainVars

\* No domain becomes VERIFIED while its hostname is the deployment's own, though
\* SHORT_DOMAIN may have been changed to a hostname registered earlier; and "this domain
\* is disabled and cannot be verified" is true of all verifications but those that had
\* read the row before it was disabled: their UPDATE asks no status.
VerificationIsCurrent ==
  [][\A d \in DomainIds : domainStatus[d] # "VERIFIED" /\ domainStatus'[d] = "VERIFIED" =>
       /\ domainHost[d] # shortHost
       /\ domainStatus[d] = "DISABLED" => \E r \in overtaken : work[r].domain = d]_domainVars
=============================================================================
