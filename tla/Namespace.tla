------------------------------ MODULE Namespace ------------------------------
(***************************************************************************)
(* The shared namespace of a deployment's short domain: brand prefixes     *)
(* (table brand_prefixes) and short codes (links.code), the requests that  *)
(* change them, and visitors that resolve /<code> and /<prefix>/<code>.    *)
(*                                                                         *)
(* Every handler runs in its own goroutine, on any replica, and talks to   *)
(* MySQL one autocommitted statement at a time: an action is one statement *)
(* or one transaction together with the handler's decision on its result,  *)
(* and a request keeps what it has read in its own record.  A read whose   *)
(* only other outcome is an error answer ends the request.                 *)
(*                                                                         *)
(* Actors' roles are not modelled here: an owner never loses ownership     *)
(* (module Membership), so requireOwner's answer cannot become stale.      *)
(***************************************************************************)
EXTENDS Naturals, FiniteSets

CONSTANTS
  Orgs,         \* organizations
  Names,        \* values that pass the format, reserved-word and explicit-word filters, up to letter case
  PrefixIds,    \* brand_prefixes.id, never used twice: the number of prefix rows ever created
  Links,        \* links.id: the number of links ever created
  Requests,     \* request slots: how many handlers run at once
  Visitors,     \* visitors resolving a URL at once
  Cap,          \* maxPrefixesPerOrg
  MaxAttempts,  \* maxCodeAttempts
  AutoApprove,  \* BRAND_PREFIX_AUTO_APPROVE
  None          \* a NULL column or a field not in use

ASSUME NamespaceAssumption ==
  /\ IsFiniteSet(PrefixIds)
  /\ IsFiniteSet(Requests)
  /\ Requests # {}
  /\ Cap \in Nat \ {0}
  /\ MaxAttempts \in Nat \ {0}
  /\ AutoApprove \in BOOLEAN
  /\ None \notin Orgs \cup Names \cup PrefixIds \cup Links

VARIABLES
  status,   \* status[p]: brand_prefixes.status of row p, UNUSED before its insert, DELETED after its delete
  owner,    \* owner[p]: brand_prefixes.org_id
  value,    \* value[p]: brand_prefixes.prefix
  primary,  \* primary[p]: brand_prefixes.is_primary
  code,     \* code[l]: links.code, None before the insert of link l
  org,      \* org[l]: links.org_id
  req,      \* req[r]: what the handler in slot r has read and where it stands
  visit,    \* visit[v]: the same for a visitor's resolution
  raced     \* history: the values that a code writer and a prefix writer claimed at once

prefixVars == <<status, owner, value, primary>>
linkVars == <<code, org>>
vars == <<prefixVars, linkVars, req, visit, raced>>

-----------------------------------------------------------------------------
(***************************************************************************)
(* Rows                                                                    *)
(***************************************************************************)
RowStatuses == {"PENDING", "APPROVED", "REJECTED", "REVOKED"}

\* Rows that keep their value from others: status <> 'REJECTED'.
Holding == {"PENDING", "APPROVED", "REVOKED"}

Stored(p) == status[p] \in RowStatuses

Held(n) == \E p \in PrefixIds : status[p] \in Holding /\ value[p] = n

HeldBy(o) == {p \in PrefixIds : status[p] \in Holding /\ owner[p] = o}

CodeExists(n) == \E l \in Links : code[l] = n

-----------------------------------------------------------------------------
(***************************************************************************)
(* Requests.  `at` names the check a handler has just passed.              *)
(***************************************************************************)
Steps == {"idle",
          "prefixCounted", "prefixUnclaimed", "prefixNoCode", \* BrandPrefixService.Create
          "primaryRead", "deleteRead",                        \* SetPrimary, Delete
          "aliasNotHeld", "drawing", "drawnNotHeld",          \* shorten
          "linkReady",
          "renameNotHeld", "renameFree"}                      \* SetAlias

Handler == [at : Steps, org : Orgs \cup {None}, name : Names \cup {None},
            target : PrefixIds \cup Links \cup {None}, tries : 0 .. MaxAttempts - 1]

Idle == [at |-> "idle", org |-> None, name |-> None, target |-> None, tries |-> 0]

Begin(r, at, o, n, target) ==
  /\ req[r].at = "idle"
  /\ req' = [req EXCEPT ![r] = [at |-> at, org |-> o, name |-> n, target |-> target, tries |-> 0]]

Proceed(r, at) == req' = [req EXCEPT ![r].at = at]

Finish(r) == req' = [req EXCEPT ![r] = Idle]

\* Continue when the check holds, answer an error otherwise.
Check(r, ok, at) == \/ ok /\ Proceed(r, at)
                    \/ ~ok /\ Finish(r)

\* A writer of a code has passed IsHeld; a writer of a prefix has passed CodeExists.
CodeWriterSteps == {"aliasNotHeld", "drawnNotHeld", "linkReady", "renameNotHeld", "renameFree"}

WritingCode(n) == \E r \in Requests : req[r].at \in CodeWriterSteps /\ req[r].name = n

WritingPrefix(n) == \E r \in Requests : req[r].at = "prefixNoCode" /\ req[r].name = n

NoteRace ==
  raced' = raced \cup {n \in Names : WritingCode(n)' /\ WritingPrefix(n)'}

-----------------------------------------------------------------------------
(***************************************************************************)
(* A prefix request: count the org's prefixes, look the value up, look for *)
(* an equal code, then delete a rejected row of the value and insert.      *)
(***************************************************************************)
\* Mutant: the cap is compared with > instead of >=.
PrefixCountOffByOne(r, o, n) ==
  /\ Cardinality(HeldBy(o)) <= Cap
  /\ Begin(r, "prefixCounted", o, n, None)
  /\ UNCHANGED <<prefixVars, linkVars, visit, raced>>

PrefixCount(r, o, n) ==
  /\ Cardinality(HeldBy(o)) < Cap
  /\ Begin(r, "prefixCounted", o, n, None)
  /\ UNCHANGED <<prefixVars, linkVars, visit, raced>>

PrefixLookup(r) ==
  /\ req[r].at = "prefixCounted"
  /\ Check(r, ~Held(req[r].name), "prefixUnclaimed")
  /\ UNCHANGED <<prefixVars, linkVars, visit, raced>>

PrefixCheckCode(r) ==
  /\ req[r].at = "prefixUnclaimed"
  /\ Check(r, ~CodeExists(req[r].name), "prefixNoCode")
  /\ NoteRace
  /\ UNCHANGED <<prefixVars, linkVars, visit>>

InitialStatus == IF AutoApprove THEN "APPROVED" ELSE "PENDING"

\* One transaction; the unique key refuses a value that is held by now (Abort).
PrefixInsert(r) ==
  LET n == req[r].name IN
  /\ req[r].at = "prefixNoCode"
  /\ ~Held(n)
  /\ \E p \in PrefixIds :
       /\ status[p] = "UNUSED"
       /\ status' = [q \in PrefixIds |->
            IF q = p THEN InitialStatus
            ELSE IF status[q] = "REJECTED" /\ value[q] = n THEN "DELETED"
            ELSE status[q]]
       /\ owner' = [owner EXCEPT ![p] = req[r].org]
       /\ value' = [value EXCEPT ![p] = n]
  /\ Finish(r)
  /\ UNCHANGED <<primary, linkVars, visit, raced>>

-----------------------------------------------------------------------------
(***************************************************************************)
(* The owner's other prefix operations.                                    *)
(***************************************************************************)
PrimaryRead(r, o, p) ==
  /\ owner[p] = o
  /\ status[p] = "APPROVED"
  /\ Begin(r, "primaryRead", o, None, p)
  /\ UNCHANGED <<prefixVars, linkVars, visit, raced>>

\* Mutant: the swap sets the new flag and forgets the old one.
PrimarySwapNoClear(r) ==
  LET p == req[r].target IN
  /\ req[r].at = "primaryRead"
  /\ \/ status[p] = "APPROVED" /\ primary' = [primary EXCEPT ![p] = TRUE]
     \/ status[p] # "APPROVED" /\ UNCHANGED primary
  /\ Finish(r)
  /\ UNCHANGED <<status, owner, value, linkVars, visit, raced>>

\* Mutant: the swap is two statements, nothing is rolled back.
PrimarySwapNoRollback(r) ==
  LET p == req[r].target IN
  /\ req[r].at = "primaryRead"
  /\ primary' = [q \in PrefixIds |->
       IF owner[q] = req[r].org THEN q = p /\ status[p] = "APPROVED" ELSE primary[q]]
  /\ Finish(r)
  /\ UNCHANGED <<status, owner, value, linkVars, visit, raced>>

\* One transaction: clear the org's flags and set this one, which must still be
\* APPROVED; when it is not, everything is rolled back.
PrimarySwap(r) ==
  LET p == req[r].target IN
  /\ req[r].at = "primaryRead"
  /\ \/ /\ status[p] = "APPROVED"
        /\ primary' = [q \in PrefixIds |->
             IF owner[q] = req[r].org THEN q = p ELSE primary[q]]
     \/ status[p] # "APPROVED" /\ UNCHANGED primary
  /\ Finish(r)
  /\ UNCHANGED <<status, owner, value, linkVars, visit, raced>>

Remove(p) ==
  /\ status' = [status EXCEPT ![p] = "DELETED"]
  /\ primary' = [primary EXCEPT ![p] = FALSE]

\* Mutant: the DELETE trusts the status read before.
DeletableAnyway(p) == Stored(p)

\* DELETE ... WHERE status <> 'REVOKED'
Deletable(p) == Stored(p) /\ status[p] # "REVOKED"

DeleteRead(r, o, p) ==
  /\ owner[p] = o
  /\ Stored(p) /\ status[p] # "REVOKED"
  /\ Begin(r, "deleteRead", o, None, p)
  /\ UNCHANGED <<prefixVars, linkVars, visit, raced>>

DeleteWrite(r) ==
  LET p == req[r].target IN
  /\ req[r].at = "deleteRead"
  /\ \/ Deletable(p) /\ Remove(p)
     \/ ~Deletable(p) /\ UNCHANGED <<status, primary>>
  /\ Finish(r)
  /\ UNCHANGED <<owner, value, linkVars, visit, raced>>

-----------------------------------------------------------------------------
(***************************************************************************)
(* The operator: conditional updates, so a stale decision changes nothing. *)
(***************************************************************************)
\* Mutant: a decision does not look at the status it moves from.
DecideUnconditionally(p, from, to) ==
  /\ Stored(p)
  /\ status' = [status EXCEPT ![p] = to]
  /\ primary' = [primary EXCEPT ![p] = FALSE]
  /\ UNCHANGED <<owner, value, linkVars, req, visit, raced>>

\* Mutant: a decision leaves is_primary alone.
DecideKeepingPrimary(p, from, to) ==
  /\ status[p] = from
  /\ status' = [status EXCEPT ![p] = to]
  /\ UNCHANGED <<primary, owner, value, linkVars, req, visit, raced>>

Decide(p, from, to) ==
  /\ status[p] = from
  /\ status' = [status EXCEPT ![p] = to]
  /\ primary' = [primary EXCEPT ![p] = FALSE]
  /\ UNCHANGED <<owner, value, linkVars, req, visit, raced>>

ApprovePrefix(p) == Decide(p, "PENDING", "APPROVED")
RejectPrefix(p)  == Decide(p, "PENDING", "REJECTED")
RevokePrefix(p)  == Decide(p, "APPROVED", "REVOKED")

ReleasePrefix(p) ==
  /\ status[p] = "REVOKED"
  /\ Remove(p)
  /\ UNCHANGED <<owner, value, linkVars, req, visit, raced>>

-----------------------------------------------------------------------------
(***************************************************************************)
(* Shortening, with an alias or with a drawn code.                         *)
(***************************************************************************)
AliasCheckHeld(r, o, n) ==
  /\ ~Held(n)
  /\ Begin(r, "aliasNotHeld", o, n, None)
  /\ NoteRace
  /\ UNCHANGED <<prefixVars, linkVars, visit>>

AliasCheckCode(r) ==
  /\ req[r].at = "aliasNotHeld"
  /\ Check(r, ~CodeExists(req[r].name), "linkReady")
  /\ UNCHANGED <<prefixVars, linkVars, visit, raced>>

GenerateBegin(r, o) ==
  /\ Begin(r, "drawing", o, None, None)
  /\ UNCHANGED <<prefixVars, linkVars, visit, raced>>

\* Mutant: one attempt too many.
RedrawOnceMore(r) ==
  IF req[r].tries < MaxAttempts
    THEN req' = [req EXCEPT ![r].at = "drawing", ![r].name = None, ![r].tries = @ + 1]
    ELSE Finish(r)

\* Mutant: attempts are not counted.
RedrawForever(r) == req' = [req EXCEPT ![r].at = "drawing", ![r].name = None]

\* The loop of uniqueCode goes round again, or gives up after maxCodeAttempts.
Redraw(r) ==
  IF req[r].tries + 1 < MaxAttempts
    THEN req' = [req EXCEPT ![r].at = "drawing", ![r].name = None, ![r].tries = @ + 1]
    ELSE Finish(r)

\* The random code is a reserved word.
DrawReserved(r) ==
  /\ req[r].at = "drawing"
  /\ Redraw(r)
  /\ UNCHANGED <<prefixVars, linkVars, visit, raced>>

\* The random code n is not reserved.
DrawCheckHeld(r, n) ==
  /\ req[r].at = "drawing"
  /\ \/ /\ ~Held(n)
        /\ req' = [req EXCEPT ![r].at = "drawnNotHeld", ![r].name = n]
     \/ Held(n) /\ Redraw(r)
  /\ NoteRace
  /\ UNCHANGED <<prefixVars, linkVars, visit>>

DrawCheckCode(r) ==
  /\ req[r].at = "drawnNotHeld"
  /\ \/ /\ ~CodeExists(req[r].name)
        /\ req' = [req EXCEPT ![r].at = "linkReady", ![r].tries = 0]
     \/ CodeExists(req[r].name) /\ Redraw(r)
  /\ UNCHANGED <<prefixVars, linkVars, visit, raced>>

\* The unique key refuses a code that exists by now (Abort).
LinkInsert(r) ==
  /\ req[r].at = "linkReady"
  /\ ~CodeExists(req[r].name)
  /\ \E l \in Links :
       /\ code[l] = None
       /\ code' = [code EXCEPT ![l] = req[r].name]
       /\ org' = [org EXCEPT ![l] = req[r].org]
  /\ Finish(r)
  /\ UNCHANGED <<prefixVars, visit, raced>>

-----------------------------------------------------------------------------
(***************************************************************************)
(* SetAlias replaces the code of an existing link.                         *)
(***************************************************************************)
\* Mutant: SetAlias checks the format of the alias only.
RenameUnchecked(r, l, n) ==
  /\ code[l] # None
  /\ Begin(r, "renameNotHeld", org[l], n, l)
  /\ NoteRace
  /\ UNCHANGED <<prefixVars, linkVars, visit>>

RenameCheckHeld(r, l, n) ==
  /\ code[l] # None
  /\ ~Held(n)
  /\ Begin(r, "renameNotHeld", org[l], n, l)
  /\ NoteRace
  /\ UNCHANGED <<prefixVars, linkVars, visit>>

\* Get and CodeExists; a link that already has the alias is left as it is.
RenameCheckCode(r) ==
  /\ req[r].at = "renameNotHeld"
  /\ Check(r, ~CodeExists(req[r].name), "renameFree")
  /\ UNCHANGED <<prefixVars, linkVars, visit, raced>>

RenameWrite(r) ==
  /\ req[r].at = "renameFree"
  /\ ~CodeExists(req[r].name)
  /\ code' = [code EXCEPT ![req[r].target] = req[r].name]
  /\ Finish(r)
  /\ UNCHANGED <<prefixVars, org, visit, raced>>

\* A handler ends early: a statement fails (a lost connection, a deadlock, the
\* unique key), the client goes away, or the replica stops.
Abort(r) ==
  /\ req[r].at # "idle"
  /\ Finish(r)
  /\ UNCHANGED <<prefixVars, linkVars, visit, raced>>

-----------------------------------------------------------------------------
(***************************************************************************)
(* Resolution on the short domain: the prefix is read first, the code in a *)
(* second statement.  A 404 ends it with nothing recorded.                 *)
(***************************************************************************)
Visit == [at : {"start", "scoped", "served"}, org : Orgs \cup {None},
          prefix : PrefixIds \cup {None}, link : Links \cup {None}]

NoVisit == [at |-> "start", org |-> None, prefix |-> None, link |-> None]

ScopeByPrefix(v, n) ==
  /\ visit[v].at = "start"
  /\ \E p \in PrefixIds :
       /\ status[p] = "APPROVED"
       /\ value[p] = n
       /\ visit' = [visit EXCEPT ![v] =
            [at |-> "scoped", org |-> owner[p], prefix |-> p, link |-> None]]
  /\ UNCHANGED <<prefixVars, linkVars, req, raced>>

ScopeRoot(v) ==
  /\ visit[v].at = "start"
  /\ visit' = [visit EXCEPT ![v] = [NoVisit EXCEPT !.at = "scoped"]]
  /\ UNCHANGED <<prefixVars, linkVars, req, raced>>

\* Mutant: a prefix opens the whole namespace.
InAnyScope(v, l) == TRUE

\* Only the scope's own links are served; the click names the prefix of the scope.
InScope(v, l) == visit[v].org = None \/ org[l] = visit[v].org

Serve(v, n) ==
  /\ visit[v].at = "scoped"
  /\ \/ \E l \in Links :
          /\ code[l] = n
          /\ InScope(v, l)
          /\ visit' = [visit EXCEPT ![v].at = "served", ![v].link = l]
     \/ /\ ~\E l \in Links : code[l] = n /\ InScope(v, l)
        /\ visit' = [visit EXCEPT ![v] = NoVisit]
  /\ UNCHANGED <<prefixVars, linkVars, req, raced>>

Leave(v) ==
  /\ visit[v].at = "served"
  /\ visit' = [visit EXCEPT ![v] = NoVisit]
  /\ UNCHANGED <<prefixVars, linkVars, req, raced>>

-----------------------------------------------------------------------------
Init ==
  /\ status = [p \in PrefixIds |-> "UNUSED"]
  /\ owner = [p \in PrefixIds |-> None]
  /\ value = [p \in PrefixIds |-> None]
  /\ primary = [p \in PrefixIds |-> FALSE]
  /\ code = [l \in Links |-> None]
  /\ org = [l \in Links |-> None]
  /\ req = [r \in Requests |-> Idle]
  /\ visit = [v \in Visitors |-> NoVisit]
  /\ raced = {}

PrefixRequest(r) ==
  \/ \E o \in Orgs, n \in Names : PrefixCount(r, o, n)
  \/ PrefixLookup(r) \/ PrefixCheckCode(r) \/ PrefixInsert(r)
  \/ \E o \in Orgs, p \in PrefixIds : PrimaryRead(r, o, p) \/ DeleteRead(r, o, p)
  \/ PrimarySwap(r) \/ DeleteWrite(r)

CodeRequest(r) ==
  \/ \E o \in Orgs, n \in Names : AliasCheckHeld(r, o, n)
  \/ AliasCheckCode(r) \/ LinkInsert(r)
  \/ \E o \in Orgs : GenerateBegin(r, o)
  \/ \E n \in Names : DrawCheckHeld(r, n)
  \/ DrawReserved(r) \/ DrawCheckCode(r)
  \/ \E l \in Links, n \in Names : RenameCheckHeld(r, l, n)
  \/ RenameCheckCode(r) \/ RenameWrite(r)

Operator(p) ==
  ApprovePrefix(p) \/ RejectPrefix(p) \/ RevokePrefix(p) \/ ReleasePrefix(p)

Resolution(v) ==
  \/ \E n \in Names : ScopeByPrefix(v, n) \/ Serve(v, n)
  \/ ScopeRoot(v) \/ Leave(v)

Next ==
  \/ \E r \in Requests : PrefixRequest(r) \/ CodeRequest(r) \/ Abort(r)
  \/ \E p \in PrefixIds : Operator(p)
  \/ \E v \in Visitors : Resolution(v)

Spec == Init /\ [][Next]_vars

\* A goroutine that has started its handler is scheduled again, and each of its
\* database calls returns or fails.  Nobody has to start a request, and neither the
\* operator nor a visitor has to act.
Continue(r) ==
  \/ PrefixLookup(r) \/ PrefixCheckCode(r) \/ PrefixInsert(r)
  \/ PrimarySwap(r) \/ DeleteWrite(r)
  \/ AliasCheckCode(r) \/ LinkInsert(r)
  \/ DrawReserved(r) \/ (\E n \in Names : DrawCheckHeld(r, n)) \/ DrawCheckCode(r)
  \/ RenameCheckCode(r) \/ RenameWrite(r)
  \/ Abort(r)

FairSpec == Spec /\ \A r \in Requests : WF_vars(Continue(r))

-----------------------------------------------------------------------------
(***************************************************************************)
(* Properties                                                              *)
(***************************************************************************)

\* Every variable stays in its domain; a code draw is never tried more than
\* maxCodeAttempts times (uniqueCode).
TypeOK ==
  /\ status \in [PrefixIds -> RowStatuses \cup {"UNUSED", "DELETED"}]
  /\ owner \in [PrefixIds -> Orgs \cup {None}]
  /\ value \in [PrefixIds -> Names \cup {None}]
  /\ primary \in [PrefixIds -> BOOLEAN]
  /\ code \in [Links -> Names \cup {None}]
  /\ org \in [Links -> Orgs \cup {None}]
  /\ req \in [Requests -> Handler]
  /\ visit \in [Visitors -> Visit]
  /\ raced \subseteq Names

\* An org displays its links under a prefix only while that prefix resolves: a
\* primary prefix is APPROVED whatever order SetPrimary's read, the operator's
\* revocation and SetPrimary's transaction take.
PrimaryIsApproved == \A p \in PrefixIds : primary[p] => status[p] = "APPROVED"

\* Concurrent SetPrimary requests never leave an org with two primary prefixes.
OnePrimaryPerOrg ==
  \A p, q \in PrefixIds : primary[p] /\ primary[q] /\ owner[p] = owner[q] => p = q

\* What an org displays its links under: one prefix at most, and one that resolves.
PrimariesAreSound == PrimaryIsApproved /\ OnePrimaryPerOrg

\* A SetPrimary that fails leaves the old primary in place: a flag is cleared only
\* with the row's approval, or by the org's next primary.
PrimaryIsKept ==
  [][\A p \in PrefixIds :
       primary[p] /\ ~primary'[p] =>
         \/ status'[p] # "APPROVED"
         \/ \E q \in PrefixIds : primary'[q] /\ owner'[q] = owner[p]]_vars

\* A revoked value stays held until the operator releases it: no owner's request,
\* the withdrawal that read the row before its revocation included, changes it.
RevokedUntilReleased ==
  [][\A p \in PrefixIds :
       status[p] = "REVOKED" /\ status'[p] # "REVOKED" => ReleasePrefix(p)]_vars

\* The cap on held prefixes is checked before the insert, not with it: each of the
\* other requests that passed the check at the same time can exceed it by one, and
\* nothing else can.
HeldWithinCapAndRaces ==
  \A o \in Orgs : Cardinality(HeldBy(o)) < Cap + Cardinality(Requests)

\* A code equals a held prefix only if the two were claimed at once: one request had
\* passed IsHeld for the value while another had passed CodeExists for it.
CollisionOnlyByRace ==
  \A n \in Names : Held(n) /\ CodeExists(n) => n \in raced

\* A visit through a prefix serves only links of the org that owned that prefix when
\* its scope was read, however the value changed hands before the code was read, so
\* the click's brand_prefix_id and org_id always agree.
ServedInScope ==
  \A v \in Visitors :
    visit[v].at = "served" /\ visit[v].prefix # None =>
      org[visit[v].link] = owner[visit[v].prefix]

\* A request never runs for ever: uniqueCode gives up even when every code it draws
\* is held or taken.
HandlersFinish == \A r \in Requests : req[r].at # "idle" ~> req[r].at = "idle"

\* What ARCHITECTURE.md says of the two namespaces: no code equals a held prefix.
NoCodeEqualsHeldPrefix == \A n \in Names : ~(Held(n) /\ CodeExists(n))

\* The values as PrefixRegistry sees them: a rejected row keeps nothing.
Keeps(p, n) == status[p] \in Holding /\ value[p] = n

standing == [n \in Names |->
  IF Held(n) THEN status[CHOOSE p \in PrefixIds : Keeps(p, n)] ELSE "FREE"]

keeper == [n \in Names |->
  IF Held(n) THEN owner[CHOOSE p \in PrefixIds : Keeps(p, n)] ELSE None]

Registry == INSTANCE PrefixRegistry
  WITH Orgs <- Orgs, Names <- Names, AutoApprove <- AutoApprove, None <- None,
       standing <- standing, keeper <- keeper

\* The rows, requests and transactions implement the registry.
ImplementsRegistry == Registry!Spec

=============================================================================
