----------------------------- MODULE Membership -----------------------------
(***************************************************************************)
(* Organizations, their members and invites (OrgService), and the session  *)
(* requests that turn invites and email domains into memberships and issue *)
(* token pairs scoped to an organization (AuthService).                    *)
(*                                                                         *)
(* As in Namespace, an action is one statement on MySQL with the handler's *)
(* decision on its result, and requests interleave between statements.     *)
(* Users and their addresses are one: an address without a users row has   *)
(* no membership, which is all CreateInvite asks of it.  All users share   *)
(* one email domain.  limits.Policy is a deployment's own code; here it    *)
(* counts members, as the package's documentation suggests.                *)
(*                                                                         *)
(* requireOwner is part of a request's first action: no owner is ever      *)
(* removed (OwnersStay), so its answer stays true.                         *)
(***************************************************************************)
EXTENDS Naturals, FiniteSets

CONSTANTS
  Users,      \* users.id
  Orgs,       \* orgs.id: the number of orgs ever created
  Invites,    \* invites.id: the number of invites ever sent
  Requests,   \* request slots: how many handlers run at once
  MemberCap,  \* members an org may have under the deployment's policy
  None        \* a field not in use

ASSUME MembershipAssumption ==
  /\ Orgs \subseteq Nat /\ IsFiniteSet(Orgs)
  /\ Invites \subseteq Nat /\ IsFiniteSet(Invites)
  /\ IsFiniteSet(Users)
  /\ IsFiniteSet(Requests) /\ Requests # {}
  /\ MemberCap \in Nat \ {0}
  /\ None \notin Users /\ None \notin Orgs /\ None \notin Invites
  /\ None \notin {"login", "refresh", "me"}

VARIABLES
  admits,        \* admits[o]: "absent" before the insert of org o, then whether its
                 \* auto_join_domain is unset ("invited") or the users' ("domain")
  role,          \* role[o][u]: org_members.role, "none" without a row
  inviteStatus,  \* inviteStatus[i]: invites.status, "UNUSED" before the insert
  inviteOrg,     \* inviteOrg[i]: invites.org_id
  invitee,       \* invitee[i]: invites.email
  req,           \* req[r]: what the handler in slot r has read and where it stands
  everMember,    \* history: <<o, u>> such that u has been a member of o
  memberSince,   \* history: memberSince[r]: orgs the user of session request r has
                 \* belonged to at some time since r began
  out            \* history: <<o, u>> such that u was removed from o while nothing else
                 \* was under way for u, and has had no new way in since

tables == <<admits, role, inviteStatus, inviteOrg, invitee>>
vars == <<tables, req, everMember, memberSince, out>>

-----------------------------------------------------------------------------
Roles == {"none", "MEMBER", "OWNER"}

IsMember(o, u) == role[o][u] # "none"

Members(o) == {u \in Users : IsMember(o, u)}

OrgsOf(u) == {o \in Orgs : IsMember(o, u)}

Owned(o) == \E u \in Users : role[o][u] = "OWNER"

Least(S) == CHOOSE x \in S : \A y \in S : x <= y

\* Mutant: the policy lets one member too many in.
CanAddOneMore(o) == Cardinality(Members(o)) <= MemberCap

CanAddMember(o) == Cardinality(Members(o)) < MemberCap

\* Mutant: every invite that was not revoked is accepted again.
NotRevokedFor(u) ==
  {i \in Invites : inviteStatus[i] \in {"PENDING", "ACCEPTED"} /\ invitee[i] = u}

PendingForEmail(u) == {i \in Invites : inviteStatus[i] = "PENDING" /\ invitee[i] = u}

HasPending(o, u) ==
  \E i \in Invites : inviteStatus[i] = "PENDING" /\ inviteOrg[i] = o /\ invitee[i] = u

-----------------------------------------------------------------------------
(***************************************************************************)
(* Requests                                                                *)
(***************************************************************************)
Steps == {"idle",
          "orgInserted", "switching",                    \* OrgHandler.Create, SwitchOrg
          "removing", "revoking",                        \* RemoveMember, RevokeInvite
          "inviting", "inviteeOutside", "nonePending",   \* CreateInvite
          "accepting", "joining", "adding", "duplicate", \* acceptPendingInvites, joinAsMember
          "settling", "orgless",                         \* Login without an org
          "issued"}

Kinds == {"login", "refresh", "me"}

OwnerSteps == {"removing", "revoking", "inviting", "inviteeOutside", "nonePending"}

Handler == [at : Steps, kind : Kinds \cup {None}, user : Users \cup {None},
            org : Orgs \cup {None}, queue : SUBSET Invites, joined : Orgs \cup {None}]

Idle == [at |-> "idle", kind |-> None, user |-> None, org |-> None,
         queue |-> {}, joined |-> None]

Begin(r, at, kind, u, o, queue) ==
  /\ req[r].at = "idle"
  /\ req' = [req EXCEPT ![r] = [at |-> at, kind |-> kind, user |-> u, org |-> o,
                                queue |-> queue, joined |-> None]]

Proceed(r, at) == req' = [req EXCEPT ![r].at = at]

Finish(r) == req' = [req EXCEPT ![r] = Idle]

Check(r, ok, at) == \/ ok /\ Proceed(r, at)
                    \/ ~ok /\ Finish(r)

\* A token pair scoped to org o, or to none, is signed and answered.
Issue(r, o) ==
  req' = [req EXCEPT ![r] = [at |-> "issued", kind |-> None, user |-> req[r].user, org |-> o,
                             queue |-> {}, joined |-> None]]

\* History of the sessions' memberships, from their first step to their last.
Watch ==
  memberSince' = [r \in Requests |->
    IF req'[r].at \in OwnerSteps \cup {"idle"} \/ req'[r].kind = "me" THEN {}
    ELSE memberSince[r] \cup {o \in Orgs : role'[o][req'[r].user] # "none"}]

AddMembership(o, u, as) ==
  /\ role' = [role EXCEPT ![o][u] = as]
  /\ everMember' = everMember \cup {<<o, u>>}

-----------------------------------------------------------------------------
(***************************************************************************)
(* POST /orgs: insert the org, then the owner's membership, then scope a   *)
(* token pair to it; three statements, no transaction.                     *)
(***************************************************************************)
CreateOrgInsert(r, u, how) ==
  LET absent == {o \in Orgs : admits[o] = "absent"} IN
  /\ absent # {}
  /\ admits' = [admits EXCEPT ![Least(absent)] = how]
  /\ Begin(r, "orgInserted", None, u, Least(absent), {})
  /\ UNCHANGED <<role, inviteStatus, inviteOrg, invitee, everMember, out>>
  /\ Watch

\* The primary key refuses the creator who is a member by now.
CreateOrgAddOwner(r) ==
  LET o == req[r].org
      u == req[r].user IN
  /\ req[r].at = "orgInserted"
  /\ \/ ~IsMember(o, u) /\ AddMembership(o, u, "OWNER") /\ Proceed(r, "switching")
     \/ IsMember(o, u) /\ UNCHANGED <<role, everMember>> /\ Finish(r)
  /\ UNCHANGED <<admits, inviteStatus, inviteOrg, invitee, out>>
  /\ Watch

SwitchOrgBegin(r, u, o) ==
  /\ Begin(r, "switching", None, u, o, {})
  /\ UNCHANGED <<tables, everMember, out>>
  /\ Watch

SwitchOrg(r) ==
  /\ req[r].at = "switching"
  /\ \/ IsMember(req[r].org, req[r].user) /\ Issue(r, req[r].org)
     \/ ~IsMember(req[r].org, req[r].user) /\ Finish(r)
  /\ UNCHANGED <<tables, everMember, out>>
  /\ Watch

-----------------------------------------------------------------------------
(***************************************************************************)
(* The owner's operations.                                                 *)
(***************************************************************************)
\* PATCH /org.  A rename writes back the domain it has read.
UpdateOrg(o, how) ==
  /\ Owned(o)
  /\ admits' = [admits EXCEPT ![o] = how]
  /\ UNCHANGED <<role, inviteStatus, inviteOrg, invitee, req, everMember, memberSince, out>>

\* Mutant: owners can be removed as anybody can.
AnyoneRemovable(o, u) == IsMember(o, u)

Removable(o, u) ==
  \/ role[o][u] = "MEMBER"
  \/ role[o][u] = "OWNER" /\ Cardinality({v \in Users : role[o][v] = "OWNER"}) > 1

RemoveMemberRead(r, o, u) ==
  /\ Owned(o)
  /\ Removable(o, u)
  /\ Begin(r, "removing", None, u, o, {})
  /\ UNCHANGED <<tables, everMember, out>>
  /\ Watch

\* Nothing can let the user back in but what happens from now on.
CleanRemoval(r) ==
  LET o == req[r].org
      u == req[r].user IN
  /\ ~HasPending(o, u)
  /\ \A q \in Requests \ {r} : req[q].user = u => req[q].at \in {"idle", "issued", "removing"}

RemoveMemberWrite(r) ==
  LET o == req[r].org
      u == req[r].user IN
  /\ req[r].at = "removing"
  /\ role' = [role EXCEPT ![o][u] = "none"]
  /\ out' = IF CleanRemoval(r) THEN out \cup {<<o, u>>} ELSE out
  /\ Finish(r)
  /\ UNCHANGED <<admits, inviteStatus, inviteOrg, invitee, everMember>>
  /\ Watch

CreateInviteBegin(r, o, u) ==
  /\ Owned(o)
  /\ CanAddMember(o)
  /\ Begin(r, "inviting", None, u, o, {})
  /\ out' = out \ {<<o, u>>}
  /\ UNCHANGED <<tables, everMember>>
  /\ Watch

CreateInviteCheckMember(r) ==
  /\ req[r].at = "inviting"
  /\ Check(r, ~IsMember(req[r].org, req[r].user), "inviteeOutside")
  /\ UNCHANGED <<tables, everMember, out>>
  /\ Watch

CreateInviteCheckPending(r) ==
  /\ req[r].at = "inviteeOutside"
  /\ Check(r, ~HasPending(req[r].org, req[r].user), "nonePending")
  /\ UNCHANGED <<tables, everMember, out>>
  /\ Watch

CreateInviteInsert(r) ==
  LET unused == {i \in Invites : inviteStatus[i] = "UNUSED"} IN
  /\ req[r].at = "nonePending"
  /\ unused # {}
  /\ inviteStatus' = [inviteStatus EXCEPT ![Least(unused)] = "PENDING"]
  /\ inviteOrg' = [inviteOrg EXCEPT ![Least(unused)] = req[r].org]
  /\ invitee' = [invitee EXCEPT ![Least(unused)] = req[r].user]
  /\ Finish(r)
  /\ UNCHANGED <<admits, role, everMember, out>>
  /\ Watch

RevokeInviteRead(r, i) ==
  /\ inviteStatus[i] = "PENDING"
  /\ Begin(r, "revoking", None, None, inviteOrg[i], {i})
  /\ UNCHANGED <<tables, everMember, out>>
  /\ Watch

\* UPDATE invites SET status = ? WHERE id = ?, whatever the status is by now.
SetStatus(i, to) == inviteStatus' = [inviteStatus EXCEPT ![i] = to]

RevokeInviteWrite(r) ==
  /\ req[r].at = "revoking"
  /\ SetStatus(Least(req[r].queue), "REVOKED")
  /\ Finish(r)
  /\ UNCHANGED <<admits, role, inviteOrg, invitee, everMember, out>>
  /\ Watch

-----------------------------------------------------------------------------
(***************************************************************************)
(* Login, refresh and /me accept the user's pending invites, oldest first, *)
(* then scope a token pair (/me only answers).  The claim is that of the   *)
(* user's token: tokens live long and are stored nowhere, so it may be any *)
(* org the user ever belonged to, and no other (SessionScopeWasMember).    *)
(* /me only echoes its claim, which is left out.                           *)
(***************************************************************************)
SessionBegin(r, kind, u, claim) ==
  /\ claim # None => kind = "refresh" /\ <<claim, u>> \in everMember
  /\ Begin(r, "accepting", kind, u, claim, PendingForEmail(u))
  /\ UNCHANGED <<tables, everMember, out>>
  /\ Watch

OldestInvite(r) == Least(req[r].queue)

\* The org joinAsMember is called for: the invite's, or the domain's.
Joining(r) == IF req[r].queue # {} THEN inviteOrg[OldestInvite(r)] ELSE req[r].org

AcceptCheckRole(r) ==
  /\ req[r].at = "accepting" /\ req[r].queue # {}
  /\ Proceed(r, IF IsMember(Joining(r), req[r].user) THEN "settling" ELSE "joining")
  /\ UNCHANGED <<tables, everMember, out>>
  /\ Watch

\* Mutant: an invite the policy denies is accepted without a membership.
SkipButSettle(r) ==
  IF req[r].queue # {}
    THEN Proceed(r, "settling")
    ELSE Issue(r, None)

\* A denial leaves the invite PENDING, and a user without an org without one.
Skip(r) ==
  IF req[r].queue # {}
    THEN req' = [req EXCEPT ![r].at = "accepting", ![r].queue = @ \ {OldestInvite(r)}]
    ELSE Issue(r, None)

JoinCheckPolicy(r) ==
  /\ req[r].at = "joining"
  /\ \/ CanAddMember(Joining(r)) /\ Proceed(r, "adding")
     \/ ~CanAddMember(Joining(r)) /\ Skip(r)
  /\ UNCHANGED <<tables, everMember, out>>
  /\ Watch

\* joinAsMember answers true.
Joined(r) ==
  IF req[r].queue # {}
    THEN req' = [req EXCEPT ![r].at = "settling", ![r].joined = Joining(r)]
    ELSE Issue(r, Joining(r))

\* The primary key refuses a second membership.
JoinAdd(r) ==
  LET o == Joining(r)
      u == req[r].user IN
  /\ req[r].at = "adding"
  /\ \/ ~IsMember(o, u) /\ AddMembership(o, u, "MEMBER") /\ Joined(r)
     \/ IsMember(o, u) /\ Proceed(r, "duplicate") /\ UNCHANGED <<role, everMember>>
  /\ UNCHANGED <<admits, inviteStatus, inviteOrg, invitee, out>>
  /\ Watch

\* After a failed insert: a concurrent request of the user joined first, or an error.
JoinRecheck(r) ==
  /\ req[r].at = "duplicate"
  /\ \/ IsMember(Joining(r), req[r].user) /\ Joined(r)
     \/ ~IsMember(Joining(r), req[r].user) /\ Finish(r)
  /\ UNCHANGED <<tables, everMember, out>>
  /\ Watch

AcceptSettle(r) ==
  /\ req[r].at = "settling"
  /\ SetStatus(OldestInvite(r), "ACCEPTED")
  /\ req' = [req EXCEPT ![r].at = "accepting", ![r].queue = @ \ {OldestInvite(r)}]
  /\ UNCHANGED <<admits, role, inviteOrg, invitee, everMember, out>>
  /\ Watch

Accepted(r, kind) ==
  /\ req[r].at = "accepting" /\ req[r].queue = {}
  /\ req[r].kind = kind

\* The org joined last, else the user's first.  First is by the time of joining,
\* which is left open here: it may be any of them.
LoginScope(r) ==
  LET orgs == OrgsOf(req[r].user) IN
  /\ Accepted(r, "login")
  /\ \/ req[r].joined \in orgs /\ Issue(r, req[r].joined)
     \/ req[r].joined \notin orgs /\ \E o \in orgs : Issue(r, o)
     \/ orgs = {} /\ Proceed(r, "orgless")
  /\ UNCHANGED <<tables, everMember, out>>
  /\ Watch

\* Mutant: every org that is not by invite only matches the domain.
NotInvitedOnly == {o \in Orgs : admits[o] # "invited"}

DomainOrgs == {o \in Orgs : admits[o] = "domain"}

LoginAutoJoin(r) ==
  /\ req[r].at = "orgless"
  /\ \/ /\ DomainOrgs # {}
        /\ req' = [req EXCEPT ![r].at = "joining", ![r].org = Least(DomainOrgs)]
        /\ out' = out \ {<<Least(DomainOrgs), req[r].user>>}
     \/ DomainOrgs = {} /\ Issue(r, None) /\ UNCHANGED out
  /\ UNCHANGED <<tables, everMember>>
  /\ Watch

\* Mutant: the claim of the token is believed.
ClaimBelieved(r) == req[r].org

\* The claimed org while the user is a member, else the org joined by this request.
RefreshedOrg(r) ==
  IF req[r].org # None /\ req[r].org \in OrgsOf(req[r].user) THEN req[r].org ELSE req[r].joined

RefreshScope(r) ==
  /\ Accepted(r, "refresh")
  /\ Issue(r, RefreshedOrg(r))
  /\ UNCHANGED <<tables, everMember, out>>
  /\ Watch

MeAnswer(r) ==
  /\ Accepted(r, "me")
  /\ Finish(r)
  /\ UNCHANGED <<tables, everMember, out>>
  /\ Watch

\* The pair has been sent, or the handler ends early: a statement fails, the client
\* goes away, or the replica stops.
End(r) ==
  /\ req[r].at # "idle"
  /\ Finish(r)
  /\ UNCHANGED <<tables, everMember, out>>
  /\ Watch

-----------------------------------------------------------------------------
Init ==
  /\ admits = [o \in Orgs |-> "absent"]
  /\ role = [o \in Orgs |-> [u \in Users |-> "none"]]
  /\ inviteStatus = [i \in Invites |-> "UNUSED"]
  /\ inviteOrg = [i \in Invites |-> None]
  /\ invitee = [i \in Invites |-> None]
  /\ req = [r \in Requests |-> Idle]
  /\ everMember = {}
  /\ memberSince = [r \in Requests |-> {}]
  /\ out = {}

Owner(r) ==
  \/ \E o \in Orgs, u \in Users : RemoveMemberRead(r, o, u) \/ CreateInviteBegin(r, o, u)
  \/ RemoveMemberWrite(r)
  \/ CreateInviteCheckMember(r) \/ CreateInviteCheckPending(r) \/ CreateInviteInsert(r)
  \/ \E i \in Invites : RevokeInviteRead(r, i)
  \/ RevokeInviteWrite(r)

Session(r) ==
  \/ \E u \in Users, how \in {"invited", "domain"} : CreateOrgInsert(r, u, how)
  \/ CreateOrgAddOwner(r)
  \/ \E o \in Orgs, u \in Users : SwitchOrgBegin(r, u, o)
  \/ SwitchOrg(r)
  \/ \E kind \in Kinds, u \in Users, claim \in Orgs \cup {None} : SessionBegin(r, kind, u, claim)
  \/ AcceptCheckRole(r) \/ JoinCheckPolicy(r) \/ JoinAdd(r) \/ JoinRecheck(r) \/ AcceptSettle(r)
  \/ LoginScope(r) \/ LoginAutoJoin(r) \/ RefreshScope(r) \/ MeAnswer(r)

Next ==
  \/ \E r \in Requests : Owner(r) \/ Session(r) \/ End(r)
  \/ \E o \in Orgs, how \in {"invited", "domain"} : UpdateOrg(o, how)

Spec == Init /\ [][Next]_vars

-----------------------------------------------------------------------------
(***************************************************************************)
(* Properties                                                              *)
(***************************************************************************)
\* Every variable stays in its domain, and only an existing org has members.
TypeOK ==
  /\ admits \in [Orgs -> {"absent", "invited", "domain"}]
  /\ role \in [Orgs -> [Users -> Roles]]
  /\ \A o \in Orgs : admits[o] = "absent" => Members(o) = {}
  /\ inviteStatus \in [Invites -> {"UNUSED", "PENDING", "ACCEPTED", "REVOKED"}]
  /\ inviteOrg \in [Invites -> Orgs \cup {None}]
  /\ invitee \in [Invites -> Users \cup {None}]
  /\ req \in [Requests -> Handler]
  /\ everMember \subseteq Orgs \X Users
  /\ memberSince \in [Requests -> SUBSET Orgs]
  /\ out \subseteq Orgs \X Users

\* An org never loses its owner: RemoveMember deletes the row without looking at its
\* role again, and it is still never an owner's.
OwnersStay ==
  [][\A o \in Orgs, u \in Users : role[o][u] = "OWNER" => role'[o][u] = "OWNER"]_vars

\* An invite is marked ACCEPTED only for a user who got in: a denial by the policy
\* and a failed insert leave it PENDING for a later session.
AcceptedMeansJoined ==
  \A i \in Invites : inviteStatus[i] = "ACCEPTED" => <<inviteOrg[i], invitee[i]>> \in everMember

\* A token pair is scoped to an org only if the user belonged to it at some time since
\* the request began: a refresh that begins after a removal is downgraded.
SessionScopeWasMember ==
  \A r \in Requests :
    req[r].at = "issued" /\ req[r].org # None => req[r].org \in memberSince[r]

\* The policy is asked before the insert, not with it: the requests that passed it at
\* the same time, or an owner's own membership, can exceed it by one each.  That is
\* more than services/org.go:166-169 allows: the second check on the login path, it
\* says, keeps an invite that slipped in before the org filled up from overshooting.
\* It does so one session at a time; two that are both in "adding" exceed MemberCap.
MembersWithinCapAndRaces ==
  \A o \in Orgs : Cardinality(Members(o)) < MemberCap + Cardinality(Requests)

\* A user removed while nothing was under way for them stays out until they are
\* invited again or join by domain: no session accepts an old invite twice.
RemovalSticks == \A p \in out : ~IsMember(p[1], p[2])

\* What OrgService.RevokeInvite says, that it revokes a pending invite: an invite
\* leaves PENDING once, for good.
InvitesSettleOnce ==
  [][\A i \in Invites :
       inviteStatus[i] \in {"ACCEPTED", "REVOKED"} => inviteStatus'[i] = inviteStatus[i]]_vars
=============================================================================
