--------------------------- MODULE MembershipProofs ---------------------------
(***************************************************************************)
(* Proofs about Membership, for any number of users, orgs, invites and     *)
(* concurrent requests.                                                    *)
(***************************************************************************)
EXTENDS Membership, FiniteSetTheorems, WellFoundedInduction, TLAPS

-----------------------------------------------------------------------------
(***************************************************************************)
(* Identifiers are naturals, so a nonempty set of them has a least one     *)
(***************************************************************************)
LEMMA LeastOf ==
  ASSUME NEW S, S \subseteq Nat, S # {}
  PROVE  Least(S) \in S
<1> DEFINE below(n) == 1 .. n
           T == {below(n) : n \in S}
<1>1. T \subseteq FiniteSubsetsOf(Nat) /\ T # {}
  <2>1. ASSUME NEW n \in S
        PROVE  below(n) \in FiniteSubsetsOf(Nat)
    <3>1. IsFiniteSet(1 .. n)
      BY FS_Interval
    <3> QED BY <3>1 DEF FiniteSubsetsOf
  <2> QED BY <2>1
<1>2. PICK X \in T : \A Y \in T : ~(<<Y, X>> \in StrictSubsetOrdering(Nat))
  <2> HIDE DEF T
  <2> QED BY <1>1, FS_StrictSubsetOrderingWellFounded, WFMin
<1>3. PICK x \in S : X = below(x)
  OBVIOUS
<1>4. ASSUME NEW y \in S, y < x
      PROVE  FALSE
  <2>1. below(y) \in T /\ below(y) \in SUBSET Nat /\ below(x) \in SUBSET Nat
    BY <1>3
  <2>2. below(y) \subseteq below(x) /\ below(y) # below(x)
    BY <1>4
  <2> QED BY <1>2, <1>3, <2>1, <2>2 DEF StrictSubsetOrdering
<1>5. \A y \in S : x <= y
  BY <1>4
<1> QED BY <1>5 DEF Least

\* There is a least invite, and a least org, of any that there are.
LEMMA LeastInvite ==
  /\ \A S : S \subseteq Invites /\ S # {} => Least(S) \in S
  /\ \A S : S \subseteq Orgs /\ S # {} => Least(S) \in S
BY LeastOf, MembershipAssumption

-----------------------------------------------------------------------------
(***************************************************************************)
(* What a step does to the request records                                 *)
(***************************************************************************)
OnlyChanges(r) == \A q \in Requests \ {r} : req'[q] = req[q]

\* r goes on to another step for the same user, org and kind of request.
Goes(r, at) ==
  /\ req'[r].at = at
  /\ req'[r].kind = req[r].kind /\ req'[r].user = req[r].user /\ req'[r].org = req[r].org

\* A request goes on, ends, begins or issues a token pair in its own record, and
\* every record stays one.
LEMMA HandlerSteps ==
  ASSUME req \in [Requests -> Handler], NEW r \in Requests
  PROVE  /\ Idle \in Handler
         /\ Finish(r) =>
              OnlyChanges(r) /\ req'[r] = Idle /\ req' \in [Requests -> Handler]
         /\ \A at \in Steps : Proceed(r, at) =>
              /\ OnlyChanges(r) /\ req' \in [Requests -> Handler]
              /\ Goes(r, at) /\ req'[r].queue = req[r].queue /\ req'[r].joined = req[r].joined
         /\ \A at \in Steps, kind \in Kinds \cup {None}, u \in Users \cup {None},
               o \in Orgs \cup {None}, queue \in SUBSET Invites :
              Begin(r, at, kind, u, o, queue) =>
                /\ OnlyChanges(r) /\ req' \in [Requests -> Handler]
                /\ req[r].at = "idle"
                /\ req'[r] = [at |-> at, kind |-> kind, user |-> u, org |-> o,
                              queue |-> queue, joined |-> None]
         /\ \A o \in Orgs \cup {None} : Issue(r, o) =>
              /\ OnlyChanges(r) /\ req' \in [Requests -> Handler]
              /\ req'[r] = [at |-> "issued", kind |-> None, user |-> req[r].user, org |-> o,
                            queue |-> {}, joined |-> None]
<1>0. req[r] \in Handler
  OBVIOUS
<1>1. Idle \in Handler
  BY MembershipAssumption DEF Idle, Handler, Steps
<1>2. Finish(r) => OnlyChanges(r) /\ req'[r] = Idle /\ req' \in [Requests -> Handler]
  BY <1>1 DEF Finish, OnlyChanges
<1>3. ASSUME NEW at \in Steps, Proceed(r, at)
      PROVE  /\ OnlyChanges(r) /\ req' \in [Requests -> Handler]
             /\ Goes(r, at) /\ req'[r].queue = req[r].queue /\ req'[r].joined = req[r].joined
  <2>1. req' = [req EXCEPT ![r] = [req[r] EXCEPT !.at = at]]
    BY <1>3 DEF Proceed
  <2>2. [req[r] EXCEPT !.at = at] \in Handler
    BY <1>0 DEF Handler
  <2>3. OnlyChanges(r) /\ req' \in [Requests -> Handler]
    BY <2>1, <2>2 DEF OnlyChanges
  <2> QED BY <1>0, <2>1, <2>3 DEF Goes, Handler
<1>4. ASSUME NEW at \in Steps, NEW kind \in Kinds \cup {None}, NEW u \in Users \cup {None},
             NEW o \in Orgs \cup {None}, NEW queue \in SUBSET Invites,
             Begin(r, at, kind, u, o, queue)
      PROVE  /\ OnlyChanges(r) /\ req' \in [Requests -> Handler]
             /\ req[r].at = "idle"
             /\ req'[r] = [at |-> at, kind |-> kind, user |-> u, org |-> o,
                           queue |-> queue, joined |-> None]
  <2>1. [at |-> at, kind |-> kind, user |-> u, org |-> o,
         queue |-> queue, joined |-> None] \in Handler
    BY DEF Handler
  <2> QED BY <1>4, <2>1 DEF Begin, OnlyChanges
<1>5. ASSUME NEW o \in Orgs \cup {None}, Issue(r, o)
      PROVE  /\ OnlyChanges(r) /\ req' \in [Requests -> Handler]
             /\ req'[r] = [at |-> "issued", kind |-> None, user |-> req[r].user, org |-> o,
                           queue |-> {}, joined |-> None]
  <2> DEFINE pair == [at |-> "issued", kind |-> None, user |-> req[r].user, org |-> o,
                      queue |-> {}, joined |-> None]
  <2>1. pair \in Handler
    BY <1>0 DEF Handler, Steps
  <2>3. req' = [req EXCEPT ![r] = pair]
    BY <1>5 DEF Issue
  <2> QED BY <2>1, <2>3 DEF OnlyChanges
<1> QED BY <1>1, <1>2, <1>3, <1>4, <1>5

-----------------------------------------------------------------------------
(***************************************************************************)
(* What requests rely on: orgs and invites stay once they are there, so    *)
(* what a request has read about them is still true.                       *)
(***************************************************************************)
Existing(o) == o \in Orgs /\ admits[o] # "absent"

InviteInv ==
  \A i \in Invites : inviteStatus[i] # "UNUSED" =>
    Existing(inviteOrg[i]) /\ invitee[i] \in Users

PastInv ==
  /\ \A o \in Orgs, u \in Users : <<o, u>> \in everMember => Existing(o)
  /\ \A o \in Orgs, u \in Users : IsMember(o, u) => <<o, u>> \in everMember

JoinSteps == {"joining", "adding", "duplicate"}

AcceptSteps == JoinSteps \cup {"accepting", "settling"}

\* What r has read, by the step it stands at.
Reads(r) ==
  /\ req[r].at \notin {"idle", "revoking"} => req[r].user \in Users
  /\ req[r].at = "orgInserted" \/ req[r].at \in OwnerSteps => Existing(req[r].org)
  /\ req[r].at = "revoking" => req[r].queue # {}
  /\ \A i \in req[r].queue : inviteStatus[i] # "UNUSED"
  /\ req[r].at \in AcceptSteps => \A i \in req[r].queue : invitee[i] = req[r].user
  /\ req[r].at \in JoinSteps /\ req[r].queue = {} => Existing(req[r].org)
  /\ req[r].at = "settling" => req[r].queue # {}
  /\ req[r].at = "orgless" => req[r].queue = {}

ReadsInv == \A r \in Requests : Reads(r)

BaseInv == TypeOK /\ InviteInv /\ PastInv /\ ReadsInv

\* The invite a session is at, and the org it is about to join.
LEMMA AtInvite ==
  ASSUME BaseInv, NEW r \in Requests
  PROVE  /\ req[r].queue # {} =>
              /\ OldestInvite(r) \in req[r].queue
              /\ OldestInvite(r) \in Invites
              /\ inviteStatus[OldestInvite(r)] # "UNUSED"
              /\ Existing(inviteOrg[OldestInvite(r)])
         /\ req[r].at \in JoinSteps =>
              Existing(Joining(r)) /\ req[r].user \in Users
<1>1. req[r] \in Handler /\ req[r].queue \subseteq Invites
  BY DEF BaseInv, TypeOK, Handler
<1>2. ASSUME req[r].queue # {}
      PROVE  /\ OldestInvite(r) \in req[r].queue
             /\ OldestInvite(r) \in Invites
             /\ inviteStatus[OldestInvite(r)] # "UNUSED"
             /\ Existing(inviteOrg[OldestInvite(r)])
  <2>1. OldestInvite(r) \in req[r].queue
    BY <1>1, <1>2, LeastInvite DEF OldestInvite
  <2> QED BY <1>1, <2>1 DEF BaseInv, InviteInv, ReadsInv, Reads
<1>3. ASSUME req[r].at \in JoinSteps
      PROVE  Existing(Joining(r)) /\ req[r].user \in Users
  BY <1>2, <1>3 DEF Joining, JoinSteps, BaseInv, ReadsInv, Reads
<1> QED BY <1>2, <1>3

\* A step leaves the tables what they are meant to be when orgs stay, an invite that
\* has been sent keeps its org and its invitee, and memberships are of users in orgs.
TablesKeep ==
  /\ admits' \in [Orgs -> {"absent", "invited", "domain"}]
  /\ \A o \in Orgs : Existing(o) => Existing(o)'
  /\ role' \in [Orgs -> [Users -> Roles]]
  /\ \A o \in Orgs, u \in Users : IsMember(o, u)' => IsMember(o, u) \/ Existing(o)
  /\ \A o \in Orgs, u \in Users : IsMember(o, u)' /\ ~IsMember(o, u) => <<o, u>> \in everMember'
  /\ everMember' \subseteq Orgs \X Users
  /\ everMember \subseteq everMember'
  /\ \A o \in Orgs, u \in Users : <<o, u>> \in everMember' => <<o, u>> \in everMember \/ Existing(o)
  /\ inviteStatus' \in [Invites -> {"UNUSED", "PENDING", "ACCEPTED", "REVOKED"}]
  /\ inviteOrg' \in [Invites -> Orgs \cup {None}]
  /\ invitee' \in [Invites -> Users \cup {None}]
  /\ \A i \in Invites : inviteStatus[i] # "UNUSED" =>
       inviteStatus'[i] # "UNUSED" /\ inviteOrg'[i] = inviteOrg[i] /\ invitee'[i] = invitee[i]
  /\ \A i \in Invites : inviteStatus[i] = "UNUSED" /\ inviteStatus'[i] # "UNUSED" =>
       Existing(inviteOrg'[i]) /\ invitee'[i] \in Users
  /\ out' \subseteq Orgs \X Users

\* A step that writes no table keeps them.
LEMMA Quiet ==
  ASSUME BaseInv, UNCHANGED <<tables, everMember>>, out' \subseteq Orgs \X Users
  PROVE  TablesKeep
BY DEF BaseInv, TypeOK, TablesKeep, tables, Existing, IsMember

\* A membership is added to an existing org, and no other is touched.
LEMMA MembershipAdded ==
  ASSUME BaseInv, NEW o \in Orgs, NEW u \in Users, NEW as \in {"MEMBER", "OWNER"},
         AddMembership(o, u, as)
  PROVE  /\ role' \in [Orgs -> [Users -> Roles]]
         /\ role'[o][u] = as
         /\ \A p \in Orgs, v \in Users : p # o \/ v # u => role'[p][v] = role[p][v]
         /\ everMember' \subseteq Orgs \X Users
         /\ everMember \subseteq everMember' /\ <<o, u>> \in everMember'
         /\ \A p \in Orgs, v \in Users :
              <<p, v>> \in everMember' => <<p, v>> \in everMember \/ (p = o /\ v = u)
<1>1. role' = [role EXCEPT ![o][u] = as] /\ everMember' = everMember \cup {<<o, u>>}
  BY DEF AddMembership
<1>2. role \in [Orgs -> [Users -> Roles]] /\ everMember \subseteq Orgs \X Users
  BY DEF BaseInv, TypeOK
<1>3. /\ role' \in [Orgs -> [Users -> Roles]]
      /\ role'[o][u] = as
      /\ \A p \in Orgs, v \in Users : p # o \/ v # u => role'[p][v] = role[p][v]
  BY <1>1, <1>2 DEF Roles
<1>4. /\ everMember' \subseteq Orgs \X Users
      /\ everMember \subseteq everMember' /\ <<o, u>> \in everMember'
      /\ \A p \in Orgs, v \in Users :
           <<p, v>> \in everMember' => <<p, v>> \in everMember \/ (p = o /\ v = u)
  BY <1>1, <1>2
<1> QED BY <1>3, <1>4

\* Adding a member or an owner to an org that is there keeps the tables.
LEMMA AddingTables ==
  ASSUME BaseInv, NEW o \in Orgs, NEW u \in Users, NEW as \in {"MEMBER", "OWNER"},
         Existing(o), AddMembership(o, u, as),
         UNCHANGED <<admits, inviteStatus, inviteOrg, invitee>>, out' \subseteq Orgs \X Users
  PROVE  TablesKeep
<1>1. /\ role' \in [Orgs -> [Users -> Roles]]
      /\ \A p \in Orgs, v \in Users : p # o \/ v # u => role'[p][v] = role[p][v]
      /\ everMember' \subseteq Orgs \X Users
      /\ everMember \subseteq everMember' /\ <<o, u>> \in everMember'
      /\ \A p \in Orgs, v \in Users :
           <<p, v>> \in everMember' => <<p, v>> \in everMember \/ (p = o /\ v = u)
  BY MembershipAdded, ZenonT(60)
<1>2. /\ \A p \in Orgs : Existing(p) => Existing(p)'
      /\ \A p \in Orgs, v \in Users : IsMember(p, v)' => IsMember(p, v) \/ Existing(p)
  BY <1>1 DEF Existing, IsMember
<1>3. ASSUME NEW p \in Orgs, NEW v \in Users, IsMember(p, v)', ~IsMember(p, v)
      PROVE  <<p, v>> \in everMember'
  BY <1>1, <1>3 DEF IsMember
<1>4. ASSUME NEW p \in Orgs, NEW v \in Users, <<p, v>> \in everMember'
      PROVE  <<p, v>> \in everMember \/ Existing(p)
  BY <1>1, <1>4
<1>5. /\ admits' \in [Orgs -> {"absent", "invited", "domain"}]
      /\ inviteStatus' \in [Invites -> {"UNUSED", "PENDING", "ACCEPTED", "REVOKED"}]
      /\ inviteOrg' \in [Invites -> Orgs \cup {None}]
      /\ invitee' \in [Invites -> Users \cup {None}]
  BY DEF BaseInv, TypeOK
<1> QED
  BY <1>1, <1>2, <1>3, <1>4, <1>5 DEF TablesKeep

\* Both statements of CreateOrg keep the tables.
LEMMA OrgTables ==
  ASSUME BaseInv, NEW r \in Requests, NEW u \in Users, NEW how \in {"invited", "domain"}
  PROVE  /\ CreateOrgInsert(r, u, how) =>
              TablesKeep /\ Least({o \in Orgs : admits[o] = "absent"}) \in Orgs
         /\ CreateOrgAddOwner(r) => TablesKeep
         /\ \A o \in Orgs : UpdateOrg(o, how) => TablesKeep
<1>1. ASSUME CreateOrgInsert(r, u, how)
      PROVE  TablesKeep /\ Least({o \in Orgs : admits[o] = "absent"}) \in Orgs
  <2> DEFINE absent == {o \in Orgs : admits[o] = "absent"}
  <2>1. Least(absent) \in absent
    BY <1>1, LeastInvite DEF CreateOrgInsert
  <2> QED BY <1>1, <2>1 DEF CreateOrgInsert, BaseInv, TypeOK, TablesKeep, Existing, IsMember
<1>2. ASSUME CreateOrgAddOwner(r)
      PROVE  TablesKeep
  <2>1. Existing(req[r].org) /\ req[r].user \in Users
    BY <1>2 DEF CreateOrgAddOwner, BaseInv, ReadsInv, Reads
  <2>2. UNCHANGED <<admits, inviteStatus, inviteOrg, invitee>> /\ out' \subseteq Orgs \X Users
    BY <1>2 DEF CreateOrgAddOwner, BaseInv, TypeOK
  <2>3. CASE AddMembership(req[r].org, req[r].user, "OWNER")
    BY <2>1, <2>2, <2>3, AddingTables DEF Existing
  <2>4. CASE UNCHANGED <<role, everMember>>
    BY <2>2, <2>4, Quiet DEF tables
  <2> QED BY <1>2, <2>3, <2>4 DEF CreateOrgAddOwner
<1>3. ASSUME NEW o \in Orgs, UpdateOrg(o, how)
      PROVE  TablesKeep
  BY <1>3 DEF UpdateOrg, BaseInv, TypeOK, TablesKeep, Existing, IsMember
<1> QED BY <1>1, <1>2, <1>3

\* What an owner's requests write keeps the tables.
LEMMA OwnerTables ==
  ASSUME BaseInv, NEW r \in Requests
  PROVE  /\ RemoveMemberWrite(r) => TablesKeep
         /\ CreateInviteInsert(r) =>
              TablesKeep /\ \A i \in Invites : inviteStatus'[i] = "UNUSED" => inviteStatus[i] = "UNUSED"
         /\ RevokeInviteWrite(r) => TablesKeep
<1>0. req[r] \in Handler /\ Reads(r)
  BY DEF BaseInv, TypeOK, ReadsInv
<1>1. ASSUME RemoveMemberWrite(r)
      PROVE  TablesKeep
  <2>1. req[r].org \in Orgs /\ req[r].user \in Users
    BY <1>0, <1>1 DEF RemoveMemberWrite, Reads, OwnerSteps, Existing
  <2>2. role' = [role EXCEPT ![req[r].org][req[r].user] = "none"]
    BY <1>1 DEF RemoveMemberWrite
  <2>3. /\ role' \in [Orgs -> [Users -> Roles]]
        /\ \A o \in Orgs, u \in Users : IsMember(o, u)' => IsMember(o, u)
    BY <2>1, <2>2 DEF BaseInv, TypeOK, Roles, IsMember
  <2>4. out' \subseteq Orgs \X Users
    BY <1>1, <2>1 DEF RemoveMemberWrite, BaseInv, TypeOK
  <2>5. UNCHANGED <<admits, inviteStatus, inviteOrg, invitee, everMember>>
    BY <1>1 DEF RemoveMemberWrite
  <2> QED BY <2>3, <2>4, <2>5 DEF BaseInv, TypeOK, TablesKeep, Existing
<1>2. ASSUME CreateInviteInsert(r)
      PROVE  TablesKeep /\ \A i \in Invites : inviteStatus'[i] = "UNUSED" => inviteStatus[i] = "UNUSED"
  <2> DEFINE unused == {i \in Invites : inviteStatus[i] = "UNUSED"}
  <2>1. Least(unused) \in unused
    BY <1>2, LeastInvite DEF CreateInviteInsert
  <2>2. Existing(req[r].org) /\ req[r].user \in Users
    BY <1>0, <1>2 DEF CreateInviteInsert, Reads, OwnerSteps
  <2>3. /\ inviteStatus' = [inviteStatus EXCEPT ![Least(unused)] = "PENDING"]
        /\ inviteOrg' = [inviteOrg EXCEPT ![Least(unused)] = req[r].org]
        /\ invitee' = [invitee EXCEPT ![Least(unused)] = req[r].user]
        /\ UNCHANGED <<admits, role, everMember, out>>
    BY <1>2 DEF CreateInviteInsert
  <2> HIDE DEF unused
  <2>4. Least(unused) \in Invites /\ inviteStatus[Least(unused)] = "UNUSED"
    BY <2>1 DEF unused
  <2> QED BY <2>2, <2>3, <2>4 DEF BaseInv, TypeOK, TablesKeep, Existing, IsMember
<1>3. ASSUME RevokeInviteWrite(r)
      PROVE  TablesKeep
  <2>1. Least(req[r].queue) \in Invites /\ inviteStatus[Least(req[r].queue)] # "UNUSED"
    BY <1>0, <1>3, AtInvite DEF RevokeInviteWrite, Reads, OldestInvite
  <2>2. /\ inviteStatus' = [inviteStatus EXCEPT ![Least(req[r].queue)] = "REVOKED"]
        /\ UNCHANGED <<admits, role, inviteOrg, invitee, everMember, out>>
    BY <1>3 DEF RevokeInviteWrite, SetStatus
  <2> QED BY <2>1, <2>2 DEF BaseInv, TypeOK, TablesKeep, Existing, IsMember
<1> QED BY <1>1, <1>2, <1>3

\* What accepting an invite and logging in write keeps the tables.
LEMMA SessionTables ==
  ASSUME BaseInv, NEW r \in Requests
  PROVE  /\ JoinAdd(r) => TablesKeep
         /\ AcceptSettle(r) => TablesKeep
         /\ LoginAutoJoin(r) => TablesKeep
<1>1. ASSUME JoinAdd(r)
      PROVE  TablesKeep
  <2>1. Existing(Joining(r)) /\ req[r].user \in Users
    BY <1>1, AtInvite DEF JoinAdd, JoinSteps
  <2>2. UNCHANGED <<admits, inviteStatus, inviteOrg, invitee>> /\ out' \subseteq Orgs \X Users
    BY <1>1 DEF JoinAdd, BaseInv, TypeOK
  <2>3. CASE AddMembership(Joining(r), req[r].user, "MEMBER")
    BY <2>1, <2>2, <2>3, AddingTables DEF Existing
  <2>4. CASE UNCHANGED <<role, everMember>>
    BY <2>2, <2>4, Quiet DEF tables
  <2> QED BY <1>1, <2>3, <2>4 DEF JoinAdd
<1>2. ASSUME AcceptSettle(r)
      PROVE  TablesKeep
  <2>1. OldestInvite(r) \in Invites /\ inviteStatus[OldestInvite(r)] # "UNUSED"
    BY <1>2, AtInvite DEF AcceptSettle, BaseInv, ReadsInv, Reads
  <2>2. /\ inviteStatus' = [inviteStatus EXCEPT ![OldestInvite(r)] = "ACCEPTED"]
        /\ UNCHANGED <<admits, role, inviteOrg, invitee, everMember, out>>
    BY <1>2 DEF AcceptSettle, SetStatus
  <2> QED BY <2>1, <2>2 DEF BaseInv, TypeOK, TablesKeep, Existing, IsMember
<1>3. ASSUME LoginAutoJoin(r)
      PROVE  TablesKeep
  <2>1. UNCHANGED <<tables, everMember>> /\ out' \subseteq out
    BY <1>3 DEF LoginAutoJoin
  <2>2. out' \subseteq Orgs \X Users
    BY <2>1 DEF BaseInv, TypeOK
  <2> QED BY <2>1, <2>2, Quiet
<1> QED BY <1>1, <1>2, <1>3

-----------------------------------------------------------------------------
(***************************************************************************)
(* A request's step keeps the invariant when the request still relies on   *)
(* what is true.                                                           *)
(***************************************************************************)
LEMMA WatchType ==
  ASSUME memberSince \in [Requests -> SUBSET Orgs], Watch
  PROVE  memberSince' \in [Requests -> SUBSET Orgs]
<1>1. \A r \in Requests : memberSince'[r] \subseteq Orgs
  BY DEF Watch
<1> QED BY <1>1 DEF Watch

\* A step of one request that keeps the tables, and what it has read of them, keeps all.
LEMMA StepKeeps ==
  ASSUME BaseInv, TablesKeep, NEW r \in Requests, OnlyChanges(r),
         req' \in [Requests -> Handler], memberSince' \in [Requests -> SUBSET Orgs],
         Reads(r)'
  PROVE  BaseInv'
<1>1. TypeOK'
  <2>1. ASSUME NEW o \in Orgs, admits'[o] = "absent"
        PROVE  Members(o)' = {}
    <3>1. ~Existing(o) /\ admits[o] = "absent"
      BY <2>1 DEF TablesKeep, Existing, BaseInv, TypeOK
    <3>2. \A u \in Users : ~IsMember(o, u)
      BY <3>1 DEF BaseInv, TypeOK, Members
    <3>3. \A u \in Users : ~IsMember(o, u)'
      BY <3>1, <3>2 DEF TablesKeep
    <3> QED BY <3>3 DEF Members
  <2> QED BY <2>1 DEF TablesKeep, TypeOK
<1>2. InviteInv'
  <2>1. ASSUME NEW i \in Invites, inviteStatus'[i] # "UNUSED"
        PROVE  Existing(inviteOrg[i])' /\ invitee'[i] \in Users
    <3>1. CASE inviteStatus[i] = "UNUSED"
      BY <2>1, <3>1 DEF TablesKeep, Existing
    <3>2. CASE inviteStatus[i] # "UNUSED"
      BY <2>1, <3>2 DEF TablesKeep, Existing, BaseInv, InviteInv
    <3> QED BY <3>1, <3>2
  <2> QED BY <2>1 DEF InviteInv
<1>3. PastInv'
  <2>1. ASSUME NEW o \in Orgs, NEW u \in Users, <<o, u>> \in everMember'
        PROVE  Existing(o)'
    <3>1. <<o, u>> \in everMember \/ Existing(o)
      BY <2>1 DEF TablesKeep
    <3>2. Existing(o)
      BY <3>1 DEF BaseInv, PastInv
    <3> QED BY <3>2 DEF TablesKeep
  <2>2. ASSUME NEW o \in Orgs, NEW u \in Users, IsMember(o, u)'
        PROVE  <<o, u>> \in everMember'
    <3>1. CASE IsMember(o, u)
      <4>1. <<o, u>> \in everMember
        BY <3>1 DEF BaseInv, PastInv
      <4> QED BY <4>1 DEF TablesKeep
    <3>2. CASE ~IsMember(o, u)
      BY <2>2, <3>2 DEF TablesKeep
    <3> QED BY <3>1, <3>2
  <2> QED BY <2>1, <2>2 DEF PastInv
<1>4. ReadsInv'
  <2>1. ASSUME NEW q \in Requests \ {r}
        PROVE  Reads(q)'
    <3>1. Reads(q) /\ req'[q] = req[q] /\ req[q] \in Handler
      BY DEF BaseInv, ReadsInv, OnlyChanges, TypeOK
    <3>2. req[q].queue \subseteq Invites
      BY <3>1 DEF Handler
    <3>3. \A i \in req[q].queue : inviteStatus'[i] # "UNUSED" /\ invitee'[i] = invitee[i]
      BY <3>1, <3>2 DEF Reads, TablesKeep
    <3>4. Existing(req[q].org) => admits'[req[q].org] # "absent"
      BY DEF TablesKeep, Existing
    <3> QED BY <3>1, <3>3, <3>4 DEF Reads, Existing
  <2> QED BY <2>1 DEF ReadsInv
<1> QED BY <1>1, <1>2, <1>3, <1>4 DEF BaseInv

\* r's record is a record, the only one to change, and what it says is true.
Reaches(r) == OnlyChanges(r) /\ req' \in [Requests -> Handler] /\ Reads(r)'

\* A request that ends has read nothing.
LEMMA Ends ==
  ASSUME BaseInv, NEW r \in Requests, Finish(r)
  PROVE  Reaches(r)
<1>1. OnlyChanges(r) /\ req'[r] = Idle /\ req' \in [Requests -> Handler]
  BY HandlerSteps DEF BaseInv, TypeOK
<1> QED BY <1>1 DEF Reaches, Reads, Idle, OwnerSteps, AcceptSteps, JoinSteps

\* A request that issues a session names an org of the tables, or none.
LEMMA Issues ==
  ASSUME BaseInv, NEW r \in Requests, NEW o \in Orgs \cup {None}, Issue(r, o),
         req[r].at \notin {"idle", "revoking"}
  PROVE  Reaches(r)
<1>1. /\ OnlyChanges(r) /\ req' \in [Requests -> Handler]
      /\ req'[r] = [at |-> "issued", kind |-> None, user |-> req[r].user, org |-> o,
                    queue |-> {}, joined |-> None]
  BY HandlerSteps DEF BaseInv, TypeOK
<1>2. req[r].user \in Users
  BY DEF BaseInv, ReadsInv, Reads
<1> QED BY <1>1, <1>2 DEF Reaches, Reads, OwnerSteps, AcceptSteps, JoinSteps

\* What Reads asks of r's next step beyond what it asked of the last one.
Ready(r, at) ==
  /\ req[r].at \notin {"idle", "revoking"}
  /\ at \in Steps \ {"orgInserted", "revoking"}
  /\ at \in OwnerSteps => req[r].at \in OwnerSteps
  /\ at \in AcceptSteps => req[r].at \in AcceptSteps \/ req[r].queue = {}
  /\ at \in JoinSteps /\ req[r].queue = {} => Existing(req[r].org)
  /\ at = "settling" => req[r].queue # {}
  /\ at = "orgless" => req[r].queue = {}

\* A request that goes on to its next statement keeps what it has read.
LEMMA Proceeds ==
  ASSUME BaseInv, TablesKeep, NEW r \in Requests, NEW at, Ready(r, at), Proceed(r, at)
  PROVE  Reaches(r)
<1>1. at \in Steps
  BY DEF Ready
<1>2. /\ OnlyChanges(r) /\ req' \in [Requests -> Handler]
      /\ Goes(r, at) /\ req'[r].queue = req[r].queue
  BY <1>1, HandlerSteps DEF BaseInv, TypeOK
<1>3. Reads(r) /\ req[r] \in Handler /\ req[r].queue \subseteq Invites
  BY DEF BaseInv, ReadsInv, TypeOK, Handler
<1>4. \A i \in req[r].queue : inviteStatus'[i] # "UNUSED" /\ invitee'[i] = invitee[i]
  BY <1>3 DEF Reads, TablesKeep
<1>5. Existing(req[r].org) => req[r].org \in Orgs /\ admits'[req[r].org] # "absent"
  BY DEF TablesKeep, Existing
<1>6. Reads(r)'
  BY <1>2, <1>3, <1>4, <1>5 DEF Reads, Ready, Goes, Existing
<1> QED BY <1>2, <1>6 DEF Reaches

\* The session's loop goes on to the next invite.
LEMMA NextInvite ==
  ASSUME BaseInv, TablesKeep, NEW r \in Requests, req[r].at \in AcceptSteps,
         req' = [req EXCEPT ![r].at = "accepting", ![r].queue = @ \ {OldestInvite(r)}]
  PROVE  /\ Reaches(r)
         /\ req'[r].at = "accepting" /\ req'[r].kind = req[r].kind /\ req'[r].user = req[r].user
         /\ req'[r].joined = req[r].joined /\ req'[r].queue \subseteq req[r].queue
<1>1. Reads(r) /\ req[r] \in Handler /\ req[r].queue \subseteq Invites
  BY DEF BaseInv, ReadsInv, TypeOK, Handler
<1>2. req \in [Requests -> Handler]
  BY DEF BaseInv, TypeOK
<1> DEFINE rec == [at |-> "accepting", kind |-> req[r].kind, user |-> req[r].user,
                   org |-> req[r].org, queue |-> req[r].queue \ {OldestInvite(r)},
                   joined |-> req[r].joined]
<1>3. rec \in Handler
  BY <1>1 DEF Handler, Steps
<1>4. req'[r] = rec /\ OnlyChanges(r) /\ req' \in [Requests -> Handler]
  BY <1>1, <1>2, <1>3 DEF OnlyChanges, Handler
<1>5. \A i \in req[r].queue : inviteStatus'[i] # "UNUSED" /\ invitee'[i] = invitee[i]
  BY <1>1 DEF Reads, TablesKeep
<1>6. Reads(r)'
  BY <1>1, <1>4, <1>5 DEF Reads, OwnerSteps, AcceptSteps, JoinSteps
<1> QED BY <1>4, <1>6 DEF Reaches

-----------------------------------------------------------------------------
(***************************************************************************)
(* Every step of a request, one by one                                     *)
(***************************************************************************)
\* An org with an owner is there.
LEMMA OwnedExists ==
  ASSUME BaseInv, NEW o \in Orgs, Owned(o)
  PROVE  Existing(o)
<1>1. PICK u \in Users : role[o][u] = "OWNER"
  BY DEF Owned
<1>2. <<o, u>> \in everMember
  BY <1>1 DEF BaseInv, PastInv, IsMember
<1> QED BY <1>2 DEF BaseInv, PastInv

\* A step that writes no table, of any request.
LEMMA QuietStep ==
  ASSUME BaseInv, UNCHANGED <<tables, everMember, out>>
  PROVE  TablesKeep
BY Quiet DEF BaseInv, TypeOK

\* The statements of the owner's requests keep the tables and what the request has read.
LEMMA OwnerReaches ==
  ASSUME BaseInv, NEW r \in Requests, Owner(r)
  PROVE  TablesKeep /\ Reaches(r) /\ Watch
<1>1. ASSUME NEW o \in Orgs, NEW u \in Users, RemoveMemberRead(r, o, u)
      PROVE  TablesKeep /\ Reaches(r) /\ Watch
  <2>1. TablesKeep /\ Existing(o)
    BY <1>1, QuietStep, OwnedExists DEF RemoveMemberRead
  <2>2. Begin(r, "removing", None, u, o, {})
    BY <1>1 DEF RemoveMemberRead
  <2>3. /\ OnlyChanges(r) /\ req' \in [Requests -> Handler]
        /\ req'[r] = [at |-> "removing", kind |-> None, user |-> u, org |-> o,
                      queue |-> {}, joined |-> None]
    BY <2>2 DEF Begin, OnlyChanges, Handler, Steps, BaseInv, TypeOK
  <2>4. Reads(r)'
    BY <2>1, <2>3 DEF Reads, OwnerSteps, AcceptSteps, JoinSteps, TablesKeep, Existing
  <2> QED BY <1>1, <2>1, <2>3, <2>4 DEF Reaches, RemoveMemberRead
<1>2. ASSUME NEW o \in Orgs, NEW u \in Users, CreateInviteBegin(r, o, u)
      PROVE  TablesKeep /\ Reaches(r) /\ Watch
  <2>0. out' \subseteq Orgs \X Users
    BY <1>2 DEF CreateInviteBegin, BaseInv, TypeOK
  <2>1. TablesKeep /\ Existing(o)
    BY <1>2, <2>0, Quiet, OwnedExists DEF CreateInviteBegin
  <2>2. Begin(r, "inviting", None, u, o, {})
    BY <1>2 DEF CreateInviteBegin
  <2>3. /\ OnlyChanges(r) /\ req' \in [Requests -> Handler]
        /\ req'[r] = [at |-> "inviting", kind |-> None, user |-> u, org |-> o,
                      queue |-> {}, joined |-> None]
    BY <2>2 DEF Begin, OnlyChanges, Handler, Steps, BaseInv, TypeOK
  <2>4. Reads(r)'
    BY <2>1, <2>3 DEF Reads, OwnerSteps, AcceptSteps, JoinSteps, TablesKeep, Existing
  <2> QED BY <1>2, <2>1, <2>3, <2>4 DEF Reaches, CreateInviteBegin
<1>3. CASE RemoveMemberWrite(r)
  BY <1>3, OwnerTables, Ends DEF RemoveMemberWrite
<1>4. CASE CreateInviteCheckMember(r)
  <2>1. TablesKeep /\ Ready(r, "inviteeOutside")
    BY <1>4, QuietStep DEF CreateInviteCheckMember, Ready, Steps, OwnerSteps, AcceptSteps, JoinSteps
  <2> QED BY <1>4, <2>1, Proceeds, Ends DEF CreateInviteCheckMember, Check
<1>5. CASE CreateInviteCheckPending(r)
  <2>1. TablesKeep /\ Ready(r, "nonePending")
    BY <1>5, QuietStep DEF CreateInviteCheckPending, Ready, Steps, OwnerSteps, AcceptSteps, JoinSteps
  <2> QED BY <1>5, <2>1, Proceeds, Ends DEF CreateInviteCheckPending, Check
<1>6. CASE CreateInviteInsert(r)
  BY <1>6, OwnerTables, Ends DEF CreateInviteInsert
<1>7. ASSUME NEW i \in Invites, RevokeInviteRead(r, i)
      PROVE  TablesKeep /\ Reaches(r) /\ Watch
  <2>1. TablesKeep
    BY <1>7, QuietStep DEF RevokeInviteRead
  <2>2. Begin(r, "revoking", None, None, inviteOrg[i], {i}) /\ inviteStatus[i] = "PENDING"
    BY <1>7 DEF RevokeInviteRead
  <2>3. inviteOrg[i] \in Orgs \cup {None}
    BY DEF BaseInv, TypeOK
  <2>4. /\ OnlyChanges(r) /\ req' \in [Requests -> Handler]
        /\ req'[r] = [at |-> "revoking", kind |-> None, user |-> None, org |-> inviteOrg[i],
                      queue |-> {i}, joined |-> None]
    BY <2>2, <2>3 DEF Begin, OnlyChanges, Handler, Steps, BaseInv, TypeOK
  <2>5. Existing(inviteOrg[i]) /\ inviteStatus'[i] # "UNUSED"
    BY <2>1, <2>2 DEF BaseInv, InviteInv, TablesKeep
  <2>6. admits'[inviteOrg[i]] # "absent"
    BY <2>1, <2>5 DEF Existing, TablesKeep
  <2>7. Reads(r)'
    BY <2>4, <2>5, <2>6 DEF Reads, OwnerSteps, AcceptSteps, JoinSteps, Existing
  <2> QED BY <1>7, <2>1, <2>4, <2>7 DEF Reaches, RevokeInviteRead
<1>8. CASE RevokeInviteWrite(r)
  BY <1>8, OwnerTables, Ends DEF RevokeInviteWrite
<1> QED
  BY <1>1, <1>2, <1>3, <1>4, <1>5, <1>6, <1>7, <1>8 DEF Owner

\* The statements of CreateOrg.
LEMMA OrgReaches ==
  ASSUME BaseInv, NEW r \in Requests
  PROVE  /\ \A u \in Users, how \in {"invited", "domain"} :
              CreateOrgInsert(r, u, how) => TablesKeep /\ Reaches(r) /\ Watch
         /\ CreateOrgAddOwner(r) => TablesKeep /\ Reaches(r) /\ Watch
         /\ \A o \in Orgs, u \in Users :
              SwitchOrgBegin(r, u, o) => TablesKeep /\ Reaches(r) /\ Watch
         /\ SwitchOrg(r) => TablesKeep /\ Reaches(r) /\ Watch
<1>1. ASSUME NEW u \in Users, NEW how \in {"invited", "domain"}, CreateOrgInsert(r, u, how)
      PROVE  TablesKeep /\ Reaches(r) /\ Watch
  <2> DEFINE o == Least({p \in Orgs : admits[p] = "absent"})
  <2>1. TablesKeep /\ o \in Orgs
    BY <1>1, OrgTables
  <2>2. Begin(r, "orgInserted", None, u, o, {}) /\ admits' = [admits EXCEPT ![o] = how] /\ Watch
    BY <1>1 DEF CreateOrgInsert
  <2> HIDE DEF o
  <2>3. admits'[o] # "absent"
    BY <2>1, <2>2 DEF BaseInv, TypeOK
  <2>4. /\ OnlyChanges(r) /\ req' \in [Requests -> Handler]
        /\ req'[r] = [at |-> "orgInserted", kind |-> None, user |-> u, org |-> o,
                      queue |-> {}, joined |-> None]
    BY <2>1, <2>2 DEF Begin, OnlyChanges, Handler, Steps, BaseInv, TypeOK
  <2>5. Reads(r)'
    BY <2>1, <2>3, <2>4 DEF Reads, OwnerSteps, AcceptSteps, JoinSteps, Existing
  <2> QED BY <2>1, <2>2, <2>4, <2>5 DEF Reaches
<1>2. ASSUME CreateOrgAddOwner(r)
      PROVE  TablesKeep /\ Reaches(r) /\ Watch
  <2>1. \E u \in Users : TRUE
    BY <1>2 DEF CreateOrgAddOwner, BaseInv, ReadsInv, Reads
  <2>2. TablesKeep /\ Ready(r, "switching") /\ Watch
    BY <1>2, <2>1, OrgTables DEF CreateOrgAddOwner, Ready, Steps, OwnerSteps, AcceptSteps, JoinSteps
  <2> QED BY <1>2, <2>2, Proceeds, Ends DEF CreateOrgAddOwner
<1>3. ASSUME NEW o \in Orgs, NEW u \in Users, SwitchOrgBegin(r, u, o)
      PROVE  TablesKeep /\ Reaches(r) /\ Watch
  <2>1. TablesKeep
    BY <1>3, QuietStep DEF SwitchOrgBegin
  <2>2. Begin(r, "switching", None, u, o, {})
    BY <1>3 DEF SwitchOrgBegin
  <2>3. /\ OnlyChanges(r) /\ req' \in [Requests -> Handler]
        /\ req'[r] = [at |-> "switching", kind |-> None, user |-> u, org |-> o,
                      queue |-> {}, joined |-> None]
    BY <2>2 DEF Begin, OnlyChanges, Handler, Steps, BaseInv, TypeOK
  <2>4. Reads(r)'
    BY <2>3 DEF Reads, OwnerSteps, AcceptSteps, JoinSteps
  <2> QED BY <1>3, <2>1, <2>3, <2>4 DEF Reaches, SwitchOrgBegin
<1>4. ASSUME SwitchOrg(r)
      PROVE  TablesKeep /\ Reaches(r) /\ Watch
  <2>1. TablesKeep /\ req[r].org \in Orgs \cup {None} /\ req[r].at = "switching"
    BY <1>4, QuietStep DEF SwitchOrg, BaseInv, TypeOK, Handler
  <2> QED BY <1>4, <2>1, Issues, Ends DEF SwitchOrg
<1> QED BY <1>1, <1>2, <1>3, <1>4

\* The statements of a session's begin and of accepting an invite up to the join.
LEMMA AcceptReaches ==
  ASSUME BaseInv, NEW r \in Requests
  PROVE  /\ \A kind \in Kinds, u \in Users, claim \in Orgs \cup {None} :
              SessionBegin(r, kind, u, claim) => TablesKeep /\ Reaches(r) /\ Watch
         /\ AcceptCheckRole(r) => TablesKeep /\ Reaches(r) /\ Watch
         /\ AcceptSettle(r) => TablesKeep /\ Reaches(r) /\ Watch
<1>1. ASSUME NEW kind \in Kinds, NEW u \in Users, NEW claim \in Orgs \cup {None},
             SessionBegin(r, kind, u, claim)
      PROVE  TablesKeep /\ Reaches(r) /\ Watch
  <2>1. TablesKeep
    BY <1>1, QuietStep DEF SessionBegin
  <2>2. Begin(r, "accepting", kind, u, claim, PendingForEmail(u))
    BY <1>1 DEF SessionBegin
  <2>3. PendingForEmail(u) \subseteq Invites
    BY DEF PendingForEmail
  <2>4. /\ OnlyChanges(r) /\ req' \in [Requests -> Handler]
        /\ req'[r] = [at |-> "accepting", kind |-> kind, user |-> u, org |-> claim,
                      queue |-> PendingForEmail(u), joined |-> None]
    BY <2>2, <2>3 DEF Begin, OnlyChanges, Handler, Steps, BaseInv, TypeOK
  <2>5. \A i \in PendingForEmail(u) : inviteStatus[i] # "UNUSED" /\ invitee[i] = u
    BY DEF PendingForEmail
  <2>6. \A i \in PendingForEmail(u) : inviteStatus'[i] # "UNUSED" /\ invitee'[i] = u
    BY <2>1, <2>3, <2>5 DEF TablesKeep
  <2>7. Reads(r)'
    BY <2>4, <2>6 DEF Reads, OwnerSteps, AcceptSteps, JoinSteps
  <2> QED BY <1>1, <2>1, <2>4, <2>7 DEF Reaches, SessionBegin
<1>2. ASSUME AcceptCheckRole(r)
      PROVE  TablesKeep /\ Reaches(r) /\ Watch
  <2>1. TablesKeep /\ req[r].at = "accepting" /\ req[r].queue # {}
    BY <1>2, QuietStep DEF AcceptCheckRole
  <2>2. Ready(r, "settling") /\ Ready(r, "joining")
    BY <2>1 DEF Ready, Steps, OwnerSteps, AcceptSteps, JoinSteps
  <2>3. Proceed(r, "settling") \/ Proceed(r, "joining")
    BY <1>2 DEF AcceptCheckRole
  <2> QED BY <1>2, <2>1, <2>2, <2>3, Proceeds DEF AcceptCheckRole
<1>3. ASSUME AcceptSettle(r)
      PROVE  TablesKeep /\ Reaches(r) /\ Watch
  <2>1. TablesKeep /\ Watch
    BY <1>3, SessionTables DEF AcceptSettle
  <2> QED BY <1>3, <2>1, NextInvite DEF AcceptSettle, AcceptSteps
<1> QED BY <1>1, <1>2, <1>3

\* joinAsMember answers true: the session is a member, or the pair is issued.
LEMMA JoinedReaches ==
  ASSUME BaseInv, TablesKeep, NEW r \in Requests, req[r].at \in JoinSteps, Joined(r)
  PROVE  /\ Reaches(r)
         /\ req[r].queue # {} =>
              /\ req'[r].at = "settling" /\ req'[r].joined = Joining(r)
              /\ req'[r].kind = req[r].kind /\ req'[r].user = req[r].user
              /\ req'[r].queue = req[r].queue
<1>1. Existing(Joining(r)) /\ Reads(r) /\ req[r] \in Handler
  BY AtInvite DEF BaseInv, ReadsInv, TypeOK
<1>2. CASE req[r].queue # {}
  <2> DEFINE rec == [at |-> "settling", kind |-> req[r].kind, user |-> req[r].user,
                     org |-> req[r].org, queue |-> req[r].queue, joined |-> Joining(r)]
  <2>1. rec \in Handler
    BY <1>1 DEF Handler, Steps, Existing
  <2>2. req' = [req EXCEPT ![r].at = "settling", ![r].joined = Joining(r)]
    BY <1>2 DEF Joined
  <2>3. req'[r] = rec /\ OnlyChanges(r) /\ req' \in [Requests -> Handler]
    BY <1>1, <2>1, <2>2 DEF OnlyChanges, Handler, BaseInv, TypeOK
  <2>4. \A i \in req[r].queue : inviteStatus'[i] # "UNUSED" /\ invitee'[i] = invitee[i]
    BY <1>1 DEF Reads, TablesKeep, Handler
  <2>5. Reads(r)'
    BY <1>1, <1>2, <2>3, <2>4 DEF Reads, OwnerSteps, AcceptSteps, JoinSteps
  <2> QED BY <2>3, <2>5 DEF Reaches
<1>3. CASE req[r].queue = {}
  <2>1. Issue(r, Joining(r)) /\ Joining(r) \in Orgs \cup {None}
    BY <1>1, <1>3 DEF Joined, Existing
  <2> QED BY <1>3, <2>1, Issues DEF JoinSteps
<1> QED BY <1>2, <1>3

\* The statements of JoinOrg, with the check of the policy before and after.
LEMMA JoinReaches ==
  ASSUME BaseInv, NEW r \in Requests
  PROVE  /\ JoinCheckPolicy(r) => TablesKeep /\ Reaches(r) /\ Watch
         /\ JoinAdd(r) => TablesKeep /\ Reaches(r) /\ Watch
         /\ JoinRecheck(r) => TablesKeep /\ Reaches(r) /\ Watch
<1>0. Reads(r)
  BY DEF BaseInv, ReadsInv
<1>1. ASSUME JoinCheckPolicy(r)
      PROVE  TablesKeep /\ Reaches(r) /\ Watch
  <2>1. TablesKeep /\ Watch /\ req[r].at = "joining"
    BY <1>1, QuietStep DEF JoinCheckPolicy
  <2>2. CASE Proceed(r, "adding")
    <3>1. Ready(r, "adding")
      BY <1>0, <2>1 DEF Ready, Reads, Steps, OwnerSteps, AcceptSteps, JoinSteps
    <3> QED BY <2>1, <2>2, <3>1, Proceeds
  <2>3. CASE Skip(r)
    <3>1. CASE req[r].queue # {}
      BY <2>1, <2>3, <3>1, NextInvite DEF Skip, AcceptSteps, JoinSteps
    <3>2. CASE req[r].queue = {}
      BY <2>1, <2>3, <3>2, Issues DEF Skip
    <3> QED BY <3>1, <3>2
  <2> QED BY <1>1, <2>2, <2>3 DEF JoinCheckPolicy
<1>2. ASSUME JoinAdd(r)
      PROVE  TablesKeep /\ Reaches(r) /\ Watch
  <2>1. TablesKeep /\ Watch /\ req[r].at = "adding"
    BY <1>2, SessionTables DEF JoinAdd
  <2>2. Ready(r, "duplicate")
    BY <1>0, <2>1 DEF Ready, Reads, Steps, OwnerSteps, AcceptSteps, JoinSteps
  <2>3. Joined(r) \/ Proceed(r, "duplicate")
    BY <1>2 DEF JoinAdd
  <2> QED BY <2>1, <2>2, <2>3, Proceeds, JoinedReaches DEF JoinSteps
<1>3. ASSUME JoinRecheck(r)
      PROVE  TablesKeep /\ Reaches(r) /\ Watch
  <2>1. TablesKeep /\ Watch /\ req[r].at = "duplicate"
    BY <1>3, QuietStep DEF JoinRecheck
  <2>2. Joined(r) \/ Finish(r)
    BY <1>3 DEF JoinRecheck
  <2> QED BY <2>1, <2>2, Ends, JoinedReaches DEF JoinSteps
<1> QED BY <1>1, <1>2, <1>3

\* The statements that choose the org of a session.
LEMMA ScopeReaches ==
  ASSUME BaseInv, NEW r \in Requests
  PROVE  /\ LoginScope(r) => TablesKeep /\ Reaches(r) /\ Watch
         /\ LoginAutoJoin(r) => TablesKeep /\ Reaches(r) /\ Watch
         /\ RefreshScope(r) => TablesKeep /\ Reaches(r) /\ Watch
         /\ MeAnswer(r) => TablesKeep /\ Reaches(r) /\ Watch
         /\ End(r) => TablesKeep /\ Reaches(r) /\ Watch
<1>0. Reads(r) /\ req[r] \in Handler
  BY DEF BaseInv, ReadsInv, TypeOK
<1>1. ASSUME LoginScope(r)
      PROVE  TablesKeep /\ Reaches(r) /\ Watch
  <2>1. TablesKeep /\ Watch /\ req[r].at = "accepting" /\ req[r].queue = {}
    BY <1>1, QuietStep DEF LoginScope, Accepted
  <2>2. Ready(r, "orgless")
    BY <2>1 DEF Ready, Steps, OwnerSteps, AcceptSteps, JoinSteps
  <2>3. (\E o \in Orgs \cup {None} : Issue(r, o)) \/ Proceed(r, "orgless")
    BY <1>1 DEF LoginScope, OrgsOf
  <2> QED BY <2>1, <2>2, <2>3, Proceeds, Issues
<1>2. ASSUME LoginAutoJoin(r)
      PROVE  TablesKeep /\ Reaches(r) /\ Watch
  <2>1. TablesKeep /\ Watch /\ req[r].at = "orgless"
    BY <1>2, SessionTables DEF LoginAutoJoin
  <2>2. CASE Issue(r, None)
    BY <2>1, <2>2, Issues
  <2>3. CASE /\ DomainOrgs # {}
             /\ req' = [req EXCEPT ![r].at = "joining", ![r].org = Least(DomainOrgs)]
    <3> DEFINE o == Least(DomainOrgs)
               rec == [at |-> "joining", kind |-> req[r].kind, user |-> req[r].user,
                       org |-> o, queue |-> req[r].queue, joined |-> req[r].joined]
    <3>1. o \in DomainOrgs
      BY <2>3, LeastInvite DEF DomainOrgs
    <3>2. o \in Orgs /\ Existing(o)
      BY <3>1 DEF DomainOrgs, Existing
    <3> HIDE DEF o
    <3>3. rec \in Handler
      BY <1>0, <3>2 DEF Handler, Steps
    <3>4. req' = [req EXCEPT ![r].at = "joining", ![r].org = o]
      BY <2>3 DEF o
    <3>5. req'[r] = rec /\ OnlyChanges(r) /\ req' \in [Requests -> Handler]
      BY <1>0, <3>3, <3>4 DEF OnlyChanges, Handler, BaseInv, TypeOK
    <3>6. req[r].queue = {} /\ admits'[o] # "absent"
      BY <2>1, <3>2, <1>0 DEF TablesKeep, Existing, Reads
    <3>7. Reads(r)'
      BY <1>0, <2>1, <3>2, <3>5, <3>6 DEF Reads, OwnerSteps, AcceptSteps, JoinSteps, Existing
    <3> QED BY <2>1, <3>5, <3>7 DEF Reaches
  <2> QED BY <1>2, <2>2, <2>3 DEF LoginAutoJoin
<1>3. ASSUME RefreshScope(r)
      PROVE  TablesKeep /\ Reaches(r) /\ Watch
  <2>1. TablesKeep /\ Watch /\ req[r].at = "accepting" /\ Issue(r, RefreshedOrg(r))
    BY <1>3, QuietStep DEF RefreshScope, Accepted
  <2>2. RefreshedOrg(r) \in Orgs \cup {None}
    BY <1>0 DEF RefreshedOrg, Handler
  <2> QED BY <2>1, <2>2, Issues
<1>4. CASE MeAnswer(r)
  BY <1>4, QuietStep, Ends DEF MeAnswer
<1>5. CASE End(r)
  BY <1>5, QuietStep, Ends DEF End
<1> QED BY <1>1, <1>2, <1>3, <1>4, <1>5

\* Every step by somebody: r's record changes, and its history of memberships.
LEMMA StepReaches ==
  ASSUME BaseInv, NEW r \in Requests, Owner(r) \/ Session(r) \/ End(r)
  PROVE  TablesKeep /\ Reaches(r) /\ Watch
<1>1. CASE Owner(r)
  BY <1>1, OwnerReaches
<1>2. CASE Session(r)
  BY <1>2, OrgReaches, AcceptReaches, JoinReaches, ScopeReaches DEF Session
<1>3. CASE End(r)
  BY <1>3, ScopeReaches
<1> QED BY <1>1, <1>2, <1>3

\* Every step keeps the tables and the requests' records.
LEMMA BaseInductive == BaseInv /\ [Next]_vars => BaseInv'
<1> SUFFICES ASSUME BaseInv, [Next]_vars PROVE BaseInv'
  OBVIOUS
<1>1. ASSUME NEW r \in Requests, Owner(r) \/ Session(r) \/ End(r)
      PROVE  BaseInv'
  <2>1. TablesKeep /\ Reaches(r) /\ Watch
    BY <1>1, StepReaches
  <2>2. memberSince' \in [Requests -> SUBSET Orgs]
    BY <2>1, WatchType DEF BaseInv, TypeOK
  <2> QED BY <2>1, <2>2, StepKeeps DEF Reaches
<1>2. ASSUME TablesKeep, UNCHANGED <<req, memberSince>>
      PROVE  BaseInv'
  <2>1. PICK r \in Requests : TRUE
    BY MembershipAssumption
  <2>2. OnlyChanges(r) /\ req' \in [Requests -> Handler] /\ memberSince' \in [Requests -> SUBSET Orgs]
    BY <1>2 DEF OnlyChanges, BaseInv, TypeOK
  <2>3. Reads(r) /\ req[r] \in Handler /\ req[r].queue \subseteq Invites
    BY DEF BaseInv, ReadsInv, TypeOK, Handler
  <2>4. \A i \in req[r].queue : inviteStatus'[i] # "UNUSED" /\ invitee'[i] = invitee[i]
    BY <1>2, <2>3 DEF Reads, TablesKeep
  <2>5. Existing(req[r].org) => admits'[req[r].org] # "absent"
    BY <1>2 DEF TablesKeep, Existing
  <2>6. Reads(r)'
    BY <1>2, <2>3, <2>4, <2>5 DEF Reads, Existing
  <2> QED BY <1>2, <2>2, <2>6, StepKeeps
<1>3. ASSUME NEW o \in Orgs, NEW how \in {"invited", "domain"}, UpdateOrg(o, how)
      PROVE  BaseInv'
  <2>1. \E r \in Requests : TRUE
    BY MembershipAssumption
  <2>2. Existing(o)
    BY <1>3, OwnedExists DEF UpdateOrg
  <2>3. TablesKeep
    BY <1>3 DEF UpdateOrg, BaseInv, TypeOK, TablesKeep, Existing, IsMember
  <2> QED BY <1>2, <1>3, <2>3 DEF UpdateOrg
<1>4. CASE UNCHANGED vars
  BY <1>2, <1>4, QuietStep DEF vars, tables
<1> QED BY <1>1, <1>3, <1>4 DEF Next

\* At the start nobody is a member and no request is under way.
LEMMA BaseInitially == Init => BaseInv
<1> SUFFICES ASSUME Init PROVE BaseInv
  OBVIOUS
<1>1. Idle \in Handler
  BY DEF Idle, Handler, Steps
<1>2. TypeOK
  BY <1>1 DEF Init, TypeOK, Members, IsMember, Roles
<1>3. InviteInv /\ PastInv
  BY DEF Init, InviteInv, PastInv, IsMember
<1>4. ReadsInv
  BY DEF Init, ReadsInv, Reads, Idle, OwnerSteps, AcceptSteps, JoinSteps
<1> QED BY <1>2, <1>3, <1>4 DEF BaseInv

\* The tables and the requests' records keep their shape.
LEMMA BaseInvHolds == Spec => []BaseInv
BY BaseInitially, BaseInductive, PTL DEF Spec

\* Whatever order requests take, the tables and the requests' records keep their
\* shape, and nobody is a member of an org that is not there.
THEOREM TypeCorrect == Spec => []TypeOK
<1>1. BaseInv => TypeOK
  BY DEF BaseInv
<1> QED BY <1>1, BaseInvHolds, PTL

-----------------------------------------------------------------------------
(***************************************************************************)
(* Who is a member: owners stay, accepted invites are memberships,         *)
(* sessions are scoped to memberships, the policy's cap.                   *)
(***************************************************************************)
-----------------------------------------------------------------------------
(***************************************************************************)
(* Where a step of r leads, and which memberships it changes               *)
(***************************************************************************)
Step(r) == Owner(r) \/ Session(r) \/ End(r)

\* Where each statement leaves its request.
LEMMA Lands ==
  ASSUME BaseInv, NEW r \in Requests
  PROVE  /\ Owner(r) => req'[r].at \in OwnerSteps \cup {"idle", "revoking"}
         /\ \A u \in Users, how \in {"invited", "domain"} :
              CreateOrgInsert(r, u, how) => req'[r].at = "orgInserted"
         /\ CreateOrgAddOwner(r) => req'[r].at \in {"switching", "idle"}
         /\ \A o \in Orgs, u \in Users : SwitchOrgBegin(r, u, o) => req'[r].at = "switching"
         /\ SwitchOrg(r) => req'[r].at \in {"issued", "idle"}
         /\ \A kind \in Kinds, u \in Users, claim \in Orgs \cup {None} :
              SessionBegin(r, kind, u, claim) => req'[r].at = "accepting"
         /\ AcceptCheckRole(r) => req'[r].at \in {"settling", "joining"}
         /\ JoinCheckPolicy(r) => req'[r].at \in {"adding", "accepting", "issued"}
         /\ JoinAdd(r) => req'[r].at \in {"settling", "issued", "duplicate"}
         /\ JoinRecheck(r) => req'[r].at \in {"settling", "issued", "idle"}
         /\ AcceptSettle(r) => req'[r].at = "accepting"
         /\ LoginScope(r) => req'[r].at \in {"issued", "orgless"}
         /\ LoginAutoJoin(r) => req'[r].at \in {"joining", "issued"}
         /\ RefreshScope(r) => req'[r].at = "issued"
         /\ MeAnswer(r) \/ End(r) => req'[r].at = "idle"
<1>0. req \in [Requests -> Handler] /\ req[r] \in Handler
  BY DEF BaseInv, TypeOK
<1>1. Finish(r) => req'[r].at = "idle"
  BY <1>0 DEF Finish, Idle
<1>2. \A at : Proceed(r, at) => req'[r].at = at
  BY <1>0 DEF Proceed, Handler
<1>3. \A o : Issue(r, o) => req'[r].at = "issued"
  BY <1>0 DEF Issue
<1>4. Joined(r) => req'[r].at \in {"settling", "issued"}
  BY <1>0, <1>3 DEF Joined, Handler
<1>5. Skip(r) => req'[r].at \in {"accepting", "issued"}
  BY <1>0, <1>3 DEF Skip, Handler
<1>6. Owner(r) => req'[r].at \in OwnerSteps \cup {"idle", "revoking"}
  BY <1>0, <1>1, <1>2
  DEF Owner, RemoveMemberRead, CreateInviteBegin, RemoveMemberWrite, CreateInviteCheckMember,
      CreateInviteCheckPending, CreateInviteInsert, RevokeInviteRead, RevokeInviteWrite, Check,
      Begin, OwnerSteps
<1>7. /\ \A u \in Users, how \in {"invited", "domain"} :
           CreateOrgInsert(r, u, how) => req'[r].at = "orgInserted"
      /\ CreateOrgAddOwner(r) => req'[r].at \in {"switching", "idle"}
      /\ \A o \in Orgs, u \in Users : SwitchOrgBegin(r, u, o) => req'[r].at = "switching"
      /\ SwitchOrg(r) => req'[r].at \in {"issued", "idle"}
  BY <1>0, <1>1, <1>2, <1>3
  DEF CreateOrgInsert, CreateOrgAddOwner, SwitchOrgBegin, SwitchOrg, Begin
<1>8. \A kind \in Kinds, u \in Users, claim \in Orgs \cup {None} :
        SessionBegin(r, kind, u, claim) => req'[r].at = "accepting"
  BY <1>0 DEF SessionBegin, Begin
<1>9. /\ AcceptCheckRole(r) => req'[r].at \in {"settling", "joining"}
      /\ JoinCheckPolicy(r) => req'[r].at \in {"adding", "accepting", "issued"}
      /\ JoinAdd(r) => req'[r].at \in {"settling", "issued", "duplicate"}
      /\ JoinRecheck(r) => req'[r].at \in {"settling", "issued", "idle"}
      /\ AcceptSettle(r) => req'[r].at = "accepting"
  BY <1>0, <1>1, <1>2, <1>4, <1>5
  DEF AcceptCheckRole, JoinCheckPolicy, JoinAdd, JoinRecheck, AcceptSettle, Handler
<1>10. /\ LoginScope(r) => req'[r].at \in {"issued", "orgless"}
       /\ LoginAutoJoin(r) => req'[r].at \in {"joining", "issued"}
       /\ RefreshScope(r) => req'[r].at = "issued"
       /\ MeAnswer(r) \/ End(r) => req'[r].at = "idle"
  BY <1>0, <1>1, <1>2, <1>3
  DEF LoginScope, LoginAutoJoin, RefreshScope, MeAnswer, End, Handler
<1> QED BY <1>6, <1>7, <1>8, <1>9, <1>10

\* Three steps change a membership: the creator's, a session's and a removal.
LEMMA RoleChanges ==
  ASSUME BaseInv, NEW r \in Requests, Step(r), NEW o \in Orgs, NEW u \in Users,
         role'[o][u] # role[o][u]
  PROVE  \/ /\ CreateOrgAddOwner(r) /\ o = req[r].org
            /\ u = req[r].user /\ role[o][u] = "none" /\ role'[o][u] = "OWNER"
         \/ /\ JoinAdd(r) /\ o = Joining(r)
            /\ u = req[r].user /\ role[o][u] = "none" /\ role'[o][u] = "MEMBER"
         \/ /\ RemoveMemberWrite(r) /\ o = req[r].org
            /\ u = req[r].user /\ role'[o][u] = "none"
<1>0. role \in [Orgs -> [Users -> Roles]]
  BY DEF BaseInv, TypeOK
<1>1. CreateOrgAddOwner(r) \/ JoinAdd(r) \/ RemoveMemberWrite(r)
  BY DEF Step, Owner, Session, End, RemoveMemberRead, CreateInviteBegin, CreateInviteCheckMember,
         CreateInviteCheckPending, CreateInviteInsert, RevokeInviteRead, RevokeInviteWrite,
         CreateOrgInsert, SwitchOrgBegin, SwitchOrg, SessionBegin, AcceptCheckRole, JoinCheckPolicy,
         JoinRecheck, AcceptSettle, LoginScope, LoginAutoJoin, RefreshScope, MeAnswer, tables
<1>2. CASE CreateOrgAddOwner(r)
  <2>1. req[r].org \in Orgs /\ req[r].user \in Users
    BY <1>2 DEF CreateOrgAddOwner, BaseInv, ReadsInv, Reads, Existing
  <2>2. /\ ~IsMember(req[r].org, req[r].user)
        /\ role' = [role EXCEPT ![req[r].org][req[r].user] = "OWNER"]
    BY <1>2 DEF CreateOrgAddOwner, AddMembership
  <2> QED BY <1>0, <1>2, <2>1, <2>2 DEF IsMember
<1>3. CASE JoinAdd(r)
  <2>1. Joining(r) \in Orgs /\ req[r].user \in Users
    BY <1>3, AtInvite DEF JoinAdd, JoinSteps, Existing
  <2>2. /\ ~IsMember(Joining(r), req[r].user)
        /\ role' = [role EXCEPT ![Joining(r)][req[r].user] = "MEMBER"]
    BY <1>3 DEF JoinAdd, AddMembership
  <2> QED BY <1>0, <1>3, <2>1, <2>2 DEF IsMember
<1>4. CASE RemoveMemberWrite(r)
  <2>1. req[r].org \in Orgs /\ req[r].user \in Users
    BY <1>4 DEF RemoveMemberWrite, BaseInv, ReadsInv, Reads, OwnerSteps, Existing
  <2>2. role' = [role EXCEPT ![req[r].org][req[r].user] = "none"]
    BY <1>4 DEF RemoveMemberWrite
  <2> QED BY <1>0, <1>4, <2>1, <2>2
<1> QED BY <1>1, <1>2, <1>3, <1>4

\* Nothing else touches memberships.
LEMMA RoleKept == UNCHANGED vars \/ (\E o \in Orgs, how \in {"invited", "domain"} : UpdateOrg(o, how))
                  => UNCHANGED <<role, req>>
BY DEF vars, tables, UpdateOrg

-----------------------------------------------------------------------------
(***************************************************************************)
(* Owners.  An org has at most one, its creator: none while the creator's  *)
(* row is still to be inserted.  A removal under way is not of an owner,   *)
(* and the org has one.                                                    *)
(***************************************************************************)
OwnerInv ==
  /\ \A o \in Orgs, u, v \in Users : role[o][u] = "OWNER" /\ role[o][v] = "OWNER" => u = v
  /\ \A r \in Requests : req[r].at = "orgInserted" => ~Owned(req[r].org)
  /\ \A r, q \in Requests :
       req[r].at = "orgInserted" /\ req[q].at = "orgInserted" /\ req[r].org = req[q].org => r = q
  /\ \A r \in Requests :
       req[r].at = "removing" =>
         Owned(req[r].org) /\ role[req[r].org][req[r].user] # "OWNER"

\* The removal of a sole owner is refused.
LEMMA NotTheOwner ==
  ASSUME BaseInv, OwnerInv, NEW o \in Orgs, NEW u \in Users, Removable(o, u)
  PROVE  role[o][u] # "OWNER"
<1> SUFFICES ASSUME role[o][u] = "OWNER" PROVE FALSE
  OBVIOUS
<1>1. {v \in Users : role[o][v] = "OWNER"} = {u}
  BY DEF OwnerInv
<1> QED BY <1>1, FS_Singleton DEF Removable

\* A step takes nobody's ownership, and gives it to a creator.
LEMMA OwnersKept ==
  ASSUME BaseInv, OwnerInv, NEW r \in Requests, Step(r), NEW o \in Orgs, NEW u \in Users
  PROVE  /\ role[o][u] = "OWNER" => role'[o][u] = "OWNER"
         /\ role[o][u] # "OWNER" /\ role'[o][u] = "OWNER" =>
              CreateOrgAddOwner(r) /\ o = req[r].org /\ u = req[r].user
<1>1. RemoveMemberWrite(r) => role[req[r].org][req[r].user] # "OWNER"
  BY DEF RemoveMemberWrite, OwnerInv
<1>2. CASE role'[o][u] # role[o][u]
  <2>1. \/ /\ CreateOrgAddOwner(r) /\ o = req[r].org
           /\ u = req[r].user /\ role[o][u] = "none" /\ role'[o][u] = "OWNER"
        \/ /\ role[o][u] = "none" /\ role'[o][u] = "MEMBER"
        \/ /\ RemoveMemberWrite(r) /\ o = req[r].org
           /\ u = req[r].user /\ role'[o][u] = "none"
    BY <1>2, RoleChanges
  <2> QED BY <1>1, <2>1
<1> QED BY <1>2

\* Every statement of a request keeps the owners.
LEMMA OwnerInductive ==
  ASSUME BaseInv, OwnerInv, NEW r \in Requests, Step(r)
  PROVE  OwnerInv'
<1>1. Reaches(r) /\ TablesKeep /\ OnlyChanges(r)
  BY StepReaches DEF Step, Reaches
<1>2. \A o \in Orgs : Owned(o) => Owned(o)'
  BY OwnersKept DEF Owned
<1>3. \A o \in Orgs : Owned(o)' /\ ~Owned(o) => req[r].at = "orgInserted" /\ req[r].org = o
  BY OwnersKept DEF Owned, CreateOrgAddOwner
<1>4. ASSUME NEW o \in Orgs, NEW u \in Users, NEW v \in Users,
             role'[o][u] = "OWNER", role'[o][v] = "OWNER"
      PROVE  u = v
  <2>1. CASE role[o][u] = "OWNER" /\ role[o][v] = "OWNER"
    BY <2>1 DEF OwnerInv
  <2>2. CASE role[o][u] # "OWNER" \/ role[o][v] # "OWNER"
    <3>1. req[r].at = "orgInserted" /\ o = req[r].org
      BY <1>4, <2>2, OwnersKept DEF CreateOrgAddOwner
    <3>2. ~Owned(o)
      BY <3>1 DEF OwnerInv
    <3> QED BY <1>4, <3>2, OwnersKept DEF Owned
  <2> QED BY <2>1, <2>2
<1>5. ASSUME req'[r].at = "orgInserted"
      PROVE  /\ \E o \in Orgs : admits[o] = "absent" /\ req'[r].org = o
             /\ UNCHANGED role
  <2>1. PICK u \in Users, how \in {"invited", "domain"} : CreateOrgInsert(r, u, how)
    BY <1>5, Lands DEF Step, Session, OwnerSteps
  <2> DEFINE o == Least({p \in Orgs : admits[p] = "absent"})
  <2>2. o \in Orgs /\ admits[o] = "absent"
    BY <2>1, LeastInvite DEF CreateOrgInsert
  <2>3. Begin(r, "orgInserted", None, u, o, {}) /\ UNCHANGED role
    BY <2>1 DEF CreateOrgInsert
  <2> HIDE DEF o
  <2>4. req'[r].org = o
    BY <2>3 DEF Begin, BaseInv, TypeOK
  <2> QED BY <2>2, <2>3, <2>4
<1>6. ASSUME req'[r].at = "orgInserted"
      PROVE  ~Owned(req'[r].org) /\ ~Owned(req[r].org)'
  <2>1. PICK o \in Orgs : admits[o] = "absent" /\ req'[r].org = o
    BY <1>5, <1>6
  <2>2. ~Owned(o)
    BY <2>1, OwnedExists DEF Existing
  <2> QED BY <1>5, <1>6, <2>1, <2>2 DEF Owned
<1>7. ASSUME NEW q \in Requests, req'[q].at = "orgInserted"
      PROVE  ~Owned(req[q].org)'
  <2>1. CASE q = r
    BY <1>6, <1>7, <2>1
  <2>2. CASE q # r
    <3>1. req'[q] = req[q] /\ req[q].at = "orgInserted" /\ req[q].org \in Orgs
      BY <1>1, <1>7, <2>2 DEF OnlyChanges, BaseInv, ReadsInv, Reads, Existing
    <3>2. ~Owned(req[q].org) /\ ~(req[r].at = "orgInserted" /\ req[r].org = req[q].org)
      BY <2>2, <3>1 DEF OwnerInv
    <3>3. \A u \in Users : role'[req[q].org][u] # "OWNER"
      BY <1>3, <3>1, <3>2 DEF Owned
    <3> QED BY <3>1, <3>3 DEF Owned
  <2> QED BY <2>1, <2>2
<1>8. ASSUME NEW p \in Requests, NEW q \in Requests, req'[p].at = "orgInserted",
             req'[q].at = "orgInserted", req'[p].org = req'[q].org, p # q
      PROVE  FALSE
  <2>1. ASSUME NEW s \in Requests \ {r}, req'[s].at = "orgInserted"
        PROVE  req'[s] = req[s] /\ Existing(req'[s].org)
    BY <1>1, <2>1 DEF OnlyChanges, BaseInv, ReadsInv, Reads
  <2>2. CASE p # r /\ q # r
    BY <1>8, <2>1, <2>2 DEF OwnerInv
  <2>3. CASE p = r \/ q = r
    BY <1>5, <1>8, <2>1, <2>3 DEF Existing
  <2> QED BY <2>2, <2>3
<1>9. ASSUME NEW q \in Requests, req'[q].at = "removing"
      PROVE  Owned(req[q].org)' /\ role'[req'[q].org][req'[q].user] # "OWNER"
  <2>1. CASE q # r \/ ~\E o \in Orgs, u \in Users : RemoveMemberRead(r, o, u)
    <3>1. q # r
      <4>1. CASE q = r
        <5>1. Owner(r)
          BY <1>9, <4>1, Lands DEF Step, Session
        <5> QED BY <1>9, <2>1, <4>1, <5>1
             DEF Owner, CreateInviteBegin, RemoveMemberWrite, CreateInviteCheckMember,
                 CreateInviteCheckPending, CreateInviteInsert, RevokeInviteRead, RevokeInviteWrite,
                 Check, Begin, Finish, Proceed, Idle, BaseInv, TypeOK, Handler
      <4> QED BY <4>1
    <3>2. req'[q] = req[q] /\ req[q].at = "removing" /\ req[q].org \in Orgs /\ req[q].user \in Users
      BY <1>1, <1>9, <3>1 DEF OnlyChanges, BaseInv, ReadsInv, Reads, OwnerSteps, Existing
    <3>3. Owned(req[q].org) /\ role[req[q].org][req[q].user] # "OWNER"
      BY <3>2 DEF OwnerInv
    <3>4. role'[req[q].org][req[q].user] # "OWNER"
      BY <3>2, <3>3, OwnersKept DEF CreateOrgAddOwner, OwnerInv
    <3>5. \E u \in Users : role'[req[q].org][u] = "OWNER"
      BY <1>2, <3>2, <3>3 DEF Owned
    <3> QED BY <3>2, <3>4, <3>5 DEF Owned
  <2>2. CASE q = r /\ \E o \in Orgs, u \in Users : RemoveMemberRead(r, o, u)
    <3>1. PICK o \in Orgs, u \in Users : RemoveMemberRead(r, o, u)
      BY <2>2
    <3>2. Owned(o) /\ role[o][u] # "OWNER" /\ UNCHANGED role
      BY <3>1, NotTheOwner DEF RemoveMemberRead, tables
    <3>3. req'[r].org = o /\ req'[r].user = u
      BY <3>1 DEF RemoveMemberRead, Begin, BaseInv, TypeOK
    <3> QED BY <2>2, <3>2, <3>3 DEF Owned
  <2> QED BY <2>1, <2>2
<1> QED BY <1>4, <1>7, <1>8, <1>9 DEF OwnerInv

\* An org has one owner at most, and a removal under way is of somebody else.
LEMMA OwnerInvHolds == Spec => []OwnerInv
<1>1. Init => OwnerInv
  BY DEF Init, OwnerInv, Idle
<1>2. BaseInv /\ OwnerInv /\ [Next]_vars => OwnerInv'
  <2> SUFFICES ASSUME BaseInv, OwnerInv, [Next]_vars PROVE OwnerInv'
    OBVIOUS
  <2>1. CASE UNCHANGED <<role, req>>
    BY <2>1 DEF OwnerInv, Owned
  <2> QED BY <2>1, RoleKept, OwnerInductive DEF Next, Step
<1> QED BY <1>1, <1>2, BaseInvHolds, PTL DEF Spec

\* No sequence of removals, invites and sessions takes an org's owner away, though
\* RemoveMember deletes by user and org only.
THEOREM OwnersAreKept == Spec => OwnersStay
<1>1. BaseInv /\ OwnerInv /\ [Next]_vars =>
        [\A o \in Orgs, u \in Users : role[o][u] = "OWNER" => role'[o][u] = "OWNER"]_vars
  <2> SUFFICES ASSUME BaseInv, OwnerInv, [Next]_vars, NEW o \in Orgs, NEW u \in Users,
                      role[o][u] = "OWNER"
               PROVE  role'[o][u] = "OWNER"
    OBVIOUS
  <2> QED BY RoleKept, OwnersKept DEF Next, Step
<1> QED BY <1>1, BaseInvHolds, OwnerInvHolds, PTL DEF Spec, OwnersStay

-----------------------------------------------------------------------------
(***************************************************************************)
(* Accepted invites.  A session is about to mark an invite ACCEPTED only   *)
(* when its user has been a member of the invite's org.                    *)
(***************************************************************************)
AcceptInv ==
  /\ AcceptedMeansJoined
  /\ \A r \in Requests :
       req[r].at = "settling" => <<inviteOrg[OldestInvite(r)], req[r].user>> \in everMember

\* A session comes to settle an invite because its user is in the invite's org.
LEMMA Settles ==
  ASSUME BaseInv, NEW r \in Requests, Step(r), req'[r].at = "settling"
  PROVE  /\ req[r].queue # {} /\ req'[r].queue = req[r].queue /\ req'[r].user = req[r].user
         /\ <<inviteOrg[OldestInvite(r)], req[r].user>> \in everMember'
<1>1. AcceptCheckRole(r) \/ JoinAdd(r) \/ JoinRecheck(r)
  BY Lands DEF Step, Session, OwnerSteps
<1>2. TablesKeep /\ req[r] \in Handler
  BY StepReaches DEF Step, BaseInv, TypeOK
<1>3. ASSUME req[r].queue # {}, req[r].at \in AcceptSteps
      PROVE  /\ Joining(r) = inviteOrg[OldestInvite(r)]
             /\ Joining(r) \in Orgs /\ req[r].user \in Users
  BY <1>3, AtInvite DEF Joining, Existing, BaseInv, ReadsInv, Reads, AcceptSteps, JoinSteps
<1>4. CASE AcceptCheckRole(r)
  <2>1. req[r].queue # {} /\ req[r].at \in AcceptSteps
    BY <1>4 DEF AcceptCheckRole, AcceptSteps
  <2>2. IsMember(Joining(r), req[r].user)
    BY <1>2, <1>4 DEF AcceptCheckRole, Proceed, BaseInv, TypeOK, Handler
  <2>3. req'[r].queue = req[r].queue /\ req'[r].user = req[r].user
    BY <1>2, <1>4 DEF AcceptCheckRole, Proceed, BaseInv, TypeOK, Handler
  <2>4. <<Joining(r), req[r].user>> \in everMember
    BY <1>3, <2>1, <2>2 DEF BaseInv, PastInv
  <2> QED BY <1>2, <1>3, <2>1, <2>3, <2>4 DEF TablesKeep
<1>5. CASE JoinAdd(r) \/ JoinRecheck(r)
  <2>1. req[r].at \in JoinSteps
    BY <1>5 DEF JoinAdd, JoinRecheck, JoinSteps
  <2>2. Joined(r)
    <3>1. Proceed(r, "duplicate") => req'[r].at = "duplicate"
      BY <1>2 DEF Proceed, BaseInv, TypeOK, Handler
    <3>2. Finish(r) => req'[r].at = "idle"
      BY DEF Finish, Idle, BaseInv, TypeOK
    <3> QED BY <1>5, <3>1, <3>2 DEF JoinAdd, JoinRecheck
  <2>3. req[r].queue # {}
    BY <2>2 DEF Joined, Issue, BaseInv, TypeOK
  <2>4. req'[r].queue = req[r].queue /\ req'[r].user = req[r].user
    BY <1>2, <2>1, <2>2, <2>3, JoinedReaches
  <2>5. AddMembership(Joining(r), req[r].user, "MEMBER") \/ IsMember(Joining(r), req[r].user)
    <3>1. Proceed(r, "duplicate") => req'[r].at = "duplicate"
      BY <1>2 DEF Proceed, BaseInv, TypeOK, Handler
    <3>2. Finish(r) => req'[r].at = "idle"
      BY DEF Finish, Idle, BaseInv, TypeOK
    <3> QED BY <1>5, <3>1, <3>2 DEF JoinAdd, JoinRecheck
  <2>6. /\ Joining(r) = inviteOrg[OldestInvite(r)]
        /\ Joining(r) \in Orgs /\ req[r].user \in Users
    BY <1>3, <2>1, <2>3 DEF AcceptSteps
  <2>7. <<Joining(r), req[r].user>> \in everMember'
    <3>1. CASE AddMembership(Joining(r), req[r].user, "MEMBER")
      BY <3>1 DEF AddMembership
    <3>2. CASE IsMember(Joining(r), req[r].user)
      BY <1>2, <2>6, <3>2 DEF BaseInv, PastInv, TablesKeep
    <3> QED BY <2>5, <3>1, <3>2
  <2> QED BY <2>3, <2>4, <2>6, <2>7
<1> QED BY <1>1, <1>4, <1>5

\* An invite is marked ACCEPTED only when its user has been a member.
LEMMA AcceptInductive ==
  ASSUME BaseInv, AcceptInv, NEW r \in Requests, Step(r)
  PROVE  AcceptInv'
<1>1. Reaches(r) /\ TablesKeep /\ OnlyChanges(r)
  BY StepReaches DEF Step, Reaches
<1>2. ASSUME NEW i \in Invites, inviteStatus'[i] = "ACCEPTED"
      PROVE  <<inviteOrg'[i], invitee'[i]>> \in everMember'
  <2>1. CASE inviteStatus[i] = "ACCEPTED"
    BY <1>1, <2>1 DEF TablesKeep, AcceptInv, AcceptedMeansJoined
  <2>2. CASE inviteStatus[i] # "ACCEPTED"
    <3>1. AcceptSettle(r) \/ CreateInviteInsert(r) \/ RevokeInviteWrite(r)
      BY <1>2, <2>2
      DEF Step, Owner, Session, End, RemoveMemberRead, CreateInviteBegin, RemoveMemberWrite,
          CreateInviteCheckMember, CreateInviteCheckPending, RevokeInviteRead,
          CreateOrgInsert, CreateOrgAddOwner, SwitchOrgBegin, SwitchOrg, SessionBegin,
          AcceptCheckRole, JoinCheckPolicy, JoinAdd, JoinRecheck, LoginScope, LoginAutoJoin,
          RefreshScope, MeAnswer, tables
    <3>2. \A j, to : to # "ACCEPTED" /\ inviteStatus' = [inviteStatus EXCEPT ![j] = to] =>
             inviteStatus'[i] # "ACCEPTED"
      BY <2>2 DEF BaseInv, TypeOK
    <3>3. AcceptSettle(r)
      BY <1>2, <3>1, <3>2 DEF CreateInviteInsert, RevokeInviteWrite, SetStatus
    <3>4. req[r].at = "settling" /\ req[r].queue # {} /\ i = OldestInvite(r)
      BY <1>2, <2>2, <3>3 DEF AcceptSettle, SetStatus, BaseInv, TypeOK, ReadsInv, Reads
    <3>5. invitee[i] = req[r].user
      BY <3>4, AtInvite DEF BaseInv, ReadsInv, Reads, AcceptSteps
    <3>6. <<inviteOrg[i], invitee[i]>> \in everMember
      BY <3>4, <3>5 DEF AcceptInv
    <3>7. UNCHANGED <<inviteOrg, invitee, everMember>>
      BY <3>3 DEF AcceptSettle
    <3> QED BY <3>6, <3>7
  <2> QED BY <2>1, <2>2
<1>3. ASSUME NEW q \in Requests, req'[q].at = "settling"
      PROVE  <<inviteOrg[OldestInvite(q)], req[q].user>>' \in everMember'
  <2>1. /\ req[q].queue # {} /\ req'[q].queue = req[q].queue /\ req'[q].user = req[q].user
        /\ <<inviteOrg[OldestInvite(q)], req[q].user>> \in everMember'
    <3>1. CASE q = r
      BY <1>3, <3>1, Settles
    <3>2. CASE q # r
      <4>1. req'[q] = req[q]
        BY <1>1, <3>2 DEF OnlyChanges
      <4> QED BY <1>1, <1>3, <4>1 DEF AcceptInv, TablesKeep, BaseInv, ReadsInv, Reads
    <3> QED BY <3>1, <3>2
  <2>2. OldestInvite(q)' = OldestInvite(q)
    BY <2>1 DEF OldestInvite
  <2>3. inviteOrg'[OldestInvite(q)] = inviteOrg[OldestInvite(q)]
    BY <1>1, <2>1, AtInvite DEF TablesKeep
  <2> QED BY <2>1, <2>2, <2>3
<1> QED BY <1>2, <1>3 DEF AcceptInv, AcceptedMeansJoined

\* The steps of nobody's request.
LEMMA OthersKeepInvites ==
  UNCHANGED vars \/ (\E o \in Orgs, how \in {"invited", "domain"} : UpdateOrg(o, how))
    => UNCHANGED <<role, inviteStatus, inviteOrg, invitee, req, everMember, memberSince, out>>
BY DEF vars, tables, UpdateOrg

\* An invite is ACCEPTED only when the invited user has become a member.
THEOREM AcceptedHaveJoined == Spec => []AcceptedMeansJoined
<1>1. Init => AcceptInv
  BY DEF Init, AcceptInv, AcceptedMeansJoined, Idle
<1>2. BaseInv /\ AcceptInv /\ [Next]_vars => AcceptInv'
  <2> SUFFICES ASSUME BaseInv, AcceptInv, [Next]_vars PROVE AcceptInv'
    OBVIOUS
  <2>1. CASE UNCHANGED <<role, inviteStatus, inviteOrg, invitee, req, everMember, memberSince, out>>
    BY <2>1 DEF AcceptInv, AcceptedMeansJoined, OldestInvite
  <2> QED BY <2>1, OthersKeepInvites, AcceptInductive DEF Next, Step
<1>3. AcceptInv => AcceptedMeansJoined
  BY DEF AcceptInv
<1> QED BY <1>1, <1>2, <1>3, BaseInvHolds, PTL DEF Spec

-----------------------------------------------------------------------------
(***************************************************************************)
(* The scope of sessions.  While a session request is under way its        *)
(* history holds every org its user belongs to, and the org it has joined. *)
(***************************************************************************)
Watching(r) == req[r].at \notin OwnerSteps \cup {"idle"} /\ req[r].kind # "me"

ScopeInv ==
  \A r \in Requests :
    /\ Watching(r) =>
         /\ \A o \in Orgs : IsMember(o, req[r].user) => o \in memberSince[r]
         /\ req[r].joined # None => req[r].joined \in memberSince[r]
         /\ req[r].at = "issued" /\ req[r].org # None => req[r].org \in memberSince[r]
    /\ req[r].at \in JoinSteps \cup {"orgless"} /\ req[r].queue = {} => req[r].kind # "me"
    /\ req[r].at = "issued" => req[r].kind # "me"

MemberAfter(o, u) == role'[o][u] # "none"

\* What r's step says of the org it has joined, the org of its token pair and its kind.
ScopedWell(r) ==
  /\ \/ req'[r].joined = None
     \/ Watching(r) /\ req'[r].joined = req[r].joined
     \/ req[r].kind = "me" /\ req'[r].kind = "me"
     \/ req'[r].joined \in Orgs /\ MemberAfter(req'[r].joined, req'[r].user)
  /\ req'[r].at = "issued" =>
       \/ req'[r].org = None
       \/ Watching(r) /\ req'[r].org = req[r].joined
       \/ req'[r].org \in Orgs /\ MemberAfter(req'[r].org, req'[r].user)
  /\ req'[r].at \in JoinSteps \cup {"orgless"} /\ req'[r].queue = {} => req'[r].kind # "me"
  /\ req'[r].at = "issued" => req'[r].kind # "me"

\* A session that is issued is scoped to an org of its user's, or to one just joined.
LEMMA IssueScoped ==
  ASSUME BaseInv, NEW r \in Requests, NEW o, Issue(r, o),
         \/ o = None
         \/ o \in Orgs /\ MemberAfter(o, req[r].user)
         \/ Watching(r) /\ o = req[r].joined
  PROVE  ScopedWell(r)
<1>1. req'[r] = [at |-> "issued", kind |-> None, user |-> req[r].user, org |-> o,
                 queue |-> {}, joined |-> None]
  BY DEF Issue, BaseInv, TypeOK
<1> QED BY <1>1, MembershipAssumption DEF ScopedWell, MemberAfter, JoinSteps

\* A step that goes on within the same request for the same user.
LEMMA GoesScoped ==
  ASSUME BaseInv, ScopeInv, NEW r \in Requests, NEW at \in Steps \ {"issued"}, Proceed(r, at),
         req[r].at \notin OwnerSteps \cup {"idle"},
         at \in JoinSteps \cup {"orgless"} /\ req[r].queue = {} => req[r].kind # "me"
  PROVE  ScopedWell(r)
<1>1. /\ req'[r].at = at /\ req'[r].kind = req[r].kind /\ req'[r].user = req[r].user
      /\ req'[r].queue = req[r].queue /\ req'[r].joined = req[r].joined
  BY DEF Proceed, BaseInv, TypeOK, Handler
<1> QED BY <1>1 DEF ScopedWell, Watching

\* A request that ends has issued nothing.
LEMMA EndScoped ==
  ASSUME BaseInv, NEW r \in Requests, Finish(r)
  PROVE  ScopedWell(r)
<1>1. req'[r] = Idle
  BY DEF Finish, BaseInv, TypeOK
<1> QED BY <1>1 DEF ScopedWell, Idle, JoinSteps

\* A request's first step.
LEMMA BeginScoped ==
  ASSUME BaseInv, NEW r \in Requests, NEW at, NEW kind, NEW u, NEW o, NEW queue,
         Begin(r, at, kind, u, o, queue), at \notin JoinSteps \cup {"orgless", "issued"}
  PROVE  ScopedWell(r)
<1>1. req'[r] = [at |-> at, kind |-> kind, user |-> u, org |-> o,
                 queue |-> queue, joined |-> None]
  BY DEF Begin, BaseInv, TypeOK
<1> QED BY <1>1 DEF ScopedWell

\* A join is of an org whose member the user is after it.
LEMMA JoinedScoped ==
  ASSUME BaseInv, ScopeInv, TablesKeep, NEW r \in Requests, req[r].at \in JoinSteps, Joined(r),
         MemberAfter(Joining(r), req[r].user)
  PROVE  ScopedWell(r)
<1>1. Joining(r) \in Orgs
  BY AtInvite DEF Existing
<1>2. CASE req[r].queue # {}
  <2>1. /\ req'[r].at = "settling" /\ req'[r].joined = Joining(r)
        /\ req'[r].kind = req[r].kind /\ req'[r].user = req[r].user
    BY <1>2, JoinedReaches
  <2> QED BY <1>1, <2>1 DEF ScopedWell, JoinSteps
<1>3. CASE req[r].queue = {}
  <2>1. Issue(r, Joining(r))
    BY <1>3 DEF Joined
  <2> QED BY <1>1, <2>1, IssueScoped
<1> QED BY <1>2, <1>3

\* Going on to the next invite keeps what has been joined.
LEMMA NextInviteScoped ==
  ASSUME BaseInv, ScopeInv, TablesKeep, NEW r \in Requests, req[r].at \in AcceptSteps,
         req' = [req EXCEPT ![r].at = "accepting", ![r].queue = @ \ {OldestInvite(r)}]
  PROVE  ScopedWell(r)
<1>1. /\ req'[r].at = "accepting" /\ req'[r].kind = req[r].kind /\ req'[r].user = req[r].user
      /\ req'[r].joined = req[r].joined
  BY NextInvite
<1> QED BY <1>1 DEF ScopedWell, Watching, AcceptSteps, JoinSteps, OwnerSteps

\* Every statement of a session's request.
LEMMA SessionScoped ==
  ASSUME BaseInv, ScopeInv, NEW r \in Requests, Step(r), ~Owner(r)
  PROVE  ScopedWell(r)
<1>0. TablesKeep /\ req[r] \in Handler /\ Reads(r)
  BY StepReaches DEF Step, BaseInv, TypeOK, ReadsInv
<1>1. ASSUME NEW u \in Users, NEW how \in {"invited", "domain"}, CreateOrgInsert(r, u, how)
      PROVE  ScopedWell(r)
  BY <1>1, BeginScoped DEF CreateOrgInsert, JoinSteps
<1>2. CASE CreateOrgAddOwner(r)
  BY <1>2, GoesScoped, EndScoped DEF CreateOrgAddOwner, OwnerSteps, Steps, JoinSteps
<1>3. ASSUME NEW o \in Orgs, NEW u \in Users, SwitchOrgBegin(r, u, o)
      PROVE  ScopedWell(r)
  BY <1>3, BeginScoped DEF SwitchOrgBegin, JoinSteps
<1>4. CASE SwitchOrg(r)
  <2>1. req[r].org \in Orgs \cup {None} /\ UNCHANGED role
    BY <1>0, <1>4 DEF SwitchOrg, Handler, tables
  <2>2. CASE Issue(r, req[r].org) /\ IsMember(req[r].org, req[r].user)
    BY <2>1, <2>2, IssueScoped DEF MemberAfter, IsMember
  <2> QED BY <1>4, <2>2, EndScoped DEF SwitchOrg
<1>5. ASSUME NEW kind \in Kinds, NEW u \in Users, NEW claim \in Orgs \cup {None},
             SessionBegin(r, kind, u, claim)
      PROVE  ScopedWell(r)
  BY <1>5, BeginScoped DEF SessionBegin, JoinSteps
<1>6. CASE AcceptCheckRole(r)
  <2>1. Proceed(r, "settling") \/ Proceed(r, "joining")
    BY <1>6 DEF AcceptCheckRole
  <2>2. req[r].at = "accepting" /\ req[r].queue # {}
    BY <1>6 DEF AcceptCheckRole
  <2> QED BY <2>1, <2>2, GoesScoped DEF OwnerSteps, Steps, JoinSteps
<1>7. CASE JoinCheckPolicy(r)
  <2>1. req[r].at = "joining"
    BY <1>7 DEF JoinCheckPolicy
  <2>2. CASE Proceed(r, "adding")
    BY <2>1, <2>2, GoesScoped DEF OwnerSteps, Steps, JoinSteps, ScopeInv
  <2>3. CASE Skip(r)
    BY <1>0, <2>1, <2>3, NextInviteScoped, IssueScoped DEF Skip, AcceptSteps, JoinSteps
  <2> QED BY <1>7, <2>2, <2>3 DEF JoinCheckPolicy
<1>8. CASE JoinAdd(r)
  <2>1. req[r].at = "adding"
    BY <1>8 DEF JoinAdd
  <2>2. CASE Proceed(r, "duplicate")
    BY <2>1, <2>2, GoesScoped DEF OwnerSteps, Steps, JoinSteps, ScopeInv
  <2>3. CASE AddMembership(Joining(r), req[r].user, "MEMBER") /\ Joined(r)
    <3>1. Joining(r) \in Orgs /\ req[r].user \in Users
      BY <2>1, AtInvite DEF Existing, JoinSteps
    <3>2. MemberAfter(Joining(r), req[r].user)
      BY <2>3, <3>1 DEF AddMembership, MemberAfter, BaseInv, TypeOK
    <3> QED BY <1>0, <2>1, <2>3, <3>2, JoinedScoped DEF JoinSteps
  <2> QED BY <1>8, <2>2, <2>3 DEF JoinAdd
<1>9. CASE JoinRecheck(r)
  <2>1. req[r].at = "duplicate" /\ UNCHANGED role
    BY <1>9 DEF JoinRecheck, tables
  <2>2. CASE IsMember(Joining(r), req[r].user) /\ Joined(r)
    <3>1. MemberAfter(Joining(r), req[r].user)
      BY <2>1, <2>2 DEF MemberAfter, IsMember
    <3> QED BY <1>0, <2>1, <2>2, <3>1, JoinedScoped DEF JoinSteps
  <2> QED BY <1>9, <2>2, EndScoped DEF JoinRecheck
<1>10. CASE AcceptSettle(r)
  BY <1>0, <1>10, NextInviteScoped DEF AcceptSettle, AcceptSteps
<1>11. CASE LoginScope(r)
  <2>1. req[r].at = "accepting" /\ req[r].kind = "login" /\ UNCHANGED role
    BY <1>11 DEF LoginScope, Accepted, tables
  <2>2. ASSUME NEW o \in OrgsOf(req[r].user), Issue(r, o)
        PROVE  ScopedWell(r)
    BY <2>1, <2>2, IssueScoped DEF OrgsOf, MemberAfter, IsMember
  <2>3. CASE Proceed(r, "orgless")
    BY <2>1, <2>3, GoesScoped DEF OwnerSteps, Steps, JoinSteps
  <2> QED BY <1>11, <2>2, <2>3 DEF LoginScope
<1>12. CASE LoginAutoJoin(r)
  <2>1. req[r].at = "orgless" /\ req[r].queue = {} /\ req[r].kind # "me"
    BY <1>0, <1>12 DEF LoginAutoJoin, Reads, ScopeInv
  <2>2. CASE req' = [req EXCEPT ![r].at = "joining", ![r].org = Least(DomainOrgs)]
    <3>1. req'[r].at = "joining" /\ req'[r].kind = req[r].kind /\ req'[r].joined = req[r].joined
      BY <1>0, <2>2 DEF Handler, BaseInv, TypeOK
    <3> QED BY <2>1, <3>1 DEF ScopedWell, Watching, OwnerSteps
  <2> QED BY <1>12, <2>2, IssueScoped DEF LoginAutoJoin
<1>13. CASE RefreshScope(r)
  <2>1. /\ req[r].at = "accepting" /\ req[r].kind = "refresh" /\ UNCHANGED role
        /\ Issue(r, RefreshedOrg(r))
    BY <1>13 DEF RefreshScope, Accepted, tables
  <2>2. Watching(r)
    BY <2>1 DEF Watching, OwnerSteps
  <2>3. RefreshedOrg(r) = req[r].joined \/ RefreshedOrg(r) \in OrgsOf(req[r].user)
    BY DEF RefreshedOrg
  <2> QED BY <2>1, <2>2, <2>3, IssueScoped DEF OrgsOf, MemberAfter, IsMember
<1>14. CASE MeAnswer(r) \/ End(r)
  BY <1>14, EndScoped DEF MeAnswer, End
<1> QED
  BY <1>1, <1>2, <1>3, <1>4, <1>5, <1>6, <1>7, <1>8, <1>9, <1>10, <1>11, <1>12, <1>13, <1>14
  DEF Step, Session

\* The histories go on: they only grow, and hold what their users belong to by now.
LEMMA WatchGrows ==
  ASSUME BaseInv, Watch, NEW q \in Requests, req'[q].at \notin OwnerSteps \cup {"idle"},
         req'[q].kind # "me"
  PROVE  /\ memberSince[q] \subseteq memberSince'[q]
         /\ \A o \in Orgs : MemberAfter(o, req'[q].user) => o \in memberSince'[q]
BY DEF Watch, MemberAfter

\* Every step keeps the scope of the sessions.
LEMMA ScopeInductive ==
  ASSUME BaseInv, ScopeInv, NEW r \in Requests, Step(r)
  PROVE  ScopeInv'
<1>1. OnlyChanges(r) /\ Watch
  BY StepReaches DEF Step, Reaches
<1>2. Owner(r) => req'[r].at \in OwnerSteps \cup {"idle"}
  BY Lands DEF OwnerSteps
<1> DEFINE Scoped(q) ==
      /\ req'[q].at \notin OwnerSteps \cup {"idle"} /\ req'[q].kind # "me" =>
           /\ \A o \in Orgs : MemberAfter(o, req'[q].user) => o \in memberSince'[q]
           /\ req'[q].joined # None => req'[q].joined \in memberSince'[q]
           /\ req'[q].at = "issued" /\ req'[q].org # None => req'[q].org \in memberSince'[q]
      /\ req'[q].at \in JoinSteps \cup {"orgless"} /\ req'[q].queue = {} => req'[q].kind # "me"
      /\ req'[q].at = "issued" => req'[q].kind # "me"
<1>3. ASSUME NEW q \in Requests \ {r}
      PROVE  Scoped(q)
  <2>1. req'[q] = req[q]
    BY <1>1 DEF OnlyChanges
  <2> QED BY <1>1, <2>1, WatchGrows DEF ScopeInv, Watching
<1>4. CASE Owner(r)
  <2>1. req'[r].at \in OwnerSteps \cup {"idle"}
    BY <1>2, <1>4
  <2> QED BY <2>1, <1>3 DEF ScopeInv, Watching, IsMember, MemberAfter, OwnerSteps, JoinSteps
<1>5. CASE ~Owner(r)
  <2>1. ScopedWell(r)
    BY <1>5, SessionScoped
  <2>2. Scoped(r)
    BY <1>1, <2>1, WatchGrows DEF ScopedWell, ScopeInv, Watching, OwnerSteps
  <2> QED BY <1>3, <2>2 DEF ScopeInv, Watching, IsMember, MemberAfter
<1> QED BY <1>4, <1>5

\* A token pair is scoped to an org its user has belonged to since the request began,
\* whichever removals, invites and other sessions run in between.
THEOREM ScopesWereMemberships == Spec => []SessionScopeWasMember
<1>1. Init => ScopeInv
  BY DEF Init, ScopeInv, Watching, Idle, JoinSteps
<1>2. BaseInv /\ ScopeInv /\ [Next]_vars => ScopeInv'
  <2> SUFFICES ASSUME BaseInv, ScopeInv, [Next]_vars PROVE ScopeInv'
    OBVIOUS
  <2>1. CASE UNCHANGED <<role, inviteStatus, inviteOrg, invitee, req, everMember, memberSince, out>>
    BY <2>1 DEF ScopeInv, Watching, IsMember
  <2> QED BY <2>1, OthersKeepInvites, ScopeInductive DEF Next, Step
<1>3. ScopeInv => SessionScopeWasMember
  BY DEF ScopeInv, SessionScopeWasMember, Watching, OwnerSteps
<1> QED BY <1>1, <1>2, <1>3, BaseInvHolds, PTL DEF Spec

-----------------------------------------------------------------------------
(***************************************************************************)
(* The policy's cap.  A request that is past the policy and before its     *)
(* insert is as good as a member: nobody counts it, and every one of them  *)
(* holds a request slot.                                                   *)
(***************************************************************************)
Adding(o) ==
  {r \in Requests : \/ req[r].at = "adding" /\ Joining(r) = o
                    \/ req[r].at = "orgInserted" /\ req[r].org = o}

CapInv ==
  \A o \in Orgs :
    Cardinality(Members(o)) + Cardinality(Adding(o)) < MemberCap + Cardinality(Requests)

\* The members and the requests that are adding one are finitely many.
LEMMA Counts ==
  ASSUME NEW o \in Orgs
  PROVE  /\ IsFiniteSet(Members(o)) /\ Cardinality(Members(o)) \in Nat
         /\ IsFiniteSet(Adding(o)) /\ Cardinality(Adding(o)) \in Nat
         /\ Cardinality(Requests) \in Nat
         /\ Cardinality(Adding(o)) <= Cardinality(Requests)
<1>1. Members(o) \subseteq Users /\ Adding(o) \subseteq Requests
  BY DEF Members, Adding
<1>2. IsFiniteSet(Users) /\ IsFiniteSet(Requests)
  BY MembershipAssumption
<1> QED BY <1>1, <1>2, FS_Subset, FS_CardinalityType

\* One element more makes a set larger by one at most.
LEMMA OneMore ==
  ASSUME NEW S, IsFiniteSet(S), NEW x
  PROVE  IsFiniteSet(S \cup {x}) /\ Cardinality(S \cup {x}) <= Cardinality(S) + 1
<1>1. Cardinality(S) \in Nat
  BY FS_CardinalityType
<1>2. CASE x \in S
  <2>1. S \cup {x} = S
    BY <1>2
  <2>2. IsFiniteSet(S \cup {x}) /\ Cardinality(S \cup {x}) = Cardinality(S)
    BY <2>1, Zenon
  <2> QED BY <1>1, <2>2
<1>3. CASE x \notin S
  <2>1. IsFiniteSet(S \cup {x}) /\ Cardinality(S \cup {x}) = Cardinality(S) + 1
    BY <1>3, FS_AddElement
  <2> QED BY <1>1, <2>1
<1> QED BY <1>2, <1>3

\* A request comes to add a member right after the policy allowed it, or into a new org.
LEMMA ComesToAdd ==
  ASSUME BaseInv, NEW r \in Requests, Step(r),
         req'[r].at = "adding" \/ req'[r].at = "orgInserted"
  PROVE  /\ UNCHANGED role
         /\ req'[r].at = "adding" =>
              /\ CanAddMember(Joining(r))
              /\ Joining(r)' = Joining(r)
         /\ req'[r].at = "orgInserted" =>
              req'[r].org \in Orgs /\ Members(req'[r].org) = {}
<1>0. req[r] \in Handler /\ Reads(r) /\ TablesKeep
  BY StepReaches DEF Step, BaseInv, TypeOK, ReadsInv
<1>1. CASE req'[r].at = "adding"
  <2>1. JoinCheckPolicy(r)
    BY <1>1, Lands DEF Step, Session, OwnerSteps
  <2>2. ~Skip(r)
    <3>1. \A o : Issue(r, o) => req'[r].at = "issued"
      BY DEF Issue, BaseInv, TypeOK
    <3> QED BY <1>0, <1>1, <3>1 DEF Skip, Handler, BaseInv, TypeOK
  <2>3. CanAddMember(Joining(r)) /\ Proceed(r, "adding")
    BY <2>1, <2>2 DEF JoinCheckPolicy
  <2>4. req'[r].queue = req[r].queue /\ req'[r].org = req[r].org /\ UNCHANGED <<inviteOrg, role>>
    BY <1>0, <2>1, <2>3 DEF JoinCheckPolicy, Proceed, Handler, BaseInv, TypeOK, tables
  <2> QED BY <1>1, <2>3, <2>4 DEF Joining, OldestInvite
<1>2. CASE req'[r].at = "orgInserted"
  <2>1. PICK u \in Users, how \in {"invited", "domain"} : CreateOrgInsert(r, u, how)
    BY <1>2, Lands DEF Step, Session, OwnerSteps
  <2> DEFINE new == Least({p \in Orgs : admits[p] = "absent"})
  <2>2. new \in Orgs /\ admits[new] = "absent"
    BY <2>1, LeastInvite DEF CreateOrgInsert
  <2>3. Begin(r, "orgInserted", None, u, new, {}) /\ UNCHANGED role
    BY <2>1 DEF CreateOrgInsert
  <2> HIDE DEF new
  <2>4. req'[r].org = new
    BY <2>3 DEF Begin, BaseInv, TypeOK
  <2> QED BY <1>2, <2>2, <2>3, <2>4 DEF BaseInv, TypeOK
<1> QED BY <1>1, <1>2

\* A new member was being added by the request whose step it is.
LEMMA NewMemberWasAdding ==
  ASSUME BaseInv, NEW r \in Requests, Step(r), NEW o \in Orgs, NEW u \in Users,
         ~IsMember(o, u), MemberAfter(o, u)
  PROVE  r \in Adding(o) /\ u = req[r].user
<1>1. \/ CreateOrgAddOwner(r) /\ o = req[r].org /\ u = req[r].user
      \/ JoinAdd(r) /\ o = Joining(r) /\ u = req[r].user
  BY RoleChanges DEF IsMember, MemberAfter
<1> QED BY <1>1 DEF CreateOrgAddOwner, JoinAdd, Adding

\* Every step keeps the members and those being added under the cap and the requests.
LEMMA CapInductive ==
  ASSUME BaseInv, CapInv, NEW r \in Requests, Step(r)
  PROVE  CapInv'
<1>1. TablesKeep /\ OnlyChanges(r)
  BY StepReaches DEF Step, Reaches
<1> SUFFICES ASSUME NEW o \in Orgs
             PROVE  (Cardinality(Members(o)) + Cardinality(Adding(o)) < MemberCap + Cardinality(Requests))'
  BY DEF CapInv
<1>2. Cardinality(Members(o)) + Cardinality(Adding(o)) < MemberCap + Cardinality(Requests)
  BY DEF CapInv
<1>3. /\ IsFiniteSet(Members(o)) /\ Cardinality(Members(o)) \in Nat
      /\ IsFiniteSet(Adding(o)) /\ Cardinality(Adding(o)) \in Nat
      /\ Cardinality(Requests) \in Nat /\ IsFiniteSet(Requests) /\ IsFiniteSet(Users)
      /\ MemberCap \in Nat \ {0}
  BY Counts, MembershipAssumption
<1>4. Adding(o)' \subseteq Requests /\ Members(o)' \subseteq Users
  BY DEF Adding, Members
<1>5. /\ IsFiniteSet(Adding(o)') /\ Cardinality(Adding(o)') \in Nat
      /\ Cardinality(Adding(o)') <= Cardinality(Requests)
      /\ IsFiniteSet(Members(o)') /\ Cardinality(Members(o)') \in Nat
  BY <1>3, <1>4, FS_Subset, FS_CardinalityType
<1>6. Adding(o)' \subseteq Adding(o) \cup {r}
  <2> SUFFICES ASSUME NEW q \in Adding(o)', q # r
               PROVE  q \in Adding(o)
    OBVIOUS
  <2>1. req'[q] = req[q] /\ q \in Requests
    BY <1>1 DEF Adding, OnlyChanges
  <2>2. req[q].queue # {} => inviteOrg'[OldestInvite(q)] = inviteOrg[OldestInvite(q)]
    BY <1>1, <2>1, AtInvite DEF TablesKeep
  <2>3. Joining(q)' = Joining(q)
    BY <2>1, <2>2 DEF Joining, OldestInvite
  <2> QED BY <2>1, <2>3 DEF Adding
<1>7. CASE r \in Adding(o)'
  <2>1. /\ UNCHANGED role
        /\ CanAddMember(o) \/ Members(o) = {}
    BY <1>7, ComesToAdd DEF Adding
  <2>2. Cardinality(Members(o)) < MemberCap
    BY <1>3, <2>1, FS_EmptySet DEF CanAddMember
  <2>3. Members(o)' = Members(o)
    BY <2>1 DEF Members, IsMember
  <2> QED BY <1>3, <1>5, <2>2, <2>3
<1>8. CASE r \notin Adding(o)' /\ Members(o)' \subseteq Members(o)
  <2>1. Adding(o)' \subseteq Adding(o)
    BY <1>6, <1>8
  <2>2. /\ Cardinality(Adding(o)') <= Cardinality(Adding(o))
        /\ Cardinality(Members(o)') <= Cardinality(Members(o))
    BY <1>3, <1>8, <2>1, FS_Subset
  <2> QED BY <1>2, <1>3, <1>5, <2>2
<1>9. CASE r \notin Adding(o)' /\ ~(Members(o)' \subseteq Members(o))
  <2>1. PICK u \in Users : u \in Members(o)' /\ u \notin Members(o)
    BY <1>4, <1>9
  <2>2. r \in Adding(o)
    BY <2>1, NewMemberWasAdding DEF Members, IsMember, MemberAfter
  <2>3. Members(o)' \subseteq Members(o) \cup {req[r].user}
    BY NewMemberWasAdding DEF Members, IsMember, MemberAfter
  <2>4. Adding(o)' \subseteq Adding(o) \ {r}
    BY <1>6, <1>9
  <2>5. /\ IsFiniteSet(Adding(o) \ {r})
        /\ Cardinality(Adding(o) \ {r}) = Cardinality(Adding(o)) - 1
    BY <1>3, <2>2, FS_RemoveElement
  <2>6. /\ IsFiniteSet(Members(o) \cup {req[r].user})
        /\ Cardinality(Members(o) \cup {req[r].user}) <= Cardinality(Members(o)) + 1
    BY <1>3, OneMore
  <2>7. Cardinality(Adding(o)') <= Cardinality(Adding(o) \ {r})
    BY <2>4, <2>5, FS_Subset
  <2>8. Cardinality(Members(o)') <= Cardinality(Members(o) \cup {req[r].user})
    BY <2>3, <2>6, FS_Subset
  <2>9. Cardinality(Members(o) \cup {req[r].user}) \in Nat
    BY <2>6, FS_CardinalityType
  <2> QED BY <1>2, <1>3, <1>5, <2>5, <2>6, <2>7, <2>8, <2>9
<1> QED BY <1>7, <1>8, <1>9

\* The policy is exceeded by no more members than there are requests at once.
THEOREM CapAndRaces == Spec => []MembersWithinCapAndRaces
<1>1. Init => CapInv
  <2> SUFFICES ASSUME Init, NEW o \in Orgs
               PROVE  Cardinality(Members(o)) + Cardinality(Adding(o)) < MemberCap + Cardinality(Requests)
    BY DEF CapInv
  <2>1. Members(o) = {} /\ Adding(o) = {}
    BY DEF Init, Members, IsMember, Adding, Idle
  <2>2. Cardinality(Requests) \in Nat /\ MemberCap \in Nat \ {0}
    BY Counts, MembershipAssumption
  <2> QED BY <2>1, <2>2, FS_EmptySet
<1>2. BaseInv /\ CapInv /\ [Next]_vars => CapInv'
  <2> SUFFICES ASSUME BaseInv, CapInv, [Next]_vars PROVE CapInv'
    OBVIOUS
  <2>1. CASE UNCHANGED <<role, inviteStatus, inviteOrg, invitee, req, everMember, memberSince, out>>
    BY <2>1 DEF CapInv, Members, IsMember, Adding, Joining, OldestInvite
  <2> QED BY <2>1, OthersKeepInvites, CapInductive DEF Next, Step
<1>3. CapInv => MembersWithinCapAndRaces
  <2> SUFFICES ASSUME CapInv, NEW o \in Orgs
               PROVE  Cardinality(Members(o)) < MemberCap + Cardinality(Requests)
    BY DEF MembersWithinCapAndRaces
  <2>1. /\ Cardinality(Members(o)) \in Nat /\ Cardinality(Adding(o)) \in Nat
        /\ Cardinality(Requests) \in Nat /\ MemberCap \in Nat
    BY Counts, MembershipAssumption
  <2> QED BY <2>1 DEF CapInv
<1> QED BY <1>1, <1>2, <1>3, BaseInvHolds, PTL DEF Spec

-----------------------------------------------------------------------------
(***************************************************************************)
(* A removed user stays out: no invite, session or half-done request lets  *)
(* them back in.                                                           *)
(***************************************************************************)

InvitingSteps == {"inviting", "inviteeOutside", "nonePending"}

\* Request q, of one of u's sessions or about u, is not on its way to add u to o.
Harmless(q, o) ==
  /\ req[q].at \in AcceptSteps => \A i \in req[q].queue : inviteOrg[i] # o
  /\ \/ req[q].at \in JoinSteps /\ req[q].queue = {}
     \/ req[q].at = "orgInserted" \/ req[q].at \in InvitingSteps
     => req[q].org # o

\* A removed user is no member, has no pending invite, and no request brings one.
OutInv ==
  \A o \in Orgs, u \in Users : <<o, u>> \in out =>
    /\ Existing(o)
    /\ ~IsMember(o, u)
    /\ ~HasPending(o, u)
    /\ \A q \in Requests : req[q].user = u => Harmless(q, o)

HarmlessAfter(q, o) ==
  /\ req'[q].at \in AcceptSteps => \A i \in req'[q].queue : inviteOrg'[i] # o
  /\ \/ req'[q].at \in JoinSteps /\ req'[q].queue = {}
     \/ req'[q].at = "orgInserted" \/ req'[q].at \in InvitingSteps
     => req'[q].org # o

-----------------------------------------------------------------------------
(***************************************************************************)
(* One step of r, for a user who is out before it and after it             *)
(***************************************************************************)
LEMMA NotBackIn ==
  ASSUME BaseInv, OutInv, NEW r \in Requests, Step(r),
         NEW o \in Orgs, NEW u \in Users, <<o, u>> \in out
  PROVE  ~MemberAfter(o, u)
<1>1. role[o][u] = "none" /\ (req[r].user = u => Harmless(r, o))
  BY DEF OutInv, IsMember
<1>2. CASE CreateOrgAddOwner(r) /\ o = req[r].org /\ u = req[r].user
  BY <1>1, <1>2 DEF CreateOrgAddOwner, Harmless
<1>3. CASE JoinAdd(r) /\ o = Joining(r) /\ u = req[r].user
  <2>1. req[r].at \in JoinSteps /\ req[r].at \in AcceptSteps
    BY <1>3 DEF JoinAdd, JoinSteps, AcceptSteps
  <2>2. req[r].queue # {} => OldestInvite(r) \in req[r].queue
    BY AtInvite
  <2> QED BY <1>1, <1>3, <2>1, <2>2 DEF Harmless, Joining
<1>4. role'[o][u] # role[o][u] =>
        \/ CreateOrgAddOwner(r) /\ o = req[r].org /\ u = req[r].user
        \/ JoinAdd(r) /\ o = Joining(r) /\ u = req[r].user
        \/ role'[o][u] = "none"
  BY RoleChanges
<1> QED BY <1>1, <1>2, <1>3, <1>4 DEF MemberAfter

\* An invite becomes PENDING only when it is inserted.
LEMMA BecomesPending ==
  ASSUME BaseInv, NEW r \in Requests, Step(r), NEW i \in Invites,
         inviteStatus[i] # "PENDING", inviteStatus'[i] = "PENDING"
  PROVE  /\ CreateInviteInsert(r)
         /\ inviteOrg'[i] = req[r].org /\ invitee'[i] = req[r].user
<1>1. AcceptSettle(r) \/ CreateInviteInsert(r) \/ RevokeInviteWrite(r)
  BY DEF Step, Owner, Session, End, RemoveMemberRead, CreateInviteBegin, RemoveMemberWrite,
         CreateInviteCheckMember, CreateInviteCheckPending, RevokeInviteRead,
         CreateOrgInsert, CreateOrgAddOwner, SwitchOrgBegin, SwitchOrg, SessionBegin,
         AcceptCheckRole, JoinCheckPolicy, JoinAdd, JoinRecheck, LoginScope, LoginAutoJoin,
         RefreshScope, MeAnswer, tables
<1>2. \A j, to : to # "PENDING" /\ inviteStatus' = [inviteStatus EXCEPT ![j] = to] =>
         inviteStatus'[i] # "PENDING"
  BY DEF BaseInv, TypeOK
<1>3. CreateInviteInsert(r)
  BY <1>1, <1>2 DEF AcceptSettle, RevokeInviteWrite, SetStatus
<1> DEFINE new == Least({j \in Invites : inviteStatus[j] = "UNUSED"})
<1>4. /\ inviteStatus' = [inviteStatus EXCEPT ![new] = "PENDING"]
      /\ inviteOrg' = [inviteOrg EXCEPT ![new] = req[r].org]
      /\ invitee' = [invitee EXCEPT ![new] = req[r].user]
  BY <1>3 DEF CreateInviteInsert
<1> HIDE DEF new
<1> QED BY <1>3, <1>4 DEF BaseInv, TypeOK

\* Nobody who is out has an invite that is still pending.
LEMMA NotInvited ==
  ASSUME BaseInv, OutInv, NEW r \in Requests, Step(r),
         NEW o \in Orgs, NEW u \in Users, <<o, u>> \in out
  PROVE  ~HasPending(o, u)'
<1> SUFFICES ASSUME NEW i \in Invites, inviteStatus'[i] = "PENDING",
                    inviteOrg'[i] = o, invitee'[i] = u
             PROVE  FALSE
  BY DEF HasPending
<1>1. TablesKeep
  BY StepReaches DEF Step
<1>2. CASE inviteStatus[i] = "PENDING"
  <2>1. inviteOrg[i] = o /\ invitee[i] = u
    BY <1>1, <1>2 DEF TablesKeep
  <2> QED BY <1>2, <2>1 DEF OutInv, HasPending
<1>3. CASE inviteStatus[i] # "PENDING"
  <2>1. CreateInviteInsert(r) /\ o = req[r].org /\ u = req[r].user
    BY <1>3, BecomesPending
  <2>2. req[r].at \in InvitingSteps
    BY <2>1 DEF CreateInviteInsert, InvitingSteps
  <2> QED BY <2>1, <2>2 DEF OutInv, Harmless
<1> QED BY <1>2, <1>3

-----------------------------------------------------------------------------
(***************************************************************************)
(* Where r stands after the step                                           *)
(***************************************************************************)
\* The records in which r can do no harm, or goes on where it did none.
LEMMA StaysHarmless ==
  ASSUME BaseInv, TablesKeep, NEW r \in Requests, NEW o \in Orgs, Harmless(r, o),
         req'[r].at \in AcceptSteps => req[r].at \in AcceptSteps /\ req'[r].queue \subseteq req[r].queue,
         req'[r].at \in JoinSteps => req'[r].queue = req[r].queue /\ req'[r].org = req[r].org,
         req'[r].at \in JoinSteps /\ req'[r].queue = {} => req[r].at \in JoinSteps,
         req'[r].at # "orgInserted",
         req'[r].at \in InvitingSteps => req[r].at \in InvitingSteps /\ req'[r].org = req[r].org
  PROVE  HarmlessAfter(r, o)
<1>1. \A i \in req[r].queue : i \in Invites /\ inviteOrg'[i] = inviteOrg[i]
  BY DEF TablesKeep, BaseInv, ReadsInv, Reads, TypeOK, Handler
<1>2. req'[r].at \in AcceptSteps => \A i \in req'[r].queue : inviteOrg'[i] # o
  BY <1>1 DEF Harmless
<1> QED BY <1>2 DEF Harmless, HarmlessAfter

\* Going on to the next statement brings back nobody who is out.
LEMMA ProceedHarmless ==
  ASSUME BaseInv, TablesKeep, NEW r \in Requests, NEW o \in Orgs, Harmless(r, o),
         NEW at, Proceed(r, at), at # "orgInserted",
         at \in AcceptSteps => req[r].at \in AcceptSteps,
         at \in JoinSteps /\ req[r].queue = {} => req[r].at \in JoinSteps,
         at \in InvitingSteps => req[r].at \in InvitingSteps
  PROVE  HarmlessAfter(r, o)
<1>1. /\ req'[r].at = at /\ req'[r].org = req[r].org /\ req'[r].queue = req[r].queue
  BY DEF Proceed, BaseInv, TypeOK, Handler
<1> QED BY <1>1, StaysHarmless

\* Neither does leaving the steps that add members.
LEMMA LeaveHarmless ==
  ASSUME NEW r \in Requests, NEW o \in Orgs,
         req'[r].at \notin AcceptSteps \cup InvitingSteps \cup {"orgInserted"}
  PROVE  HarmlessAfter(r, o)
BY DEF HarmlessAfter, AcceptSteps

\* Neither does an owner's request, unless it invites them.
LEMMA OwnerHarmless ==
  ASSUME BaseInv, OutInv, NEW r \in Requests, Owner(r), NEW o \in Orgs, NEW u \in Users,
         <<o, u>> \in out, <<o, u>> \in out', req'[r].user = u
  PROVE  HarmlessAfter(r, o)
<1>0. TablesKeep
  BY OwnerReaches
<1>1. Finish(r) => HarmlessAfter(r, o)
  BY LeaveHarmless DEF Finish, Idle, AcceptSteps, JoinSteps, InvitingSteps, BaseInv, TypeOK
<1>2. ASSUME NEW p \in Orgs, NEW v \in Users, RemoveMemberRead(r, p, v)
      PROVE  HarmlessAfter(r, o)
  <2>1. req'[r].at = "removing"
    BY <1>2 DEF RemoveMemberRead, Begin, BaseInv, TypeOK
  <2> QED BY <2>1, LeaveHarmless DEF AcceptSteps, JoinSteps, InvitingSteps
<1>3. ASSUME NEW p \in Orgs, NEW v \in Users, CreateInviteBegin(r, p, v)
      PROVE  HarmlessAfter(r, o)
  <2>1. req'[r].at = "inviting" /\ req'[r].org = p /\ req'[r].user = v
    BY <1>3 DEF CreateInviteBegin, Begin, BaseInv, TypeOK
  <2>2. p # o
    BY <1>3, <2>1 DEF CreateInviteBegin
  <2> QED BY <2>1, <2>2 DEF HarmlessAfter, AcceptSteps, JoinSteps
<1>4. ASSUME NEW i \in Invites, RevokeInviteRead(r, i)
      PROVE  HarmlessAfter(r, o)
  <2>1. req'[r].at = "revoking"
    BY <1>4 DEF RevokeInviteRead, Begin, BaseInv, TypeOK
  <2> QED BY <2>1, LeaveHarmless DEF AcceptSteps, JoinSteps, InvitingSteps
<1>5. ASSUME NEW at \in {"inviteeOutside", "nonePending"}, req[r].at \in InvitingSteps,
             Proceed(r, at)
      PROVE  HarmlessAfter(r, o)
  <2>1. req'[r].user = req[r].user
    BY <1>5 DEF Proceed, BaseInv, TypeOK, Handler
  <2>2. Harmless(r, o)
    BY <2>1 DEF OutInv
  <2> QED BY <1>0, <1>5, <2>2, ProceedHarmless DEF InvitingSteps, AcceptSteps, JoinSteps
<1>6. CASE CreateInviteCheckMember(r) \/ CreateInviteCheckPending(r)
  BY <1>1, <1>5, <1>6 DEF CreateInviteCheckMember, CreateInviteCheckPending, Check, InvitingSteps
<1>7. CASE RemoveMemberWrite(r) \/ CreateInviteInsert(r) \/ RevokeInviteWrite(r)
  BY <1>1, <1>7 DEF RemoveMemberWrite, CreateInviteInsert, RevokeInviteWrite
<1> QED BY <1>2, <1>3, <1>4, <1>6, <1>7 DEF Owner

\* Sessions take up the pending invites only, none of them to an org its user is out of.
LEMMA BeginsHarmless ==
  ASSUME BaseInv, OutInv, NEW r \in Requests, NEW kind \in Kinds, NEW v \in Users,
         NEW claim \in Orgs \cup {None}, SessionBegin(r, kind, v, claim),
         NEW o \in Orgs, NEW u \in Users, <<o, u>> \in out, req'[r].user = u
  PROVE  HarmlessAfter(r, o)
<1>1. req'[r].at = "accepting" /\ req'[r].user = v /\ req'[r].queue = PendingForEmail(v)
  BY DEF SessionBegin, Begin, BaseInv, TypeOK
<1>2. ~HasPending(o, u) /\ inviteOrg' = inviteOrg
  BY DEF OutInv, SessionBegin, tables
<1>3. \A i \in PendingForEmail(u) : inviteOrg[i] # o
  BY <1>2 DEF PendingForEmail, HasPending
<1> QED BY <1>1, <1>2, <1>3 DEF HarmlessAfter, JoinSteps, InvitingSteps

\* Nobody is out of an org that is not there.
LEMMA InsertHarmless ==
  ASSUME BaseInv, OutInv, NEW r \in Requests, NEW v \in Users, NEW how \in {"invited", "domain"},
         CreateOrgInsert(r, v, how), NEW o \in Orgs, NEW u \in Users, <<o, u>> \in out
  PROVE  HarmlessAfter(r, o)
<1> DEFINE new == Least({p \in Orgs : admits[p] = "absent"})
<1>1. new \in Orgs /\ admits[new] = "absent"
  BY LeastInvite DEF CreateOrgInsert
<1>2. Begin(r, "orgInserted", None, v, new, {})
  BY DEF CreateOrgInsert
<1> HIDE DEF new
<1>3. req'[r].at = "orgInserted" /\ req'[r].org = new
  BY <1>2 DEF Begin, BaseInv, TypeOK
<1>4. new # o
  BY <1>1 DEF OutInv, Existing
<1> QED BY <1>3, <1>4 DEF HarmlessAfter, AcceptSteps, JoinSteps

\* Login joins by domain only after the removal has been forgotten.
LEMMA AutoJoinHarmless ==
  ASSUME BaseInv, OutInv, NEW r \in Requests, LoginAutoJoin(r), NEW o \in Orgs, NEW u \in Users,
         <<o, u>> \in out, <<o, u>> \in out', req'[r].user = u
  PROVE  HarmlessAfter(r, o)
<1>1. req[r] \in Handler /\ req[r].queue = {}
  BY DEF LoginAutoJoin, BaseInv, TypeOK, ReadsInv, Reads
<1>2. CASE Issue(r, None)
  BY <1>2, LeaveHarmless
  DEF Issue, AcceptSteps, JoinSteps, InvitingSteps, BaseInv, TypeOK
<1>3. CASE /\ req' = [req EXCEPT ![r].at = "joining", ![r].org = Least(DomainOrgs)]
           /\ out' = out \ {<<Least(DomainOrgs), req[r].user>>}
  <2>1. /\ req'[r].at = "joining" /\ req'[r].org = Least(DomainOrgs)
        /\ req'[r].user = req[r].user /\ req'[r].queue = {}
    BY <1>1, <1>3 DEF Handler, BaseInv, TypeOK
  <2>2. Least(DomainOrgs) # o
    BY <1>3, <2>1
  <2> QED BY <2>1, <2>2 DEF HarmlessAfter
<1> QED BY <1>2, <1>3 DEF LoginAutoJoin

\* Neither does accepting other invites.
LEMMA AcceptHarmless ==
  ASSUME BaseInv, OutInv, TablesKeep, NEW r \in Requests, NEW o \in Orgs, Harmless(r, o),
         AcceptCheckRole(r) \/ JoinCheckPolicy(r) \/ JoinAdd(r) \/ JoinRecheck(r) \/ AcceptSettle(r)
  PROVE  HarmlessAfter(r, o)
<1>0. req[r].at \in AcceptSteps
  BY DEF AcceptCheckRole, JoinCheckPolicy, JoinAdd, JoinRecheck, AcceptSettle, AcceptSteps, JoinSteps
<1>1. ASSUME NEW org, Issue(r, org)
      PROVE  HarmlessAfter(r, o)
  BY <1>1, LeaveHarmless DEF Issue, AcceptSteps, JoinSteps, InvitingSteps, BaseInv, TypeOK
<1>2. Finish(r) => HarmlessAfter(r, o)
  BY LeaveHarmless DEF Finish, Idle, AcceptSteps, JoinSteps, InvitingSteps, BaseInv, TypeOK
<1>3. ASSUME req' = [req EXCEPT ![r].at = "accepting", ![r].queue = @ \ {OldestInvite(r)}]
      PROVE  HarmlessAfter(r, o)
  <2>1. req'[r].at = "accepting" /\ req'[r].queue \subseteq req[r].queue
    BY <1>0, <1>3, NextInvite
  <2> QED BY <1>0, <2>1, StaysHarmless DEF JoinSteps, InvitingSteps
<1>4. ASSUME req[r].at \in JoinSteps, Joined(r)
      PROVE  HarmlessAfter(r, o)
  <2>1. CASE req[r].queue # {}
    <3>1. req'[r].at = "settling" /\ req'[r].queue = req[r].queue
      BY <1>4, <2>1, JoinedReaches
    <3> QED BY <1>0, <3>1, StaysHarmless DEF JoinSteps, InvitingSteps
  <2>2. CASE req[r].queue = {}
    BY <1>1, <1>4, <2>2 DEF Joined
  <2> QED BY <2>1, <2>2
<1>5. ASSUME NEW at \in {"settling", "joining", "adding", "duplicate"}, Proceed(r, at),
             req[r].queue # {} \/ req[r].at \in JoinSteps
      PROVE  HarmlessAfter(r, o)
  BY <1>0, <1>5, ProceedHarmless DEF InvitingSteps
<1>6. CASE AcceptCheckRole(r)
  BY <1>5, <1>6 DEF AcceptCheckRole
<1>7. CASE JoinCheckPolicy(r)
  BY <1>1, <1>3, <1>5, <1>7 DEF JoinCheckPolicy, Skip, JoinSteps
<1>8. CASE JoinAdd(r)
  BY <1>4, <1>5, <1>8 DEF JoinAdd, JoinSteps
<1>9. CASE JoinRecheck(r)
  BY <1>2, <1>4, <1>9 DEF JoinRecheck, JoinSteps
<1>10. CASE AcceptSettle(r)
  BY <1>3, <1>10 DEF AcceptSettle
<1> QED BY <1>6, <1>7, <1>8, <1>9, <1>10

\* The steps that lead to none where a membership or an invite is on its way.
LEMMA DoneHarmless ==
  ASSUME BaseInv, NEW r \in Requests, NEW o \in Orgs,
         \/ CreateOrgAddOwner(r) \/ SwitchOrg(r) \/ LoginScope(r) \/ RefreshScope(r)
         \/ MeAnswer(r) \/ End(r)
         \/ \E p \in Orgs, v \in Users : SwitchOrgBegin(r, v, p)
  PROVE  HarmlessAfter(r, o)
<1>1. req'[r].at \in {"switching", "idle", "issued", "orgless"}
  <2>1. \A org : Issue(r, org) => req'[r].at = "issued"
    BY DEF Issue, BaseInv, TypeOK
  <2>2. Finish(r) => req'[r].at = "idle"
    BY DEF Finish, Idle, BaseInv, TypeOK
  <2>3. \A at : Proceed(r, at) => req'[r].at = at
    BY DEF Proceed, BaseInv, TypeOK, Handler
  <2>4. \A v, p : SwitchOrgBegin(r, v, p) => req'[r].at = "switching"
    BY DEF SwitchOrgBegin, Begin, BaseInv, TypeOK
  <2> QED BY <2>1, <2>2, <2>3, <2>4
       DEF CreateOrgAddOwner, SwitchOrg, LoginScope, RefreshScope, MeAnswer, End
<1> QED BY <1>1, LeaveHarmless DEF AcceptSteps, JoinSteps, InvitingSteps

\* Neither does any statement of any request.
LEMMA StepHarmless ==
  ASSUME BaseInv, OutInv, NEW r \in Requests, Step(r), NEW o \in Orgs, NEW u \in Users,
         <<o, u>> \in out, <<o, u>> \in out', req'[r].user = u
  PROVE  HarmlessAfter(r, o)
<1>1. TablesKeep
  BY StepReaches DEF Step
<1>2. CASE \/ AcceptCheckRole(r) \/ JoinCheckPolicy(r) \/ JoinAdd(r)
           \/ JoinRecheck(r) \/ AcceptSettle(r)
  <2>1. CASE req[r].user = u
    BY <1>1, <1>2, <2>1, AcceptHarmless DEF OutInv
  <2>2. CASE req[r].user # u
    <3>1. req'[r].at = "idle"
      <4>1. \A at : Proceed(r, at) => req'[r].user = req[r].user
        BY DEF Proceed, BaseInv, TypeOK, Handler
      <4>2. \A org : Issue(r, org) => req'[r].user = req[r].user
        BY DEF Issue, BaseInv, TypeOK
      <4>3. req' = [req EXCEPT ![r].at = "accepting", ![r].queue = @ \ {OldestInvite(r)}]
              => req'[r].user = req[r].user
        BY DEF BaseInv, TypeOK, Handler
      <4>4. Joined(r) => req'[r].user = req[r].user
        BY <4>2 DEF Joined, BaseInv, TypeOK, Handler
      <4>5. Finish(r) => req'[r].at = "idle"
        BY DEF Finish, Idle, BaseInv, TypeOK
      <4> QED BY <1>2, <2>2, <4>1, <4>2, <4>3, <4>4, <4>5
           DEF AcceptCheckRole, JoinCheckPolicy, JoinAdd, JoinRecheck, AcceptSettle, Skip
    <3> QED BY <3>1, LeaveHarmless DEF AcceptSteps, JoinSteps, InvitingSteps
  <2> QED BY <2>1, <2>2
<1>3. CASE Owner(r)
  BY <1>3, OwnerHarmless
<1>4. ASSUME NEW v \in Users, NEW how \in {"invited", "domain"}, CreateOrgInsert(r, v, how)
      PROVE  HarmlessAfter(r, o)
  BY <1>4, InsertHarmless
<1>5. ASSUME NEW kind \in Kinds, NEW v \in Users, NEW claim \in Orgs \cup {None},
             SessionBegin(r, kind, v, claim)
      PROVE  HarmlessAfter(r, o)
  BY <1>5, BeginsHarmless
<1>6. CASE LoginAutoJoin(r)
  BY <1>6, AutoJoinHarmless
<1>7. CASE \/ CreateOrgAddOwner(r) \/ SwitchOrg(r) \/ LoginScope(r) \/ RefreshScope(r)
           \/ MeAnswer(r) \/ End(r)
           \/ \E p \in Orgs, v \in Users : SwitchOrgBegin(r, v, p)
  BY <1>7, DoneHarmless
<1> QED BY <1>2, <1>3, <1>4, <1>5, <1>6, <1>7 DEF Step, Session

-----------------------------------------------------------------------------
(***************************************************************************)
(* The invariant                                                           *)
(***************************************************************************)
\* Only a removal puts a user out, and only while nothing brings them in.
LEMMA PutOut ==
  ASSUME BaseInv, NEW r \in Requests, Step(r), NEW o \in Orgs, NEW u \in Users,
         <<o, u>> \notin out, <<o, u>> \in out'
  PROVE  /\ Existing(o) /\ ~MemberAfter(o, u) /\ ~HasPending(o, u)'
         /\ \A q \in Requests : req'[q].user = u => HarmlessAfter(q, o)
<1>1. RemoveMemberWrite(r)
  BY DEF Step, Owner, Session, End, RemoveMemberRead, CreateInviteBegin, CreateInviteInsert,
         CreateInviteCheckMember, CreateInviteCheckPending, RevokeInviteRead, RevokeInviteWrite,
         CreateOrgInsert, CreateOrgAddOwner, SwitchOrgBegin, SwitchOrg, SessionBegin,
         AcceptCheckRole, JoinCheckPolicy, JoinAdd, JoinRecheck, AcceptSettle, LoginScope,
         LoginAutoJoin, RefreshScope, MeAnswer, tables
<1>2. o = req[r].org /\ u = req[r].user /\ CleanRemoval(r)
  BY <1>1 DEF RemoveMemberWrite
<1>3. Existing(o) /\ OnlyChanges(r)
  BY <1>1, <1>2, StepReaches
  DEF RemoveMemberWrite, OwnerSteps, BaseInv, ReadsInv, Reads, Step, Reaches
<1>4. ~MemberAfter(o, u)
  BY <1>1, <1>2 DEF RemoveMemberWrite, MemberAfter, BaseInv, TypeOK
<1>5. ~HasPending(o, u)'
  BY <1>1, <1>2 DEF RemoveMemberWrite, CleanRemoval, HasPending
<1>6. ASSUME NEW q \in Requests, req'[q].user = u
      PROVE  HarmlessAfter(q, o)
  <2>1. req'[q].at \in {"idle", "issued", "removing"}
    <3>1. CASE q = r
      BY <1>1, <3>1 DEF RemoveMemberWrite, Finish, Idle, BaseInv, TypeOK
    <3>2. CASE q # r
      BY <1>2, <1>3, <1>6, <3>2 DEF OnlyChanges, CleanRemoval
    <3> QED BY <3>1, <3>2
  <2> QED BY <2>1, LeaveHarmless DEF AcceptSteps, JoinSteps, InvitingSteps
<1> QED BY <1>3, <1>4, <1>5, <1>6

\* Every step keeps out who is out.
LEMMA OutInductive ==
  ASSUME BaseInv, OutInv, NEW r \in Requests, Step(r)
  PROVE  OutInv'
<1>1. TablesKeep /\ OnlyChanges(r)
  BY StepReaches DEF Step, Reaches
<1>2. ASSUME NEW o \in Orgs, NEW u \in Users, <<o, u>> \in out'
      PROVE  /\ Existing(o) /\ ~MemberAfter(o, u) /\ ~HasPending(o, u)'
             /\ \A q \in Requests : req'[q].user = u => HarmlessAfter(q, o)
  <2>1. CASE <<o, u>> \notin out
    BY <1>2, <2>1, PutOut
  <2>2. CASE <<o, u>> \in out
    <3>1. Existing(o) /\ ~MemberAfter(o, u) /\ ~HasPending(o, u)'
      BY <2>2, NotBackIn, NotInvited DEF OutInv
    <3>2. ASSUME NEW q \in Requests, req'[q].user = u
          PROVE  HarmlessAfter(q, o)
      <4>1. CASE q = r
        BY <1>2, <2>2, <3>2, <4>1, StepHarmless
      <4>2. CASE q # r
        <5>1. req'[q] = req[q] /\ Harmless(q, o)
          BY <1>1, <2>2, <3>2, <4>2 DEF OnlyChanges, OutInv
        <5>2. \A i \in req[q].queue : i \in Invites /\ inviteOrg'[i] = inviteOrg[i]
          BY <1>1 DEF TablesKeep, BaseInv, ReadsInv, Reads, TypeOK, Handler
        <5> QED BY <5>1, <5>2 DEF Harmless, HarmlessAfter
      <4> QED BY <4>1, <4>2
    <3> QED BY <3>1, <3>2
  <2> QED BY <2>1, <2>2
<1>3. ASSUME NEW o \in Orgs, Existing(o)
      PROVE  Existing(o)'
  BY <1>1, <1>3 DEF TablesKeep
<1>4. ASSUME NEW q, NEW o, HarmlessAfter(q, o)
      PROVE  Harmless(q, o)'
  BY <1>4 DEF Harmless, HarmlessAfter
<1> QED BY <1>2, <1>3, <1>4 DEF OutInv, IsMember, MemberAfter

\* A change of the org's join policy keeps out who is out.
LEMMA UpdateKeepsOut ==
  ASSUME BaseInv, OutInv, NEW o \in Orgs, NEW how \in {"invited", "domain"}, UpdateOrg(o, how)
  PROVE  OutInv'
<1>1. \A p \in Orgs : Existing(p) => Existing(p)'
  BY DEF UpdateOrg, Existing, BaseInv, TypeOK
<1>2. UNCHANGED <<role, inviteStatus, inviteOrg, invitee, req, out>>
  BY DEF UpdateOrg
<1> QED BY <1>1, <1>2 DEF OutInv, IsMember, HasPending, Harmless

\* Whoever is removed while no session of theirs is joining and no invite is out stays
\* out until invited again or until a login joins them by domain.
THEOREM RemovalsStick == Spec => []RemovalSticks
<1>1. Init => OutInv
  BY DEF Init, OutInv
<1>2. BaseInv /\ OutInv /\ [Next]_vars => OutInv'
  <2> SUFFICES ASSUME BaseInv, OutInv, [Next]_vars PROVE OutInv'
    OBVIOUS
  <2>1. CASE UNCHANGED vars
    BY <2>1 DEF vars, tables, OutInv, Existing, IsMember, HasPending, Harmless
  <2> QED BY <2>1, OutInductive, UpdateKeepsOut DEF Next, Step
<1>3. BaseInv /\ OutInv => RemovalSticks
  BY DEF BaseInv, TypeOK, OutInv, RemovalSticks
<1> QED BY <1>1, <1>2, <1>3, BaseInvHolds, PTL DEF Spec
=============================================================================
