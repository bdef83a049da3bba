------------------------------- MODULE Access --------------------------------
(***************************************************************************)
(* Who gets at an organization's resources: auth.Middleware in front of    *)
(* the handlers, the stateless session tokens of one user and their        *)
(* refresh, and API keys.                                                  *)
(*                                                                         *)
(* Handlers of org resources believe the org claim of the access token and *)
(* ask no membership again, so what ends a removed member's access is the  *)
(* token's lifetime and the membership read of a refresh.  How memberships *)
(* come and go is Membership's; here they just do.  Tokens are stored      *)
(* nowhere: every token ever issued can be presented again.                *)
(*                                                                         *)
(* A request takes less than a tick, so the clock does not move between    *)
(* the steps of one.  Roles, which org management reads from the database, *)
(* and the stamps of last_active_at and last_used_at are left out.         *)
(***************************************************************************)
EXTENDS Clock

CONSTANTS
  AccessOrgs,    \* orgs.id
  ApiKeys,       \* api_keys.id
  Callers,       \* request slots
  AccessTTL,     \* ACCESS_TOKEN_TTL
  RefreshTTL,    \* REFRESH_TOKEN_TTL
  NoOrg,         \* the org claim 0, "no active org"
  AccessHorizon  \* the clock stops here (bound for TLC)

ASSUME AccessAssumption ==
  /\ AccessTTL \in Nat \ {0}
  /\ RefreshTTL \in Nat /\ RefreshTTL > AccessTTL
  /\ NoOrg \notin AccessOrgs
  /\ AccessHorizon \in Nat

VARIABLES
  joined,     \* the orgs the user is a member of
  enabled,    \* users.status = 'ENABLED'
  issued,     \* the tokens issued so far
  keyStatus,  \* keyStatus[k]: api_keys.status, "UNUSED" before the insert
  keyOrg,     \* keyOrg[k]: api_keys.org_id
  calls,      \* calls[c]: where the request in slot c stands
  memberTo,   \* history: memberTo[o]: the last instant the user was a member of o
  enabledTo,  \* history: the last instant the account was enabled
  unchecked,  \* history: the last instant a pair was issued without asking users.status
  served      \* history: orgs whose resources a token was answered with since the last tick

accessVars == <<now, joined, enabled, issued, keyStatus, keyOrg, calls, memberTo, enabledTo,
                unchecked, served>>

-----------------------------------------------------------------------------
(***************************************************************************)
(* Tokens                                                                  *)
(***************************************************************************)
Token(typ, ttl, org) == [typ |-> typ, org |-> org, exp |-> now + ttl]

IssuePair(org) ==
  issued' = issued \cup {Token("access", AccessTTL, org), Token("refresh", RefreshTTL, org)}

Parse(t, typ) == t \in issued /\ t.typ = typ /\ now < t.exp

-----------------------------------------------------------------------------
(***************************************************************************)
(* Requests: the middleware takes an API key before a token on the two     *)
(* routes that honour keys, and only passes it on; the handler looks it up *)
(* and then does its work for the key's org.                               *)
(***************************************************************************)
NoCall == [at |-> "idle", org |-> NoOrg, key |-> {}, token |-> FALSE]

CallSteps == {"idle", "keyed", "working", "refreshing", "switching"}

EnterCall(c, at, org, key, token) ==
  /\ calls[c] = NoCall
  /\ calls' = [calls EXCEPT ![c] = [at |-> at, org |-> org, key |-> key, token |-> token]]

Leave(c) == calls' = [calls EXCEPT ![c] = NoCall]

tokenState == <<now, joined, enabled, issued, memberTo, enabledTo, unchecked>>

\* Middleware, then RequireOrg and the handler, on every org route but the two below.
ServeToken(t) ==
  /\ Parse(t, "access")
  /\ t.org # NoOrg
  /\ served' = served \cup {t.org}
  /\ UNCHANGED <<tokenState, keyStatus, keyOrg, calls>>

\* POST /links with an X-API-Key header; `token` says whether a bearer token that
\* Parse accepts comes with it.
ShortenKeyed(c, k, token) ==
  /\ token => \E t \in issued : Parse(t, "access")
  /\ EnterCall(c, "keyed", NoOrg, {k}, token)
  /\ UNCHANGED <<tokenState, keyStatus, keyOrg, served>>

Authentic(k) == keyStatus[k] = "ENABLED"

\* Mutant: without a valid key the request falls back on its token.
RejectOrFallBack(c) ==
  IF calls[c].token THEN calls' = [calls EXCEPT ![c].at = "working"] ELSE Leave(c)

Reject(c) == Leave(c)

Authenticate(c) ==
  /\ calls[c].at = "keyed"
  /\ \E k \in calls[c].key :
       \/ Authentic(k) /\ calls' = [calls EXCEPT ![c].at = "working", ![c].org = keyOrg[k]]
       \/ ~Authentic(k) /\ Reject(c)
  /\ UNCHANGED <<tokenState, keyStatus, keyOrg, served>>

\* The link is inserted for the key's org, and carries its id.
WorkDone(c) ==
  /\ calls[c].at = "working"
  /\ Leave(c)
  /\ UNCHANGED <<tokenState, keyStatus, keyOrg, served>>

-----------------------------------------------------------------------------
(***************************************************************************)
(* Sessions: a login proves the identity to a provider, a switch of org    *)
(* reads the membership; neither reads the status.  A refresh reads both.  *)
(***************************************************************************)
Login(org) ==
  /\ org \in joined \cup {NoOrg}
  /\ IssuePair(org)
  /\ unchecked' = now
  /\ UNCHANGED <<now, joined, enabled, keyStatus, keyOrg, calls, memberTo, enabledTo, served>>

\* POST /auth/switch-org, and the pair that POST /orgs answers with.
SwitchOrgRead(c, t, org) ==
  /\ Parse(t, "access")
  /\ org \in joined
  /\ EnterCall(c, "switching", org, {}, FALSE)
  /\ UNCHANGED <<tokenState, keyStatus, keyOrg, served>>

SwitchOrgIssue(c) ==
  /\ calls[c].at = "switching"
  /\ IssuePair(calls[c].org)
  /\ Leave(c)
  /\ unchecked' = now
  /\ UNCHANGED <<now, joined, enabled, keyStatus, keyOrg, memberTo, enabledTo, served>>

\* Mutant: a refresh keeps the org it was issued for.
ScopeAsClaimed(org) == {org}

\* Membership is read again; a session without it becomes org-less, or gets the org
\* of an invite that the refresh itself has accepted.
RefreshedScope(org) == IF org \in joined THEN {org} ELSE joined \cup {NoOrg}

RefreshRead(c, t) ==
  /\ Parse(t, "refresh")
  /\ enabled
  /\ \E org \in RefreshedScope(t.org) : EnterCall(c, "refreshing", org, {}, FALSE)
  /\ UNCHANGED <<tokenState, keyStatus, keyOrg, served>>

RefreshIssue(c) ==
  /\ calls[c].at = "refreshing"
  /\ IssuePair(calls[c].org)
  /\ Leave(c)
  /\ UNCHANGED <<now, joined, enabled, keyStatus, keyOrg, memberTo, enabledTo, unchecked, served>>

-----------------------------------------------------------------------------
(***************************************************************************)
(* API keys: created ENABLED, disabled for good, never deleted.            *)
(***************************************************************************)
\* The status is the column's default.
InsertKey(k, o) ==
  /\ keyStatus' = [keyStatus EXCEPT ![k] = "ENABLED"]
  /\ keyOrg' = [keyOrg EXCEPT ![k] = o]

CreateKey(k, o) ==
  /\ keyStatus[k] = "UNUSED"
  /\ InsertKey(k, o)
  /\ UNCHANGED <<tokenState, calls, served>>

SetDisabled(k) == keyStatus' = [keyStatus EXCEPT ![k] = "DISABLED"]

DisableKey(k) ==
  /\ keyStatus[k] # "UNUSED"
  /\ SetDisabled(k)
  /\ UNCHANGED <<tokenState, keyOrg, calls, served>>

-----------------------------------------------------------------------------
\* Membership and the account's status change from outside.
ChangeMembership(orgs) ==
  /\ orgs # joined
  /\ joined' = orgs
  /\ memberTo' = [o \in AccessOrgs |-> IF o \in orgs THEN now ELSE memberTo[o]]
  /\ UNCHANGED <<now, enabled, issued, keyStatus, keyOrg, calls, enabledTo, unchecked,
                 served>>

SetAccountStatus ==
  /\ enabled' = ~enabled
  /\ enabledTo' = now
  /\ UNCHANGED <<now, joined, issued, keyStatus, keyOrg, calls, memberTo, unchecked, served>>

\* Expired tokens are dropped from `issued`: Parse refuses them for good.
AccessTick ==
  /\ \A c \in Callers : calls[c] = NoCall
  /\ Advance(AccessHorizon)
  /\ issued' = {t \in issued : t.exp >= now'}
  /\ memberTo' = [o \in AccessOrgs |-> IF o \in joined THEN now' ELSE memberTo[o]]
  /\ enabledTo' = IF enabled THEN now' ELSE enabledTo
  /\ served' = {}
  /\ UNCHANGED <<joined, enabled, keyStatus, keyOrg, calls, unchecked>>

AccessInit ==
  /\ joined = {}
  /\ enabled = TRUE
  /\ issued = {}
  /\ keyStatus = [k \in ApiKeys |-> "UNUSED"]
  /\ keyOrg = [k \in ApiKeys |-> NoOrg]
  /\ calls = [c \in Callers |-> NoCall]
  /\ memberTo = [o \in AccessOrgs |-> -RefreshTTL]
  /\ enabledTo = 0
  /\ unchecked = -RefreshTTL
  /\ served = {}

AccessNext ==
  \/ \E t \in issued :
       \/ ServeToken(t)
       \/ \E c \in Callers :
            RefreshRead(c, t) \/ \E o \in AccessOrgs : SwitchOrgRead(c, t, o)
  \/ \E c \in Callers :
       \/ \E k \in ApiKeys, token \in BOOLEAN : ShortenKeyed(c, k, token)
       \/ Authenticate(c) \/ WorkDone(c) \/ RefreshIssue(c) \/ SwitchOrgIssue(c)
  \/ \E o \in AccessOrgs \cup {NoOrg} : Login(o)
  \/ \E k \in ApiKeys : DisableKey(k) \/ \E o \in AccessOrgs : CreateKey(k, o)
  \/ \E orgs \in SUBSET AccessOrgs : ChangeMembership(orgs)
  \/ SetAccountStatus
  \/ AccessTick

AccessSpec == now = 0 /\ AccessInit /\ [][AccessNext]_accessVars

-----------------------------------------------------------------------------
\* Types of what the requests, tokens and keys hold.
AccessTypeOK ==
  /\ now \in 0 .. AccessHorizon
  /\ joined \subseteq AccessOrgs
  /\ \A t \in issued : t.typ \in {"access", "refresh"} /\ t.org \in AccessOrgs \cup {NoOrg}
  /\ keyOrg \in [ApiKeys -> AccessOrgs \cup {NoOrg}]
  /\ \A c \in Callers : calls[c].at \in CallSteps /\ calls[c].org \in AccessOrgs \cup {NoOrg}

\* A removed member gets at the org's resources for less than one access token's
\* lifetime, however many tokens, old or refreshed, the sessions of the user hold.
AccessEndsWithMembership == \A o \in served : now - memberTo[o] < AccessTTL

\* A disabled account gets at nothing either once an access token's lifetime is over,
\* unless it logs in again or switches org in time: a refresh reads the account's
\* status, a login or a switch does not, and its pair is as good as any.
AccessEndsWithAccount ==
  served # {} => now - enabledTo < AccessTTL \/ now - unchecked < AccessTTL

\* Work for an API key is the work of a key that was looked up and found ENABLED,
\* in its own org: a wrong key never falls back on the session that comes with it.
KeyedWorkIsTheKeys ==
  \A c \in Callers : calls[c].at = "working" =>
    /\ \A k \in calls[c].key : keyStatus[k] # "UNUSED" /\ calls[c].org = keyOrg[k]
    /\ calls[c].org # NoOrg

\* Stateless tokens give less than one access lifetime of access that was taken away.
AccessEnds == AccessEndsWithMembership /\ AccessEndsWithAccount

\* Nobody is served for longer than the tokens' lifetimes allow, nor as somebody else
\* than the header says that Middleware and LinkHandler.Shorten take first.
AccessIsGranted == AccessEnds /\ KeyedWorkIsTheKeys
=============================================================================
