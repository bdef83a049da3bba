---------------------------- MODULE BrowserSession ----------------------------
(***************************************************************************)
(* The session of one browser: the token pair in localStorage, shared by   *)
(* its tabs, and each tab's API client (api.ts) and auth context.          *)
(*                                                                         *)
(* A tab runs one statement sequence between two awaits as one step.  Its  *)
(* calls share one refresh (refreshInFlight); different tabs know nothing  *)
(* of each other's.  What the server answers is left open: an access token *)
(* may have expired, a refresh may be refused, a request may fail.         *)
(***************************************************************************)
EXTENDS Naturals

CONSTANTS
  Accounts,  \* who may log in
  Scopes,    \* the orgs a pair may be scoped to
  Tabs,      \* tabs of the browser
  Lines,     \* API calls a tab has under way at once
  Nothing    \* no pair stored, no refresh in flight

ASSUME BrowserSessionAssumption == Nothing \notin Accounts \X Scopes

VARIABLES
  stored,      \* localStorage: the token pair, as the account and org it is for
  requests,    \* requests[t][l]: the call in line l of tab t
  refreshing,  \* refreshing[t]: the pair whose refresh token is in flight
  intent,      \* history: the session the user last asked for: login, switch or logout
  raced        \* history: something that may store or clear a pair was in flight then

browserVars == <<stored, requests, refreshing, intent, raced>>

Pairs == Accounts \X Scopes

NoRequest == [at |-> "idle", kind |-> "plain", pair |-> Nothing, scope |-> Nothing]

Kinds == {"plain", "switch", "boot"}  \* an endpoint, switch-org, the first GET /me

Pending(t, l) ==
  \/ requests[t][l].at = "resent"
  \/ requests[t][l].at # "idle" /\ requests[t][l].kind \in {"switch", "boot"}

\* The user acts in line l of tab t, or in none: what else may still write the tokens?
OthersInFlight(t, l) ==
  \/ \E u \in Tabs : refreshing[u] # Nothing
  \/ \E u \in Tabs, m \in Lines : <<u, m>> # <<t, l>> /\ Pending(u, m)

Asked(pair) ==
  /\ intent' = pair
  /\ raced' = OthersInFlight(Nothing, Nothing)

\* adoptAuthResult stores the pair a login answered.
SignIn(pair) ==
  /\ stored' = pair
  /\ Asked(pair)
  /\ UNCHANGED <<requests, refreshing>>

\* logout clears the tokens; nothing under way is cancelled.
SignOut ==
  /\ stored' = Nothing
  /\ Asked(Nothing)
  /\ UNCHANGED <<requests, refreshing>>

Send(t, l, kind, scope) ==
  /\ stored # Nothing
  /\ requests[t][l] = NoRequest
  /\ requests' = [requests EXCEPT ![t][l] =
                    [at |-> "sent", kind |-> kind, pair |-> stored, scope |-> scope]]
  /\ UNCHANGED <<stored, refreshing, intent, raced>>

\* A new page: the old one's calls and refresh are gone, and /me is asked first.
Reload(t) ==
  /\ stored # Nothing
  /\ \E l \in Lines :
       requests' = [requests EXCEPT ![t] =
         [m \in Lines |-> IF m = l THEN [at |-> "sent", kind |-> "boot", pair |-> stored,
                                         scope |-> Nothing]
                                   ELSE NoRequest]]
  /\ refreshing' = [refreshing EXCEPT ![t] = Nothing]
  /\ UNCHANGED <<stored, intent, raced>>

Done(t, l) == requests' = [requests EXCEPT ![t][l] = NoRequest]

\* A call succeeds; switch-org's pair is the caller's, for the new org.
Succeed(t, l) ==
  LET call == requests[t][l]
      pair == <<call.pair[1], call.scope>> IN
  /\ call.at \in {"sent", "resent"} /\ call.pair # Nothing
  /\ \/ call.kind # "switch" /\ UNCHANGED <<stored, intent, raced>>
     \/ /\ call.kind = "switch"
        /\ stored' = pair
        /\ intent' = IF raced THEN intent ELSE pair
        /\ raced' = (raced \/ OthersInFlight(t, l))
  /\ Done(t, l)
  /\ UNCHANGED refreshing

\* The first /me clears the tokens on any error, the others on none.
ClearOnBoot(failed) == IF failed.kind = "boot" THEN Nothing ELSE stored

\* The request does not reach the server, or the server fails.
Fail(t, l) ==
  /\ requests[t][l].at \in {"sent", "resent"}
  /\ stored' = ClearOnBoot(requests[t][l])
  /\ Done(t, l)
  /\ UNCHANGED <<refreshing, intent, raced>>

\* Mutant: the refresh is for the pair the call was sent with.
RefreshAsSent(t, l) == requests[t][l].pair

\* doRefresh reads the tokens that are stored by now.
RefreshAsStored(t, l) == stored

\* 401: join the tab's refresh, or start it, unless the tokens are gone.
Unauthorized(t, l) ==
  /\ requests[t][l].at = "sent"
  /\ IF RefreshAsStored(t, l) = Nothing
       THEN Done(t, l) /\ UNCHANGED refreshing
       ELSE /\ requests' = [requests EXCEPT ![t][l].at = "awaiting"]
            /\ refreshing' = IF refreshing[t] # Nothing THEN refreshing
                             ELSE [refreshing EXCEPT ![t] = RefreshAsStored(t, l)]
  /\ UNCHANGED <<stored, intent, raced>>

\* 401 again after the refresh.
UnauthorizedAgain(t, l) ==
  /\ requests[t][l].at = "resent"
  /\ stored' = Nothing
  /\ Done(t, l)
  /\ UNCHANGED <<refreshing, intent, raced>>

Awaiting(t) == {l \in Lines : requests[t][l].at = "awaiting"}

RefreshEnds(t) == refreshing' = [refreshing EXCEPT ![t] = Nothing]

\* The server renews the pair, for no org or another one when the membership is gone;
\* the waiting calls are sent again with what is stored.
RefreshSucceeds(t, scope) ==
  LET pair == <<refreshing[t][1], scope>> IN
  /\ refreshing[t] # Nothing
  /\ stored' = pair
  /\ requests' = [requests EXCEPT ![t] =
       [l \in Lines |-> IF l \in Awaiting(t)
                          THEN [requests[t][l] EXCEPT !.at = "resent", !.pair = pair]
                          ELSE requests[t][l]]]
  /\ intent' = IF ~raced /\ refreshing[t] = intent THEN pair ELSE intent
  /\ raced' = \/ raced
              \/ pair # refreshing[t] /\ (\E u \in Tabs \ {t} : refreshing[u] # Nothing)
  /\ RefreshEnds(t)

GiveUpWaiting(t) ==
  requests' = [requests EXCEPT ![t] =
    [l \in Lines |-> IF l \in Awaiting(t) THEN NoRequest ELSE requests[t][l]]]

\* Any answer but a renewed pair ends the session.
RefreshRefused(t) ==
  /\ refreshing[t] # Nothing
  /\ stored' = Nothing
  /\ GiveUpWaiting(t)
  /\ RefreshEnds(t)
  /\ UNCHANGED <<intent, raced>>

\* The tokens are kept, unless the first /me was waiting.
RefreshUnreachable(t) ==
  /\ refreshing[t] # Nothing
  /\ stored' = IF \E l \in Awaiting(t) : requests[t][l].kind = "boot" THEN Nothing ELSE stored
  /\ GiveUpWaiting(t)
  /\ RefreshEnds(t)
  /\ UNCHANGED <<intent, raced>>

BrowserInit ==
  /\ stored = Nothing
  /\ requests = [t \in Tabs |-> [l \in Lines |-> NoRequest]]
  /\ refreshing = [t \in Tabs |-> Nothing]
  /\ intent = Nothing
  /\ raced = FALSE

BrowserNext ==
  \/ SignOut
  \/ \E pair \in Pairs : SignIn(pair)
  \/ \E t \in Tabs :
       \/ Reload(t) \/ RefreshRefused(t) \/ RefreshUnreachable(t)
       \/ \E s \in Scopes : RefreshSucceeds(t, s)
       \/ \E l \in Lines :
            \/ Send(t, l, "plain", Nothing) \/ \E s \in Scopes : Send(t, l, "switch", s)
            \/ Succeed(t, l) \/ Fail(t, l)
            \/ Unauthorized(t, l) \/ UnauthorizedAgain(t, l)

BrowserSpec == BrowserInit /\ [][BrowserNext]_browserVars

-----------------------------------------------------------------------------
\* Types of the stored pair and of the calls.
BrowserTypeOK ==
  /\ stored \in Pairs \cup {Nothing}
  /\ refreshing \in [Tabs -> Pairs \cup {Nothing}]
  /\ \A t \in Tabs, l \in Lines :
       /\ requests[t][l].at \in {"idle", "sent", "awaiting", "resent"}
       /\ requests[t][l].kind \in Kinds
       /\ requests[t][l].at = "awaiting" => refreshing[t] # Nothing

\* The browser never comes back to a session the user has left: what is stored is the
\* session last asked for, by login or switch, and nothing after a logout.  The exception
\* is a refresh, a switch or a repeated call that was in flight at that moment: it still
\* stores its pair (or clears the new one), whoever has signed in or out meanwhile.
SessionIsTheUsers == ~raced /\ stored # Nothing => stored = intent
=============================================================================
