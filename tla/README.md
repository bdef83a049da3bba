# A TLA+ model of ogtr

ogtr is a URL shortener: a Go backend on MySQL, a single-page app, an e-mail
sender and an optional admin console. Several replicas of the backend share one
database and nothing else. This directory holds a model of its core logic, the
TLC runs that check it on small instances, and proofs of what matters most for
instances of every size.

## 1. The system

A handler runs in a goroutine of its own, on any replica. It talks to MySQL
through the stores in `backend/stores`, one autocommitted statement per call.
There are three transactions in the whole program (`BrandPrefixStore.Create`,
`BrandPrefixStore.SetPrimary` and the domains' `SetPrimary`). What a handler
decides it decides on values that other handlers may have changed since. That is where the hard
behaviour of this program is: not in any function, but between two statements.

### Inventory

| Component | State it keeps | Operations | Hard behaviour | What makes it correct |
|---|---|---|---|---|
| Brand prefixes (`services/brand_prefix.go`, `stores/brand_prefix.go`) | table `brand_prefixes` | request, set primary, withdraw | count, lookup and code check come before the insert; the row read by SetPrimary and Delete is stale when they write | one holder per value, one APPROVED primary per org, a cap, no equal code |
| Operator review (`services/admin_prefix.go`) | the same table | approve, reject, revoke, release | decisions on rows that changed meanwhile | a revoked value is held until it is released |
| Short codes (`services/link.go`) | `links.code` | alias, drawn code, rename | two tables, one namespace; five draws at most | codes unique, never a held prefix |
| Resolution (`services/resolve.go`) | `clicks`, `links.visits` | `/<code>`, `/<prefix>/<code>` | the scope and the code are two reads | a scope serves only its org's links |
| Rate limits (`ratelimit`) | maps of timestamps, in memory | Allow, Blocked, RecordMiss, the lazy sweep | window boundaries, sweeps by other callers, misses of resolutions in flight | bounds per window, no denial below the limit, memory given back |
| Organizations, members, invites (`services/org.go`) | `orgs`, `org_members`, `invites` | create, update, remove, invite, revoke | check-then-act, unconditional updates | an owner stays, removal sticks |
| Sessions (`services/auth.go`) | none (signed tokens) | login, refresh, me, switch org | a loop over invites with a policy, an insert and an update each; concurrent refreshes of one user | a pair is scoped to an org of the user; an accepted invite is a membership |
| Tokens, middleware, API keys (`auth/tokens.go`, `auth/middleware.go`, `services/apikey.go`) | `api_keys`; tokens are stored nowhere | issue, parse, refresh, create, disable, authenticate | handlers believe the token's org; every token ever issued can come again | access that was taken away ends; a key works for its own org or not at all |
| Links: dedupe, edits, audit (`services/link.go`) | `links`, `link_edits` | shorten, edit | the search comes before the insert; the update and its audit row are two statements | duplicates only by races, audit rows that chain |
| Rescan (`services/rescan.go`), operator on links (`services/admin.go`) | `links.status`, `last_visit_at` | Run, disable, enable, visit | pages of rows go stale while they are scanned; a run is bounded and starts again at id 0 | no link disabled without a cause, no exposure for ever |
| Feed list (`scanner/feeds.go`) | lists in memory, per process | refresh, scan | failed and partial fetches, refreshes that overlap, restarts | last-good data |
| What a visitor gets (`services/resolve.go`, `visitor/visitor.go`, `geo/locator.go`) | `links` (URL, UTM columns, `deeplink_config`), `link_rules` | the UTM values, the app link, the conditions of rules | UTM values are stored twice; the row and its rules are two reads; headers that look alike | what is served and what is recorded agree, with each other and with the device |
| Short URLs (`services/link.go`: `displayBase`, `existingShortURL`) | none; reads `links`, `domains`, `brand_prefixes` | display with every link, recognition of a submitted short URL | three reads, between which rows change; three pieces of code compose a URL or take one apart | what is displayed leads to its link, and is recognized as that link |
| Rules, schedules, click rows (`services/rule.go`, `services/resolve.go`, `stores/click.go`) | `link_rules`, `clicks`, `links.visits` | attach, add, change, delete, match, count | rules are attached one by one to a link that is already served; a visit writes twice | first match, counts that agree but for failures |
| Statistics (`services/stats.go`, `stores/stats.go`, `usage/usage.go`) | `clicks` | the policy's gate and window, then a series of queries | clicks arrive and days end between the queries; durations against dates | sections that add up, nothing outside the window |
| Listings (`services/admin.go`, `stores/admin.go`, `services/link.go`, `services/report.go`) | the tables listed, `abuse_reports` | page by page with LIMIT and OFFSET; storing a report | rows come, go and change between pages and between a page's queries | nothing that stays is missed, but for what left |
| Accounts (`services/auth.go`, `stores/user.go`, `auth/google.go`, `auth/microsoft.go`) | `users` | identity of a token, first sign-in, `last_active_at` | two first sign-ins at once; spellings of an address | one account per address, one welcome |
| Identity keys (`auth/jwks.go`) | a cache in memory | fetch on a miss | failed fetches, cooldown, rotation | withdrawn keys expire, new ones are found |
| Custom domains (`services/domain.go`) | `domains` | add, verify, set primary, delete | a DNS answer older than the row; SHORT_DOMAIN changes | a host serves only the org that proved it |
| Single-page app session (`frontend/src/lib/api.ts`) | token pair in the browser's storage | refresh on 401, login, logout, switch | several tabs, single flight per tab only | the stored session is the one the user asked for |
| Limits policy (`limits`) | none | CanAdd..., the analytics window | the policy is asked before the insert | modelled where it guards members and statistics |
| E-mail texts, reserved and explicit words, most handlers, migrations | | pure functions, best-effort output, one call each | | not modelled, see section 8 |

The components meet in the database: prefixes and codes share the namespace of
the short domain (`Namespace`); sessions and the owner's operations share
members and invites (`Membership`); resolution asks the throttle before it reads
and tells it after (`GuessThrottle`); link writes and reports ask the sliding
window (`SlidingWindow`); shortening, editing and the rescan job ask the scanner,
whose list changes under them (`FeedList`); visits enter through a custom domain's
scope (`Domains`), are answered (`Serving`, `Answers`) and counted (`Analytics`), and a
refresh reads the memberships that `Membership` changes
(`Access`). `PROJECT.json` lists every hazard with its line.

## 2. Modules

| Module | Models | Lines |
|---|---|---|
| `PrefixRegistry` | abstract: what the brand-prefix feature promises about values | no row, request or transaction |
| `Namespace` | rows of `brand_prefixes` and `links`, the handlers that change them, visitors that resolve | `services/brand_prefix.go`, `admin_prefix.go`, `link.go`, `resolve.go` and their stores |
| `Membership` | `orgs`, `org_members`, `invites`, the owner's operations, session requests | `services/org.go`, `auth.go` and their stores |
| `RateLimit` | the pruning loop shared by the limiters | `ratelimit/ratelimit.go` |
| `SlidingWindow` | `ratelimit.SlidingWindow` | " |
| `GuessThrottle` | `ratelimit.GuessThrottle` with the resolutions around it | ", `services/resolve.go` |
| `Links` | `links.destination_url`, `link_edits`, shortening and destination edits | `services/link.go`, `stores/link.go` |
| `FeedList` | the blocklist feeds, their refresh, the scanner's verdict | `scanner/feeds.go`, `scanner.go`, `webrisk.go` |
| `Rescan` (extends `FeedList`) | the rescan job with the edits, visits and operator's decisions around it | `services/rescan.go`, `admin.go`, `resolve.go`, `stores/link.go` |
| `Clock` | the clock that the timed components read | `time.Now` |
| `KeyCache` | `auth.jwksCache` with a provider that rotates its keys | `auth/jwks.go` |
| `Access` | one user's tokens, the requests they and API keys open, refresh, login, switch of org | `auth/tokens.go`, `auth/middleware.go`, `services/auth.go`, `services/apikey.go` |
| `BrowserSession` | the token pair of a browser with several tabs | `frontend/src/lib/api.ts`, `auth/AuthContext.tsx` |
| `Serving` | a link with its rules and schedule, visits, the counter and the click rows | `services/link.go`, `rule.go`, `resolve.go` and their stores |
| `Answers` | who a visitor is by the headers, and the UTM values, app link and rule that answer | `visitor/visitor.go`, `geo/locator.go`, `services/resolve.go`, `link.go`, `rule.go` |
| `Analytics` | the statistics requests, query by query, over clicks that are being recorded | `services/stats.go`, `stores/stats.go`, `stores/click.go`, `usage/usage.go`, `handlers/stats.go`, `services/admin.go` |
| `Listings` | listings read page by page while their tables change | `services/admin.go`, `stores/admin.go`, `services/link.go`, `services/report.go`, `pages/LinksPage.tsx` |
| `Directory` | from a credential to an account, `last_active_at` | `auth/google.go`, `microsoft.go`, `dev.go`, `services/auth.go`, `stores/user.go` |
| `ShortURLs` | which URL is displayed for a link, where it leads, what its submission is answered with | `services/link.go`, `resolve.go`, `domain.go` and the stores |
| `Domains` | `domains`, the DNS zones, visits by host | `services/domain.go`, `resolve.go`, `stores/domain.go` |
| `MCNamespace`, `MCMembership`, `MCLinks`, `MCDomains` | symmetry sets for TLC | |
| `MCParts` | eleven components that share no state but the clock, one per behaviour | `SlidingWindow`, `GuessThrottle`, `KeyCache`, `Access`, `BrowserSession`, `Serving`, `Answers`, `Analytics`, `Listings`, `Directory`, `ShortURLs` |
| `NamespaceProofs` | types, code/prefix exclusion, primaries, revocation, cap, scope of visits, the refinement of `PrefixRegistry` | |
| `MembershipProofs` | types and what requests have read; owners, accepted invites, scope of sessions, the policy's cap; removed users stay out | |
| `DomainsProofs` | types, verification, scope of visits, primaries | |
| `LinksProofs` | types, duplicates, the audit rows | |
| `RescanProofs` | types, the cause of every disabling | |
| `LimiterProofs` | both limiters: exactness, fairness, forgetting | |
| `PartsProofs` | key cache, access, serving, accounts, statistics, answers, short URLs, each with its types | |
| `MCPartsProofs` | the browser's session, listings, and `MCParts` as a whole | |

### How state and actions correspond to the code

*Rows.* `status[p]`, `owner[p]`, `value[p]`, `primary[p]` are the columns of row
`p` of `brand_prefixes`; ids are never used twice, so a row goes from `UNUSED`
through its statuses to `DELETED`. `code[l]` and `org[l]` are columns of `links`.
`role[o][u]` is the row `(o, u)` of `org_members`. Values are compared up to
letter case, as the table's collation does.

*Requests.* `req[r]` is a handler's stack: the check it has just passed (`at`),
and what it has read. An action is one statement or transaction, with the
handler's decision on its result. A first read whose only other outcome is an
error answer is the guard of the action that begins the request: a request that
is refused at once has changed nothing. Later reads have both outcomes
(`Check`). `Abort` and `End` stand for a failed statement, a client that goes
away (the context is cancelled), a replica that stops, or a refusal by a unique key.

*Destinations.* In `Links` a destination is a page, a spelling that differs in
letter case only, and whether UTM values were appended. `SameText` is what the
column's collation makes of `=`, while the service's own comparison is exact. In
`Rescan` a destination is a page and whether UTM values were appended: the scanner
is asked about the URL as submitted when a link is created or edited, and about
the stored one, with UTM values, when it is rescanned, so a URL line of a feed
does not match it any more.

*Verdicts.* A URL is flagged when the list holds it or Web Risk says so; Web
Risk fails open, so what it would flag may also be allowed (`MayFlag`,
`MayAllow`). In `Links`, whose properties do not depend on verdicts, a scan that
refuses is `Abort`.

*The job.* `job[j]` is a run: its cursor, its count and the rest of the page it
has read, a set of rows that the run takes in the order of their ids (`Current`). Scan, decision and update of one row are two actions, because the
update is made without a second look at the row.

*Hosts and zones.* In `Domains` a row of the table goes from `UNUSED` through
PENDING, VERIFIED and DISABLED to `DELETED`; its verification token is random, so
the row's id stands for it. `txt[h]` is what the zone of a hostname answers at this
moment; whoever holds the zone publishes any token there. A verification is three
steps, because the DNS lookup takes up to five seconds and the `UPDATE` after it
names the row by its id only.

*Tokens.* `issued` of `Access` is every token ever issued that has not expired: a
client may present any of them at any time, as often as it likes. The clock moves
between requests, not within one. `ServeToken` is one action for every handler
of an org's resources: after the middleware none of them looks at memberships
again (org management reads roles, which is `Membership`'s).

*Rules.* In `Serving` a rule is the set of visitors that its conditions match, and a
visit's answer is the place of the rule whose URL it gets, 0 for none. `Crash`
stops every request of a process where it stands.

*Visitors.* In `Answers` a User-Agent header is the set of the words that
`visitor.Build` looks for; the headers are those of `visitor_test.go`, and `Real` says
what sends them. The code looks for "Mobile" to tell tablets and for "Mobi" to tell
phones; a header with the one has the other too. A destination is a page and its three UTM parameters; the URL of a
rule is its place. A visit keeps the row it read first and gets its rules, or none if
their query fails, from the table as it is by then.

*Statistics.* In `Analytics` a click's id is its place in the table, and a bucket of an
answer is the set of ids that it counts, so that two queries at different moments can be
compared. `Plan` is the order of the queries of each request. Time is in ticks, of
which a day and a month have so many: dates are quotients, as in the SQL. One attribute
stands for all that the breakdowns group by, since each is a column of its own that the
same query names. `DailySeries`, the operator's daily series, is there because its
queries are requests like the others; no property depends on it, since
`ReportsAreSound` is about what a member is shown.

*Listings.* In `Listings` a row is its id and whether it meets the listing's filter.
A walk is the pages that one reader asks for, in order; a page is the query for its rows
and the queries for what is told of each.

*Short URLs.* `ShortURLs` has the three readers of a short URL over rows that `Domains`
and `Namespace` model in full: here a row changes in one step, so that the reads of one
handler can be interleaved with every change. `held` is a URL somebody wrote down.

*Accounts.* In `Directory` a credential is what a verified token says; the provider's
checks make an identity of it or a refusal. `users.email` is unique, so the second
insert of an address fails and the sign-in with it. The column has the server's default
collation (`migrations/20260713221852_initial_schema.go`), which ignores accents as well as
letter case, so an address of the model is a class of addresses that the collation holds
equal: whoever differs in an accent only is the same account there.

*Tabs.* A tab's JavaScript runs from one `await` to the next without interruption,
so an action of `BrowserSession` is what happens between two awaits. The answers of
the server are free: a 401, a refusal or a lost connection may come at any time.

*Operator.* `Decide(p, from, to)` is `UPDATE ... WHERE id = ? AND status = ?`:
the service reads the row first, for its error answers, but the update looks
again, so nothing but the update's own condition matters.

*Roles.* `requireOwner` is folded into a request's first action. Its answer
cannot become stale because no owner is ever removed, which is not taken for
granted: it is `OwnersStay` of `Membership`.

*Histories.* Variables commented "history" are written and never read by a guard
or another variable; they let an invariant speak about the past (`raced`,
`everMember`, `memberSince`, `out`, `granted`, `missed`, `called`, `denied`, `created`, `edited`,
`tangled`, `past`, `flagged`, `publishedTo`, `publishedFrom`, `accepted`, `unknown`,
`memberTo`, `enabledTo`, `unchecked`, `served`, `intent`, `raced` of `BrowserSession`,
`submitted`, `touched`, `drift`, `shown`, `overtaken`, `asked`, `appsVia`, `welcomed`,
`seen`, and of records the fields `counted`, `known`, `met`, `stayed`, `left`).
One use looks like an exception: `SessionBegin` bounds a token's claim by
`everMember`. Tokens are stored nowhere and live 30 days by default, so a claim may be
any org the user ever belonged to; that it can be no other is
`SessionScopeWasMember` for the session that issued the token.

*Policy.* `limits.Policy` is an interface a deployment fills in. `Membership`
takes the one its documentation describes: so many members per org.

## 3. Runs

| Run | Question | Bounds, and why they are enough |
|---|---|---|
| `races` | Can the cap be exceeded, or a code equal a held prefix, other than by requests that passed their checks at the same time? | two writers, three values, three rows, one org, cap 1: an org can hold three, one more than the bound allows |
| `prefixes` | Do primaries, revocations and the registry survive stale reads of SetPrimary and Delete, the operator and another org? | two orgs, two values, three rows, two requests: a value can be revoked, released and claimed by the other org while both requests hold a stale read |
| `visits` | Does a visit stay within its prefix's org, and does every handler end? | one visitor, one handler, two rows and links; AUTO_APPROVE on; two draws. A prefix changes hands between the two reads |
| `collision` | (finding) the exclusion ARCHITECTURE.md states | two requests, one value |
| `parts` | A question to each of eleven components, one per behaviour (`machine`): are rolling windows bounded and blocks earned; do rotated keys arrive and withdrawn ones go; does access end; is the stored session the user's; what does a link with half its rules answer, and do counts agree; are visitors told apart and served what is recorded; do reports add up within the policy's window; do pages show the table; has an address one account; does a displayed URL lead to its link? | see below |
| `domains` | Who is served on a hostname while rows, zones and SHORT_DOMAIN change under handlers? | two rows, hostnames, orgs and requests: a domain is deleted, disabled, registered anew or overtaken by a restart under a verification, a swap or a visit |
| `membership_cap` | Is an accepted invite a membership, is the policy's cap exceeded by no more than the requests that race (which it is; section 4), does a removal stick? | four users, one org, cap 2, one invite: the org can exceed the bound, and the policy can deny an invited user |
| `membership_sessions` | To which org is a session scoped while memberships change? Does an org keep its owner? | two users, two orgs (either may admit by domain), one invite: a session joins one org while its claim names the other |
| `invites` | (finding) an invite settles once | two requests |
| `links` | Where do duplicate links come from, and do the audit rows tell what happened? | two requests, two links, two pages, one member and an API key, two edits: requests can create the same destination, and edits of one link can follow or overlap each other |
| `rescan` | Is a link disabled only for a cause, and does an exposed link stay so? | two links, pages of one row, one feed with one URL line, one run at a time, one failing statement: the second link is read after the first was scanned, and every step of a run can meet an edit, a refresh, an operator or a restart |
| `dedupe` | (finding) the search is exact | one request, one page in two spellings |

The bounds of `parts`, by component. *Limiters*: two keys, limit 2, a window of 2
ticks and a clock to 5, so events age out while the other key's calls sweep; two
clients with two resolutions in flight, one miss allowed, clock to 4: a block begins
and ends with both in flight. *Key cache*: two keys, a lifetime of three cooldowns, clock to 5: the
fetches after a lifetime are there. *Access*: one org and key, one request slot, access
tokens of 2 ticks, refresh tokens of 3, clock to 3: a refresh token outlives the
access tokens of a removed member and one pair is issued after the removal.
*Browser*: two accounts, two orgs, two tabs with one call each: a refresh of one tab
meets a login, a logout or a switch in the other. *Serving*: two rules, two visits, one
change after creation. *Answers*: one rule, two changes after creation, one UTM value
at most in the URL and one beside it, an app system and two agents whose words
mislead (an Android tablet, a Windows phone that says Android): every pair of parameter, column and rule condition occurs, before and after an
edit. That the first of two rules wins is checked in `Serving`; the other headers of the
table are covered by the lemma `AgentsAreTold`. *Analytics*: two links, one of them
hidden from the viewer, two clicks, days and months of two ticks, a retention of one tick
and one viewable event, clock to 3: a day and a month end while a report is read, and the
cutoff falls within a day. *Listings*: pages of two, four rows, one of which may cease to
match and one member who joins: a page moves up between two reads. *Directory*: two
sign-ins of two addresses by three providers, an hour of one tick. *Short URLs*: two orgs, a domain, a prefix, two
codes and links, one of them private: the domain and the prefix change orgs, and a code
passes from a renamed link to another. The components share no variable but the clock, which each
behaviour uses for one of them, so the state space is the sum of theirs and not the
product.

The counters that grow are cut by constants: `PrefixIds`, `Links`, `MaxLinks`, `Orgs`,
`Invites` (rows ever created), `MaxEdits` (edits begun), `MaxFaults` (statements of
the job that fail), `Requests` and `Visitors` (at once), `MaxRules`, `MaxVisits`, `MaxChanges`,
and `MaxTargets`, `MaxRevisions`, `MaxClicks`, `MaxRows`, `MaxLeaves`, `MaxJoins`, `MaxShort`,
the horizons (`WindowHorizon`, `ThrottleHorizon`, `CacheHorizon`, `AccessHorizon`,
`ServingHorizon`, `AnalyticsHorizon`, `DirectoryHorizon`) at which the clock stops. `Cap`, `MaxAttempts`, `Limit`, `Window`, `Cooldown`,
`MemberCap`, `BatchSize`, `MaxPerRun`, `Refetch`, `CacheTTL`,
`AccessTTL`, `RefreshTTL`, `DayLength`, `MonthLength`, `Viewable`, `Retention`,
`PageSize` and `TouchEvery` are the code's own parameters at small values. Symmetry is used over
values the code treats alike; not over orgs and invites in `Membership`, whose
order the code uses, and not in `visits` and `rescan`, which check liveness.

No run has `CHECK_DEADLOCK FALSE`: there is always a request to begin or to
abandon, a visit to make, a run of the job to start or, for the timed components,
another call, lookup or login when the clock has stopped.

### What the runs show

- *One primary.* `SetPrimary` reads APPROVED, then swaps flags in a transaction
  that looks again and rolls back: the flag is never on a row that is not
  APPROVED, never on two, and never lost by a swap that fails.
- *Revocation.* A withdrawal that read the row before its revocation does not
  delete it, because the `DELETE` itself says `status <> 'REVOKED'`.
- *Registry.* All of this implements a registry in which a value has one keeper
  and passes on only by becoming free.
- *Cap.* 20 prefixes per org are 20 plus at most one for each other request
  that passed the count at the same time.
- *Sessions.* A token pair is only ever scoped to an org the user belonged to at
  some time during the request that issued it. (A pair for a member removed a
  moment before the answer is sent cannot be excluded, and is downgraded at the
  next refresh.)
- *Members.* An org has at most the policy's members and one for each other request
  that passed the policy's check at the same time; a second check on the login path does
  not keep the cap, as its comment has it (section 4).
- *Removal.* Someone removed while nothing was under way for them does not come
  back without a new invite or the domain; with a request under way they can
  (a session that has read the invite as PENDING).
- *Throttle.* A window can hold `limit + 2 * inflight - 1` misses of one client,
  not `limit`: resolutions admitted before a block record misses during it, and
  those that end after it are forgotten by its release.
- *Duplicates.* Nobody sees two links of one destination unless two requests were
  creating it at once, an alias was asked for or an edit changed one of them.
- *Audit.* The rows of `link_edits` chain from the first destination to the
  present one, except where two edits of a link overlapped or one broke off
  between its update and its audit row.
- *Limiter.* Whichever key's call sweeps the map, `limit + 1` events of a key span
  a window, and a call is denied only while `limit` events are younger than one.
- *Rotation.* A key that was withdrawn signs nobody in once the cache's lifetime is
  over, though every fetch fails; a key that was published for longer than the
  cooldown is refused only in a lookup whose own fetch failed.
- *Access.* A removed member gets at the org for less than one access token's
  lifetime, whatever tokens are still about and whatever refresh was under way. For a
  disabled account the same holds counted from its last login or switch of org:
  those two issue a pair without reading `users.status`.
- *Keys.* A request with an API key is served as the key's org or refused; the token
  that may come with it is never used.
- *Browser.* What is stored is the session the user asked for last, and nothing after
  a logout, except when a refresh, a switch or a repeated call was in flight at
  that moment: its answer is stored, or its failure clears the new session.
- *Rules.* While the rules of a new link are inserted, and when that failed half way,
  a visitor is answered as by the finished link or as by a link without rules.
- *Counts.* `links.visits` and the rows of `clicks` differ by the statements that
  failed and the requests that a crash cut between the two, by nothing else.
- *Answers.* A visit's URL carries the UTM values that its click records, and they are
  those the owner gave last or, if none were given, those of the visit; an app link goes to
  devices of its system; rules on cities pass over visitors whose city is unknown. Where
  an app link lacks a field, it came with the creation (see section 4).
- *Statistics.* The sections of a report add up to its total, click by click, but for
  clicks recorded while it ran. Nothing is shown beyond the viewable events of the month
  as the gate counted them, and nothing older than the retention and one day.
- *Listings.* A walk to the last page shows every row that stayed, but for one for each
  that ceased to match meanwhile: in listings that only grow none is missed. An org that
  is told to have an owner is told to have members, unless somebody joined in between.
- *Accounts.* Two first sign-ins of a person, by whatever provider and however the
  address is spelled, make one account and one welcome; the loser of the race is answered
  with an error and finds the account the next time. `last_active_at` is at most an
  hour behind.
- *Short URLs.* The URL displayed for a link leads to it and to no other link until the
  link is renamed or its org loses the domain or the prefix; neither a new primary
  nor another org's prefix disturbs that. A short URL that is pasted for shortening
  is answered with the link a visit would reach, and refused only when that link is not
  the member's to see. A short URL on a custom domain is not recognized at all
  (`services/link.go:176` compares with SHORT_DOMAIN only) and gets a link of its own.
- *Domains.* Whatever is deleted, registered anew, published or disabled in between:
  a custom hostname serves only links of an org whose own token has been in the
  hostname's zone. A disabled domain can become VERIFIED, but only by a verification
  that had read it before. A lost swap keeps the old primary.
- *Rescan.* A run that disables a link had a cause: during the run the link had a
  destination that a scan could flag. It may be another one by then, and the
  operator may just have enabled the link; the code takes no second look. No
  visited link with a listed destination stays active for ever, though statements
  fail, the process restarts and links change between pages.

## 4. Findings

- `collision`: `IsHeld` and `CodeExists` are asked before the inserts, on two
  tables, and nothing relates the tables' unique keys: an alias and a prefix
  requested at the same time become equal. `docs/ARCHITECTURE.md:406` says that
  no code may equal a held prefix. `CollisionOnlyByRace` shows that there is no
  other way.
- `invites`: `InviteStore.SetStatus` updates whatever the status is by now, and
  both RevokeInvite and a session read PENDING before. An invite whose revocation
  was answered with success is accepted, or an accepted one becomes REVOKED.
  `services/org.go:240` says that RevokeInvite revokes a pending invite.
- `dedupe`: `FindByDestination` compares in the column's collation, and
  `destination_url` has the server's default, which ignores letter case
  (`docs/ARCHITECTURE.md:135` notes this of `links.code`, where the prefixes rely on it).
  Paths are case-sensitive: someone who shortens `.../Abc` is given the link to
  `.../abc`. `stores/link.go:81` says that the search returns the link "with this
  exact destination".

Other divergences are known and have no run of their own:

- `services/org.go:166-169` says of the policy's check on the number of members: "The
  same check runs again when the membership is actually created on the login path
  (AuthService), so an invite that slipped in before the org filled up cannot
  overshoot." It can. `joinAsMember` (`services/auth.go:146-158`) asks the policy and
  inserts the membership in another statement, with no transaction or lock around the
  two. An org has its owner and a cap of 2; two addresses are invited while there is
  room for either. Both users log in, both sessions ask the policy and are let in, both
  insert: three members. TLC refutes `Cardinality(Members(o)) <= MemberCap` on that
  instance (three users, two invites, two requests; this is its trace where no org
  admits by domain, and two users who join by domain give a like one) and confirms it
  with one request, so the comment holds of sessions that do not overlap.
  `MembersWithinCapAndRaces`, which the run `membership_cap` checks and `CapAndRaces`
  proves, is therefore not what the comment promises: it admits an excess of one member
  for each other request under way at once, and shows that there is no more.
- A run of the rescan job ends after `rescanMaxLinks` rows, and the next begins
  again at id 0, so that with more due links than that the later ones are never
  scanned; `services/rescan.go:22` says the job "picks the rest up next interval".
  `ExposureEnds` is checked where a run can take all links; with `MaxPerRun = 1` TLC
  refutes it.
- `docs/ARCHITECTURE.md:178` says that refresh re-validates the user's status, so
  that a disabled user gets 401. `SwitchOrg` (`services/auth.go:358`) reads the
  membership only, and so does `Login`: whoever switches org once per access lifetime
  keeps a disabled account alive for ever. `AccessEnds`, a part of `AccessIsGranted`, says so
  with `unchecked`; without that disjunct TLC refutes it.
- `auth/jwks.go:26` says that the cache refetches "never more often than
  jwksRefetchCooldown". A failed fetch leaves `fetchedAt` as it was, and the next
  lookup fetches again. `RotatedKeysAreFound`, a part of `KeysFollowProvider`, rests on
  that.
- `frontend/src/lib/api.ts:189` keeps the tokens on a network failure; the first `/me`
  of a page clears them on any error (`auth/AuthContext.tsx:88`).
- `services/resolve.go:144` says that nothing of a scheduled link leaks before its
  time; the preview of the same link (`PreviewByCode`) shows its destination.

- `services/link.go:204` says that a malformed deep link fails before a link is created.
  `shorten` takes `in.Deeplink` as it is; `validateDeeplink` is called by `SetDeeplink`
  only. A link created with an Android config without its intent, say, serves it that
  way. `AnswersMatchVisitors` says so with `via = "create"`; without it TLC refutes it.
- `services/stats.go:99` says that with retention R "nothing older than now-R is
  viewable". The cutoff is the date of now-R, so clicks of that whole day are. The
  property allows for one day.
- `models/stats.go:70` and `services/stats.go:222` count as app opens the clicks "actually
  served an app deep link". `is_deeplink` stays TRUE when a target rule overrides the app
  link (`services/resolve.go:161-168`); `docs/ARCHITECTURE.md:624` describes that.
- `docs/ARCHITECTURE.md:591` and `docs/FEATURES.md:274` reserve auto-tagging for links
  without explicit UTM values. Values that the owner wrote into the URL itself do not
  count as explicit (`services/resolve.go:408-424`), and auto-tagging overwrites them; an
  edit that only adds the columns for tags which the URL has is a no-op
  (`services/link.go:569`).
- `handlers/cachecontrol.go:21` caches a QR code as immutable for a year because it is a
  function of the short URL. A new alias, a new primary prefix or domain changes the short
  URL under the same path.
- `migrations/20260728221207_link_gating.go:10` says that resolution asks for the password
  of a link that has one; `Resolve` does not read it and nothing sets it.
- `services/link.go:138` says that shortening a URL which is already a short link on the
  deployment returns the existing link. It does for visible links of the own org on
  SHORT_DOMAIN; another org's is refused, and one on a custom domain is shortened again.

## 5. Fairness

Two runs check liveness. `FairSpec` of `Namespace` adds weak fairness of `Continue(r)`: a
goroutine that has started its handler is scheduled again, and each of its
database calls returns or fails (the driver's timeouts and the request's context
see to it). `Abort` is among the steps that count, so fairness does not promise
that a statement succeeds. Nothing makes a user send a request, the operator
decide or a visitor come. What `HandlersFinish` then says is about the loop: a
code draw ends even when every draw is held or taken.

`FairSpec` of `Rescan` adds weak fairness of a run's steps: cron starts the job at
every interval (`app/app.go:279`), the scan of a row ends by the HTTP
client's timeout, and statements return or fail. A step that fails counts too, but
the number of failures is bounded by `MaxFaults`: a database that fails for ever
protects nobody. Restarts are not bounded. `Exposed` speaks of the list the
process holds, not of what the feeds publish: a fetch that never succeeds, or a
restart, ends an exposure in this sense by emptying the list.

## 6. Proofs

The proofs are for every value of the constants, under the named assumptions
`NamespaceAssumption`, `MembershipAssumption`, `DomainsAssumption`,
`LinksAssumption`, `FeedListAssumption`, `RescanAssumption`, `RowAssumption`,
`RateLimitAssumption`, `SlidingWindowAssumption`, `GuessThrottleAssumption`,
`KeyCacheAssumption`, `AccessAssumption`, `BrowserSessionAssumption`, `ServingAssumption`,
`DirectoryAssumption`, `AnalyticsAssumption`, `AnswersAssumption`, `ListingsAssumption` and
`ShortAssumption` (ids and request slots finite where they are counted, limits and
lifetimes positive, a cooldown no shorter than its window, the absent value is none of the
values, there is a destination, agents and systems those of the code's tables).
`AccessAssumption` also wants refresh tokens to outlive access tokens, as the defaults do
(30 days and 15 minutes, `auth/tokens.go:23-24`); `tokens.go` does not enforce it on a
deployment's own values. TLC
evaluates the assumptions on every run. Every invariant and every action property of a
passing run is a theorem; what is left to TLC is in section 7.

Three things came to light by proving that no run had shown. `NextFeed` never came past
the first feed: the run has one feed, and the type of `refresh` could not be proved; the
definition was wrong against `feeds.go` and is corrected. A page of the rescan job was a
sequence cut out of a sequence by recursion, about which nothing can be proved; it is a
set now, and the order of ids is in `Current`. And two type invariants were true for
other reasons than they gave: a sign-in's account lies within the table (`Directory`), and
a request's section is one of the queries that `Plan` has (`Analytics`).

*Types* (`TypeCorrect`). `TypeOK` of `Namespace` is inductive as it stands. The
lemmas of `NamespaceProofs` are by actor, and the other proofs reuse them.

*Exclusion* (`CollisionsAreRaces`). `CollisionOnlyByRace` is not inductive: it
does not know that a writer's check was true. `RaceInv` puts a value on the code
side when a code has it or a writer of the code has passed `IsHeld`, and on the
prefix side when it is held or a writer of the prefix has passed `CodeExists`; a
value on both sides is in `raced`. A value comes to a side only by a check, and
the check finds the other side's rows empty, so that only a writer can be there:
that is a race. Inserts move a value from writer to row of the same side.

*Rows* (`PrimariesSound`, `RevocationsStand`, `PrimariesAreKept`).
`RowInv` is the conjunction of the two invariants with `UniqueValue` (one holding
row per value), which the refinement needs. `PrimariesAreKept` needs `TargetInv`:
the row that a SetPrimary request has read still belongs to its org, because ids
are not used twice. Without it the swap could clear one org's flag and set another's.

*Cap* (`CapHolds`). `CapInv` adds, for each org, its held rows and the requests
between count and insert: the sum stays below cap plus slots. A count that passes
sees fewer than `Cap` rows and at most every slot can be such a request; an
insert takes one from the one side and adds one to the other.

*Visits* (`VisitsStayInScope`). `ClaimantInv` and `OwnerInv`: a prefix request acts
for an org, so a used row has an owner, and the scope it gives is not the root's.
`WriterInv`: a written code is a name, so a link that was served still exists.
`VisitInv`: what a visitor carries agrees with the row it was read from.

*Refinement* (`RegistryRefined`). Under `UniqueValue` the `CHOOSE` in the mapping
of `standing` and `keeper` has one candidate, so every action moves one value or
none: inserts claim, withdrawals and decisions move the row's value, and the rest
stutters.

*Membership, the base* (`MembershipProofs!TypeCorrect`). `TypeOK` is not inductive
in `Membership`: a step indexes tables with what a request has read. `BaseInv`
adds that invites that were sent name an existing org and a user (`InviteInv`),
that the history `everMember` holds every member and only existing orgs
(`PastInv`), and that what a request has read is still true of the rows
(`ReadsInv`): orgs and invites are never deleted. The lemmas split a step in what
it leaves in the tables (`TablesKeep`), in the request's record (`Reaches`) and in
the history (`Watch`). That the code's "first" invite or org exists (`Least`) is
the well-foundedness of strict inclusion on finite sets.

*Owners* (`OwnersAreKept`). RemoveMember deletes by org and user, whatever the role
is by then. `OwnerInv`: an org has at most one owner; none while its creator's row
is still to be inserted; and a removal under way is of somebody else in an org
that has its owner. So the role it has read as MEMBER cannot have become OWNER.

*Accepted invites* (`AcceptedHaveJoined`). `AcceptInv` adds that a session about to
mark an invite is of a user who has been in the invite's org.

*Scope of sessions* (`ScopesWereMemberships`). `ScopeInv`: the history of a session
under way holds every org its user is in now and the one it joined. The answer
picks from these, and a /me never joins by domain.

*Policy's cap* (`CapAndRaces`). As for prefixes: an org's members plus the requests
between the policy's answer and their insert, or between an org and its owner's
row, stay below the cap plus the slots.

*Removals* (`RemovalsStick`). `OutInv`: a user who is out has no pending invite, no
session holding an invite to the org or about to join it, and no invite request
under way. Each step that starts one of these either looks at a table that has
none (`BeginsHarmless`) or is what ends being out.

*Domains* (`DomainsInvariant` and the five theorems after it). `DomainsInv` adds to the
types that a used row has a host and an org (`RowsFilled`), that zones hold tokens of
registered domains only (`TokensAreIssued`), and, for each request, what its stage says
of the row it names (`TaskOK`): a verification that found its token has had it shown in
the zone of the row's hostname; a swap's row belongs to the swap's org. Rows are never
used twice, so what a handler has read of host and org stays true though status and
zone do not, which is why the unconditional `UPDATE` does no harm to
`VerifiedWasProved`. `VerificationIsCurrent` needs that a verification under way
is of a hostname that is not the deployment's (a restart ends it), and that one whose
row is disabled is in `overtaken`.

*Key cache* (`WithdrawnExpire`, `RotatedFound`). `CacheInv`: every cached key was
published at `fetchedAt`, and what was published then and still is without a gap
is cached. A lookup answers from the cache only within the lifetime or the cooldown.

*Access* (`AccessGranted`). The property speaks of answers, the
invariant of tokens: an access token that has not expired names an org of which the
user was a member less than its lifetime ago (`TokensAreBounded`), since it was
issued for what a request had read within the same tick (`RefreshesAreFresh`). Refresh
tokens need no such bound, because a refresh reads the membership again. The same for
the account's status, with `unchecked` for the pairs that no status was read for.

*Serving* (`PartialRules`, `VisitsAreAccounted`). `RulesInOrder`: until
somebody edits the rules, inserted and pending ones make up a prefix of what was
submitted, so a first match among them is the first match of all. `VisitsAccounted` is
inductive once counted visits are known to be finite.

*Accounts* (`AccountsSound`). `DirectoryInv`: what a sign-in has read is still true,
because rows of `users` are never deleted and their address never changes; a sign-in that
has found nothing may be wrong by then, and the unique key refuses its insert.

*Statistics* (`ReportsSound`, from `ReportsDoAddUp` and `ViewingBounded`). Clicks never
change and ids only grow, so `AnalyticsInv` can say of every section what it was by ids:
the clicks of the range up to those there were when the query ran. Sections of one request
use one range, fixed by the gate, and differ only above `counted`. That month and cutoff
were taken at the gate's moment bounds what is shown by it.

*Answers* (`AnswersMatch`). The property speaks of a visit that is answered, the
invariant of rows (`Keeps`): the columns are the values last asked for, and each of them is
in the URL beside it. It holds of the table's row and of the one a visit has read,
whatever the owner does meanwhile. `AgentsAreTold` goes through the table of headers;
`MatchingRuleMatches` says that the rule chosen is one that matches.

*Short URLs* (`ShortAgree`). `ShortInv`: a code has one link, since every write of a code
finds it free; what the handler has read of the code's row and of the URL's scope still
holds as long as neither has changed (`AskingRows`); and the URL that is kept has its
link's org in its scope (`HeldRow`). `MeanwhileKeeps` is the one lemma about rows that
change: whichever action changes them, what was asked about is the same or `late` is set.

*Sliding window* (`WindowIsExactHolds`, `IdleKeysForgottenHolds`). `WindowInv`: what is
kept of a key is the tail of what it was granted, and all that was dropped, by its own
calls or by a sweep of another key's, is a window old. So `limit` kept events younger
than a window are `limit` granted ones, and the converse.

*Throttle* (`ThrottleIsFairHolds`, `IdleClientsForgottenHolds`). A release forgets misses
that are still young, so the tail alone bounds nothing. `ThrottleInv` says of each client:
with more than `limit` young misses kept there is a block that the last miss began
(`OnGuard`), so nobody is admitted; what is kept and young leaves room for the resolutions
under way (`RoomFor`); whoever began a block had at most the other resolutions behind it
(`Earned`); and of the young misses a release forgot at most as many (`Forgotten`).
From these comes the spacing of any `Budget + 1` misses (`Spaced`). The cooldown has to
be no shorter than the window: else a block could end while its misses are young.

*Links, the base* (`LinksProofs!TypeCorrect`). `StateInv`: links are numbered in the
order of creation, a link that is there has its creation on record, and a request that is
editing has read a link that is there (rows are never deleted).

*Duplicates* (`DuplicatesAreRacesHolds`). As for exclusion: the property does not know
that a search was in vain. `DedupeInv`: two requests that are creating one destination
are in `raced` (`RacesNoted`); and a request that has searched in vain knows of no link to
its destination that its user may see, or the destination is in `raced` (`SearchHolds`).
An unedited link still has the destination it was created with.

*Audit rows* (`EditsTellTheStoryHolds`). `StoryInv`, of every link that is not `tangled`:
at most one edit of it is under way; its audit rows are a chain; their end is what
the row has (`Told`), except between an edit's update and its audit row, when it is what
that edit has read.

*Rescan* (`RescanTypeCorrect`, `DisabledForCauseHolds`). `RescanInv`: a run's page is a
finite set of links, empty only between pages, so that `Current` exists (the least of a set of numbers);
pages are no longer than the batch size, because so many ids come before none of the rest.
`CauseInv`: whatever a run still has to scan was a destination during the run, and the row
it is about to disable was flagged with that destination. `DisabledForCause` is an action
property; it follows for `DisableFlagged` and no other action disables in the job's name.

*Browser* (`SessionIsTheUsersHolds`). The property speaks of what is stored,
`BrowserInv` of what will be: until something has raced the user, a refresh in flight in
any tab is of the session the user has asked for, so its answer may be stored.

*Listings* (`PagesTellTheTableHolds`). `Place` of a row is the number of matching rows
ahead of it. Every page shows the rows of its places, so those among the places
read so far that stayed and were not shown (`Missed`) have moved into them since: a row
that leaves moves every row behind it by one place, which puts at most one more row over
the edge of the last page. Rows that are added never move one forward. `MissedInv` says so
at any time; on the last page all that stayed have places that were read.

*Types of the components of `parts`.* Each has a theorem of its own (`WindowTypeCorrect`,
`AccessTypeCorrect`, ...), from its invariant and the bounds (`ServingBounds`,
`DirectoryBounds`, `AnalyticsBounds`). For the counter of visits that takes one more
invariant: `DriftInv` charges each visit that has begun with one statement that counts
and one that may be missing, so that `drift` stays within the number of visits.

*The composition* (`ComponentsRun`, `PartsTypeCorrect`, `PartsIdleForgotten`,
`PartsCorrect`). Every behaviour of `MCParts` is, of the component that `machine` names, a
behaviour of that component's specification: its start is one (`StartsAreTheirs`), its
steps are (`StepsAreTheirs`), and `machine` never changes. What is proved of the eleven
components by themselves therefore holds of what the `parts` run checks.

## 7. Only model-checked

`HandlersFinish` and `ExposureEnds`, which are liveness under fairness; the run of the
second has one feed. The findings are counterexamples, not theorems.

## 8. Not modelled

- Strings: reserved and explicit words, alias and code alphabets, URL
  normalization, host canonicalization, loopback hosts, the syntax of hostnames. A name in `Namespace`
  is one that has passed the filters; a drawn code that has not is `DrawReserved`.
- Signatures of tokens and hashes of API keys.
- Brand-prefix screenshots: a picture that is stored and fetched by the row's id.
- The choice of the client's address among forwarded ones; the texts of e-mails.
- The preview of a link, which reads only; QR codes.
- Migrations' own sequence; handlers' binding and status codes; wiring in `app/app.go`.
- Pages and forms of the single-page app, but for the session and the paging of links.
- The generated mocks, which are a fifth of the Go lines outside tests.

Hazards that no property covers yet, with the reason beside each in `PROJECT.json`: an org
without its owner's row (`services/org.go:69`), lost updates of an org
(`services/org.go:101`), duplicate invites (`services/org.go:201`), and the bound of a
rescan run (`services/rescan.go:58`). That a feed cut off in the middle replaces a fuller
list (`scanner/feeds.go:112`) is what the code means to do; `FeedList` has the step.

## 9. Plan

1. The rescan job's bound and the switch of org by a disabled account as runs of their
   own, once two of the present runs are merged.
2. A bound on duplicate invites; lost updates of an org's name and domain; an org
   whose owner's row was never inserted.
3. Refinements, with their proofs: the limiters against an abstract budget per window,
   `Membership` against who may be in an org, `Links` against a table without requests.
4. What fairness needs besides safety: that a handler which is not finished has a step
   whose guard holds, as an invariant beside `HandlersFinish`.
