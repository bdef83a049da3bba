\* The limiters: two windows and a half of two ticks, so that events age out, keys are idle for
\* two windows and the sweep falls between the events of both keys; one miss too many,
\* a block and its end, with two resolutions in flight.  The key cache: one lifetime of
\* three cooldowns and the fetches after it.  Access: a removed member's refresh token
\* outlives the access tokens.  The browser: two accounts, two orgs, two tabs with a call each.  Serving:
\* two rules at most, two visits at once, one change to the link after its creation.
\* Answers: one rule, two changes to the link after its creation, agents whose words
\* mislead.  Analytics: two links, two months of one day of two ticks, a retention shorter
\* than a day.  Listings: pages of two of four rows, one of which may leave while they
\* are read, and one member.  Sign-ins: two at once for two addresses, last_active_at throttled
\* to a tick.
\* Short URLs: two orgs, a domain, a prefix, two codes and two links, one of which the
\* member may not see.
CONSTANTS
  Keys = {a, b}
  Limit = 2
  Window = 2
  WindowHorizon = 5
  Slots = {s1, s2}
  MissLimit = 1
  Cooldown = 2
  None = None
  ThrottleHorizon = 4
  Kids = {k1, k2}
  Refetch = 1
  CacheTTL = 3
  CacheHorizon = 5
  AccessOrgs = {o1}
  ApiKeys = {k1}
  Callers = {c1}
  AccessTTL = 2
  RefreshTTL = 3
  NoOrg = NoOrg
  AccessHorizon = 3
  Accounts = {u1, u2}
  Scopes = {o1, o2}
  Tabs = {t1, t2}
  Lines = {l1}
  Nothing = Nothing
  Audience = {a}
  Visits = {v1, v2}
  MaxRules = 2
  MaxVisits = 2
  MaxChanges = 1
  ServingHorizon = 1
  Destinations = {p}
  TagValues = {"mail"}
  Systems = {"Android"}
  Agents = {"AndroidTablet", "WindowsPhone"}
  Referers = {"t.co"}
  Cities = {"c"}
  SelfSource = "self"
  MaxTargets = 1
  MaxRevisions = 2
  Measured = {m1, m2}
  Hidden = {m2}
  DayLength = 2
  MonthLength = 2
  Viewable = 1
  Retention = 1
  MaxClicks = 2
  AnalyticsHorizon = 3
  PageSize = 2
  MaxRows = 4
  MaxLeaves = 1
  MaxJoins = 1
  Providers = {"google", "microsoft", "dev"}
  Addresses = {a1, a2}
  SignIns = {r1, r2}
  TouchEvery = 1
  DirectoryHorizon = 2
  Tenants = {o1, o2}
  Sites = {h1}
  ShortSite = short
  Headers = {p1}
  Words = {w1, w2}
  MaxShort = 2
  Unseen = {2}
  Absent = Absent
SPECIFICATION Spec
INVARIANTS
  TypeOK
  WindowIsExact
  IdleForgotten
  ThrottleIsFair
  KeysFollowProvider
  AccessIsGranted
  SessionIsTheUsers
  PartialRulesFallBack
  VisitsAccounted
  AnswersMatchVisitors
  ReportsAreSound
  PagesTellTheTable
  AccountsAreSound
  ShortURLsAgree
