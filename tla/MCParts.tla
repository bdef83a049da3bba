------------------------------ MODULE MCParts ------------------------------
(***************************************************************************)
(* Components that share no state but the clock, for TLC: `machine` says   *)
(* which of them a behaviour runs; the others stay as they began.  The     *)
(* state space is the sum of theirs.                                       *)
(***************************************************************************)
EXTENDS SlidingWindow, GuessThrottle, KeyCache, Access, BrowserSession, Serving,
        Answers, Analytics, Listings, Directory, ShortURLs

VARIABLE machine

Machines ==
  {"window", "throttle", "keys", "access", "browser", "serving", "answers", "analytics",
   "listings", "directory", "short"}

Init ==
  /\ now = 0
  /\ lastSweep = -Window
  /\ machine \in Machines
  /\ WindowInit /\ ThrottleInit /\ AccessInit /\ BrowserInit /\ ServingInit
  /\ CacheInit /\ (machine # "keys" => published = {})
  /\ ListingsInit /\ (machine # "listings" => listing = "links")
  /\ AnswersInit /\ AnalyticsInit /\ DirectoryInit /\ ShortInit

windowOwn == <<hits, granted, called, denied>>
throttleOwn == <<misses, blockedUntil, flight, missed>>
cacheOwn == <<published, cached, fetchedAt, publishedTo, publishedFrom, accepted, unknown>>
accessOwn == <<joined, enabled, issued, keyStatus, keyOrg, calls, memberTo, enabledTo,
               unchecked, served>>

limiters == <<lastSweep, windowOwn, throttleOwn>>
sessions == <<cacheOwn, accessOwn, browserVars, directoryOwn>>
readers == <<servingOwn, answersVars, analyticsOwn, listingsVars, shortVars>>

partsVars == <<machine, now, limiters, sessions, readers>>

Next ==
  /\ \/ /\ machine = "window" /\ WindowNext
        /\ UNCHANGED <<throttleOwn, sessions, readers>>
     \/ /\ machine = "throttle" /\ ThrottleNext
        /\ UNCHANGED <<windowOwn, sessions, readers>>
     \/ /\ machine = "keys" /\ CacheNext
        /\ UNCHANGED <<limiters, accessOwn, browserVars, directoryOwn, readers>>
     \/ /\ machine = "access" /\ AccessNext
        /\ UNCHANGED <<limiters, cacheOwn, browserVars, directoryOwn, readers>>
     \/ /\ machine = "browser" /\ BrowserNext
        /\ UNCHANGED <<now, limiters, cacheOwn, accessOwn, directoryOwn, readers>>
     \/ /\ machine = "directory" /\ DirectoryNext
        /\ UNCHANGED <<limiters, cacheOwn, accessOwn, browserVars, readers>>
     \/ /\ machine = "serving" /\ ServingNext
        /\ UNCHANGED <<limiters, sessions, answersVars, analyticsOwn, listingsVars, shortVars>>
     \/ /\ machine = "answers" /\ AnswersNext
        /\ UNCHANGED <<now, limiters, sessions, servingOwn, analyticsOwn, listingsVars, shortVars>>
     \/ /\ machine = "analytics" /\ AnalyticsNext
        /\ UNCHANGED <<limiters, sessions, servingOwn, answersVars, listingsVars, shortVars>>
     \/ /\ machine = "listings" /\ ListingsNext
        /\ UNCHANGED <<now, limiters, sessions, servingOwn, answersVars, analyticsOwn, shortVars>>
     \/ /\ machine = "short" /\ ShortNext
        /\ UNCHANGED <<now, limiters, sessions, servingOwn, answersVars, analyticsOwn,
                       listingsVars>>
  /\ UNCHANGED machine

Spec == Init /\ [][Next]_partsVars

\* Each component's state is well typed: the conjuncts are stated in its module.
TypeOK ==
  /\ machine = "window" => WindowTypeOK
  /\ machine = "throttle" => ThrottleTypeOK
  /\ machine = "keys" => CacheTypeOK
  /\ machine = "access" => AccessTypeOK
  /\ machine = "browser" => BrowserTypeOK
  /\ machine = "serving" => ServingTypeOK
  /\ machine = "answers" => AnswersTypeOK
  /\ machine = "analytics" => AnalyticsTypeOK
  /\ machine = "listings" => ListingsTypeOK
  /\ machine = "directory" => DirectoryTypeOK
  /\ machine = "short" => ShortTypeOK

\* What is idle is forgotten: neither limiter's maps grow with the keys ever seen.
IdleForgotten ==
  /\ machine = "window" => IdleKeysForgotten
  /\ machine = "throttle" => IdleClientsForgotten
=============================================================================
