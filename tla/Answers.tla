------------------------------- MODULE Answers --------------------------------
(***************************************************************************)
(* What a visitor is sent to and what the click row says of it: the        *)
(* destination with its UTM tags, the app links and the target rules of    *)
(* one link, against who comes from where (ResolveService.Resolve after    *)
(* its lookup, package visitor).                                           *)
(*                                                                         *)
(* An action is one statement with what the handler computes around it.    *)
(* Reading the link and reading its rules are two statements, so the       *)
(* owner's changes fall between them.  Two edits at once, deduplication    *)
(* and who may change a link are in module Links; the schedule, the        *)
(* counter, and rules that are changed or deleted in module Serving.       *)
(***************************************************************************)
EXTENDS Naturals, Sequences

CONSTANTS
  Destinations,  \* URLs up to their UTM parameters
  TagValues,     \* values that owners give a UTM parameter
  Systems,       \* the mobile systems that app links and rules are made for
  Agents,        \* the browsers that visit
  Referers,      \* Referer headers, "" if there is none
  Cities,        \* cities of the GeoIP database
  SelfSource,    \* UTM_SELF_SOURCE
  MaxTargets,    \* bound: rules of the link
  MaxRevisions   \* bound: changes to the link after its creation

-----------------------------------------------------------------------------
(***************************************************************************)
(* Package visitor.  A User-Agent header is the set of words in it that    *)
(* the code looks for; the headers are those of visitor_test.go.           *)
(***************************************************************************)
UserAgent ==
  [iPhone |-> {"iPhone", "Mobile", "Mobi", "Safari"},
   iPhoneChrome |-> {"iPhone", "Mobile", "Mobi", "CriOS", "Safari"},
   iPad |-> {"iPad", "Mobile", "Mobi", "Safari"},
   AndroidPhone |-> {"Android", "Mobile", "Mobi", "Chrome", "Safari"},
   AndroidTablet |-> {"Android", "Chrome", "Safari"},
   WindowsPhone |-> {"Windows", "Android", "Mobile", "Mobi", "Chrome", "Safari", "Edg"},
   Mac |-> {"Chrome", "Safari"},
   Opera |-> {"Windows", "Chrome", "Safari", "OPR/"},
   Edge |-> {"Windows", "Chrome", "Safari", "Edg"},
   Explorer |-> {"Windows", "Trident"},
   curl |-> {}]

\* What really sends these headers.
Real ==
  [iPhone |-> <<"Mobile", "iOS", "Safari">>,
   iPhoneChrome |-> <<"Mobile", "iOS", "Chrome">>,
   iPad |-> <<"Tablet", "iOS", "Safari">>,
   AndroidPhone |-> <<"Mobile", "Android", "Chrome">>,
   AndroidTablet |-> <<"Tablet", "Android", "Chrome">>,
   WindowsPhone |-> <<"Mobile", "Windows", "Other">>,
   Mac |-> <<"Desktop", "NA", "Chrome">>,
   Opera |-> <<"Desktop", "NA", "Opera">>,
   Edge |-> <<"Desktop", "NA", "Other">>,
   Explorer |-> <<"Desktop", "NA", "IE">>,
   curl |-> <<"Desktop", "NA", "Other">>]

ASSUME AnswersAssumption ==
  /\ Destinations # {} /\ Systems \subseteq {"iOS", "Android"}
  /\ Agents \subseteq DOMAIN UserAgent
  /\ "" \notin TagValues \cup Cities \cup {SelfSource}
  /\ MaxTargets \in Nat /\ MaxRevisions \in Nat

DeviceType(ua) ==
  IF "iPad" \in ua \/ "Tablet" \in ua \/ ("Android" \in ua /\ "Mobile" \notin ua) THEN "Tablet"
  ELSE IF ua \cap {"Mobi", "Android", "iPhone", "iPod"} # {} THEN "Mobile"
  ELSE "Desktop"

MobileOS(ua, device) ==
  IF device = "Desktop" THEN "NA"
  ELSE IF "Windows" \in ua THEN "Windows"
  ELSE IF ua \cap {"iPhone", "iPad", "iPod"} # {} THEN "iOS"
  ELSE IF "Android" \in ua THEN "Android"
  ELSE "Other"

Browser(ua) ==
  IF ua \cap {"OPR/", "Opera"} # {} THEN "Opera"
  ELSE IF "Edg" \in ua THEN "Other"
  ELSE IF ua \cap {"MSIE", "Trident"} # {} THEN "IE"
  ELSE IF ua \cap {"Firefox", "FxiOS"} # {} THEN "Firefox"
  ELSE IF ua \cap {"Chrome", "CriOS"} # {} THEN "Chrome"
  ELSE IF "Safari" \in ua THEN "Safari"
  ELSE "Other"

Build(agent, referer, city) ==
  LET ua == UserAgent[agent]
      device == DeviceType(ua)
  IN  [device |-> device, os |-> MobileOS(ua, device), browser |-> Browser(ua),
       referer |-> referer, city |-> city]

\* A referer is its host; one without a scheme has none.
ReferrerHost(env) == IF env.referer = "no scheme" THEN "" ELSE env.referer

-----------------------------------------------------------------------------
VARIABLES
  target,    \* the row of links: destination_url, the UTM columns and deeplink_config
  routing,   \* its rows of link_rules by id
  guest,     \* the visit: who comes, what has been read, what is answered and recorded
  asked,     \* history: the UTM values of the creation or of the last edit that was applied
  appsVia,   \* history: the call that wrote deeplink_config, "create" or "set"
  revisions  \* history: changes to the link after its creation

answersVars == <<target, routing, guest, asked, appsVia, revisions>>

Params == {"source", "medium", "campaign"}

TagSets == [Params -> TagValues \cup {""}]

NoTags == [p \in Params |-> ""]

URLs == [page : Destinations, tags : TagSets]

\* What is submitted: one UTM value at most, in the URL and beside it (bound).
Single(tags) == \A p, q \in Params : tags[p] = "" \/ tags[q] = "" \/ p = q

SubmittedTags == {t \in TagSets : Single(t)}

SubmittedURLs == {u \in URLs : Single(u.tags)}

Explicit(tags) == tags # NoTags

\* appendUTMs
WithTags(url, tags) ==
  [url EXCEPT !.tags = [p \in Params |-> IF tags[p] = "" THEN url.tags[p] ELSE tags[p]]]

\* deeplink_config; "part" lacks a field.
Apps == [Systems -> {"none", "part", "full"}]

NoCondition == [type |-> "any", values |-> {}]

\* normalizeCondition: what is left of the values is not empty.
Conditions(values) ==
  {NoCondition} \cup [type : {"is", "is_not"}, values : {vs \in SUBSET values : vs # {}}]

\* normalizeRule: one condition at least.  The URL of the rule in place i is "i".
Targets ==
  {t \in [os : Conditions(Systems), city : Conditions(Cities)] :
     ~(t.os = NoCondition /\ t.city = NoCondition)}

NoTarget ==
  [made |-> FALSE, url |-> CHOOSE u \in URLs : u.tags = NoTags, columns |-> NoTags,
   apps |-> [os \in Systems |-> "none"]]

NoGuest == [at |-> "nobody"]

-----------------------------------------------------------------------------
(***************************************************************************)
(* The owner.                                                              *)
(***************************************************************************)
\* What shorten inserts; only set deep links are checked to be complete.  The rules
\* that come with it are rows of their own, which AddTarget adds.
CreateTarget(url, tags, apps) ==
  /\ ~target.made
  /\ target' = [made |-> TRUE, url |-> WithTags(url, tags), columns |-> tags, apps |-> apps]
  /\ asked' = tags
  /\ appsVia' = "create"
  /\ UNCHANGED <<routing, guest, revisions>>

Revise == target.made /\ revisions < MaxRevisions /\ revisions' = revisions + 1

\* Mutant: an edit leaves the UTM columns as they were.
EditedURL(url, tags) == [target EXCEPT !.url = WithTags(url, tags)]

EditedRow(url, tags) == [target EXCEPT !.url = WithTags(url, tags), !.columns = tags]

\* UpdateDestination: an edit to the URL that is stored writes nothing.
EditTarget(url, tags) ==
  /\ Revise
  /\ WithTags(url, tags) # target.url
  /\ target' = EditedRow(url, tags)
  /\ asked' = tags
  /\ UNCHANGED <<routing, guest, appsVia>>

\* validateDeeplink
Complete(apps) == \A os \in Systems : apps[os] # "part"

\* An empty configuration is stored as NULL.
UpdateDeeplink(apps) == target' = [target EXCEPT !.apps = apps]

SetDeeplink(apps) ==
  /\ Revise
  /\ Complete(apps)
  /\ UpdateDeeplink(apps)
  /\ appsVia' = "set"
  /\ UNCHANGED <<routing, guest, asked>>

AddTarget(t) ==
  /\ Revise
  /\ Len(routing) < MaxTargets
  /\ routing' = Append(routing, t)
  /\ UNCHANGED <<target, guest, asked, appsVia>>

-----------------------------------------------------------------------------
(***************************************************************************)
(* A visit.                                                                *)
(***************************************************************************)
ConditionMatches(c, value) == IF c.type = "is" THEN value \in c.values ELSE value \notin c.values

RuleMatches(t, env) ==
  /\ t.os = NoCondition \/ ConditionMatches(t.os, env.os)
  /\ t.city = NoCondition \/ (env.city # "" /\ ConditionMatches(t.city, env.city))

\* The first rule that matches, or 0.
MatchTargetRules(rules, env) ==
  LET matching == {i \in DOMAIN rules : RuleMatches(rules[i], env)}
  IN  IF matching = {} THEN 0
      ELSE CHOOSE i \in matching : \A j \in matching : i <= j

SourceFor(env) ==
  LET host == ReferrerHost(env)
  IN  CASE host = "" -> SelfSource
        [] host \in {"t.co", "twitter.com"} -> "twitter"
        [] host = "google.com" -> "google"
        [] host = "facebook.com" -> "facebook"
        [] OTHER -> host

AutoTags(env) == [source |-> SourceFor(env), medium |-> env.device, campaign |-> ""]

RecordedTags(row, env) == IF Explicit(row.columns) THEN row.columns ELSE AutoTags(env)

\* applyUTMs
TaggedURL(row, env) ==
  IF Explicit(row.columns) THEN row.url ELSE WithTags(row.url, AutoTags(env))

\* deeplinkURL
HasApp(row, env) == env.os \in Systems /\ row.apps[env.os] # "none"

\* No database, no IP address and an address it does not have are all no city.
Locations == Cities \cup {""}

\* The row has been read (GetByCode).
GuestArrives(agent, referer, city) ==
  /\ target.made
  /\ guest = NoGuest
  /\ guest' = [at |-> "read", agent |-> agent, env |-> Build(agent, referer, city),
               row |-> target, asked |-> asked, via |-> appsVia]
  /\ UNCHANGED <<target, routing, asked, appsVia, revisions>>

\* The rules in their order, or none if the query fails.
ListByLink == {routing, <<>>}

\* The click row and the redirect: to the rule's URL if `rule` is not 0, else to the
\* app link if `app`, else to `url`.
GuestIsAnswered ==
  /\ guest.at = "read"
  /\ \E rules \in ListByLink :
       LET env == guest.env
           rule == MatchTargetRules(rules, env)
       IN  guest' = [at |-> "answered", agent |-> guest.agent, env |-> env,
                     row |-> guest.row, asked |-> guest.asked, via |-> guest.via,
                     rules |-> rules, rule |-> rule, app |-> HasApp(guest.row, env),
                     url |-> TaggedURL(guest.row, env),
                     click |-> RecordedTags(guest.row, env)]
  /\ UNCHANGED <<target, routing, asked, appsVia, revisions>>

GuestLeaves ==
  /\ guest.at = "answered"
  /\ guest' = NoGuest
  /\ UNCHANGED <<target, routing, asked, appsVia, revisions>>

-----------------------------------------------------------------------------
AnswersInit ==
  /\ target = NoTarget
  /\ routing = <<>>
  /\ guest = NoGuest
  /\ asked = NoTags
  /\ appsVia = "create"
  /\ revisions = 0

AnswersNext ==
  \/ \E url \in SubmittedURLs, tags \in SubmittedTags :
       EditTarget(url, tags) \/ \E apps \in Apps : CreateTarget(url, tags, apps)
  \/ \E apps \in Apps : SetDeeplink(apps)
  \/ \E t \in Targets : AddTarget(t)
  \/ \E agent \in Agents, referer \in Referers, city \in Locations :
       GuestArrives(agent, referer, city)
  \/ GuestIsAnswered \/ GuestLeaves

AnswersSpec == AnswersInit /\ [][AnswersNext]_answersVars

-----------------------------------------------------------------------------
\* Types of the row, the rules and the visit.
AnswersTypeOK ==
  /\ target \in [made : BOOLEAN, url : URLs, columns : TagSets, apps : Apps]
  /\ routing \in Seq(Targets) /\ Len(routing) <= MaxTargets
  /\ guest.at \in {"nobody", "read", "answered"}
  /\ guest.at # "nobody" => guest.row \in [made : {TRUE}, url : URLs, columns : TagSets, apps : Apps]
  /\ guest.at = "answered" => guest.rule \in 0 .. Len(routing)
  /\ asked \in TagSets
  /\ appsVia \in {"create", "set"}
  /\ revisions \in 0 .. MaxRevisions

\* A visit is told apart by the device that makes it; its click records the UTM
\* values that the link was last given, all of them and no others, and if it was given
\* none those it is sent on with, so that what is served and what is counted agree
\* across edits; an app link goes to devices of its system only, and lacks a field
\* only if it came with the creation; a rule on cities goes only to visitors from a
\* city that is known, and one on systems to devices that run (or do not run) it.
AnswersMatchVisitors ==
  guest.at = "answered" =>
    LET env == guest.env
        system == Real[guest.agent][2]
        rule == guest.rules[guest.rule]
    IN  /\ <<env.device, env.os, env.browser>> = Real[guest.agent]
        /\ \A p \in Params : guest.click[p] # "" => guest.url.tags[p] = guest.click[p]
        /\ guest.asked # NoTags => guest.click = guest.asked
        /\ guest.app => guest.row.apps[system] = "full" \/ guest.via = "create"
        /\ guest.rule # 0 =>
             /\ rule.city # NoCondition => env.city # ""
             /\ rule.os # NoCondition => (rule.os.type = "is" <=> system \in rule.os.values)
=============================================================================
