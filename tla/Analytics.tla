------------------------------ MODULE Analytics -------------------------------
(***************************************************************************)
(* What is recorded of the visits to an org's links (table clicks) and     *)
(* what is shown of them: the statistics endpoints (StatsService) and the  *)
(* operator's daily series (AdminService.DailyStats).                      *)
(*                                                                         *)
(* A request runs one query after the other, outside any transaction: a    *)
(* query is a step, and between two of them visits are recorded and the    *)
(* clock goes on.  Queries name their org, so one org is enough, and one   *)
(* request, since requests change nothing.  A click's id is its place in   *)
(* the table.  A bucket of an answer is the set of the clicks it counts.   *)
(***************************************************************************)
EXTENDS Clock, Sequences, FiniteSets

CONSTANTS
  Measured,         \* the org's links
  Hidden,           \* those that are PRIVATE and not the viewer's
  DayLength,        \* ticks of a day
  MonthLength,      \* ticks of a month
  Viewable,         \* limits.Window.ViewableEvents; 0 is no bound
  Retention,        \* limits.Window.Retention, in ticks; 0 is no bound
  MaxClicks,        \* bound: clicks recorded
  AnalyticsHorizon  \* the clock stops here (bound for TLC)

ASSUME AnalyticsAssumption ==
  /\ Hidden \subseteq Measured
  /\ DayLength \in Nat \ {0} /\ MonthLength \in Nat \ {0}
  /\ Viewable \in Nat /\ Retention \in Nat
  /\ MaxClicks \in Nat /\ AnalyticsHorizon \in Nat

VARIABLES
  recorded,  \* the rows of clicks by id
  inquiry    \* the request under way: what it has computed and read

analyticsOwn == <<recorded, inquiry>>
analyticsVars == <<now, analyticsOwn>>

Day(t) == t \div DayLength
Clicks == DOMAIN recorded

-----------------------------------------------------------------------------
\* What a visit comes to.  `value` is any attribute that queries group by or count
\* apart (browser, device, referrer, place, campaign tag, UTM value): NULL if it is
\* empty.  The OS of a desktop is "NA".  A rule that matches leaves is_deeplink as it is.
Impressions ==
  {[value |-> "NULL", os |-> "NA", flagged |-> FALSE, matched |-> FALSE],
   [value |-> "v", os |-> "Android", flagged |-> TRUE, matched |-> TRUE]}

RecordClick(l, m) ==
  /\ Len(recorded) < MaxClicks
  /\ recorded' = Append(recorded, [link |-> l, at |-> now, of |-> m])
  /\ UNCHANGED <<now, inquiry>>

-----------------------------------------------------------------------------
(***************************************************************************)
(* A request, up to its queries.  One that is refused changes nothing and  *)
(* is no action: dates in the wrong order, the gate, a link that is not    *)
(* the viewer's to see.                                                    *)
(***************************************************************************)
Quiet ==
  [kind |-> "none", next |-> 0, links |-> {}, app |-> FALSE, asked |-> 0, from |-> 0, to |-> 0,
   gatedAt |-> 0, known |-> 0, section |-> "none", part |-> {}, total |-> {}, counted |-> 0]

MonthStart == (now \div MonthLength) * MonthLength

EventsThisMonth == Cardinality({i \in Clicks : recorded[i].at >= MonthStart})

\* analyticsWindow: 403 LIMIT_REACHED for an org with more events than it may view.
Gate == Viewable > 0 => EventsThisMonth <= Viewable

\* The cutoff is a date.
RetentionSince == Day(now - Retention)

\* Mutant: of the two dates the older one counts.
ClampFromToOlder(from) ==
  IF Retention > 0 /\ from > RetentionSince THEN RetentionSince ELSE from

ClampFrom(from) ==
  IF Retention > 0 /\ from < RetentionSince THEN RetentionSince ELSE from

Ask(kind, links, asked, from, to, app) ==
  /\ inquiry.kind = "none"
  /\ inquiry' = [Quiet EXCEPT !.kind = kind, !.next = 1, !.links = links, !.app = app,
                              !.asked = asked, !.from = from, !.to = to,
                              !.gatedAt = now, !.known = Len(recorded)]
  /\ UNCHANGED <<now, recorded>>

\* resolveDateRange: whole days, from a month ago up to today unless the request says otherwise.
FromDates == {Day(now - MonthLength), Day(now)}
ToDates == {Day(now) - 1, Day(now)}

AskReport(l, from, to, app) ==
  l \notin Hidden /\ from <= to /\ Gate /\ Ask("report", {l}, from, ClampFrom(from), to, app)

\* The other endpoints take no dates: all that was recorded, and will be.
AskAll(kind, links) == Gate /\ Ask(kind, links, 0, ClampFrom(0), Day(AnalyticsHorizon), FALSE)

AskUnique(links) == links # {} /\ AskAll("unique", links)
AskTags == AskAll("tags", Measured)
AskUTM == AskAll("utm", Measured)

\* The operator's view of the last `days` days knows neither gate nor cutoff.
AskDaily(days) ==
  LET start == Day(now) - (days - 1) IN Ask("daily", Measured, start, start, Day(now), FALSE)

-----------------------------------------------------------------------------
(***************************************************************************)
(* The queries.                                                            *)
(***************************************************************************)
DayOf(i) == Day(recorded[i].at)
ValueOf(i) == recorded[i].of.value
OSOf(i) == recorded[i].of.os

InRange ==
  {i \in Clicks : recorded[i].link \in inquiry.links /\ DayOf(i) \in inquiry.from .. inquiry.to}

\* GROUP BY: NULLs are one group.
Groups(S, key) == {{j \in S : key[j] = key[i]} : i \in S}

TotalClicks == {InRange}
ClicksPerDay == Groups(InRange, [i \in InRange |-> DayOf(i)])

\* Mutant: a visit without a value is in no group.
ValueTotalsOfKnown ==
  LET known == {i \in InRange : ValueOf(i) # "NULL"} IN Groups(known, [i \in known |-> ValueOf(i)])

\* Browser, device, referrer, country, region and city.
ValuesPerDay == Groups(InRange, [i \in InRange |-> <<DayOf(i), ValueOf(i)>>])
ValueTotals == Groups(InRange, [i \in InRange |-> ValueOf(i)])

Mobile == {i \in InRange : OSOf(i) \notin {"NULL", "NA"}}
MobileOSPerDay == Groups(Mobile, [i \in Mobile |-> <<DayOf(i), OSOf(i)>>])
MobileOSTotals == Groups(Mobile, [i \in Mobile |-> OSOf(i)])

DeeplinkClicks(flag) == {{i \in InRange : recorded[i].of.flagged = flag}}
TargetMatched == {{i \in InRange : recorded[i].of.matched}}
ClickDetails == {{i} : i \in InRange}

\* COUNT(DISTINCT custom_tag_id) over the links of the request, and the list of all tags.
Tagged == {i \in InRange : ValueOf(i) # "NULL"}
DistinctTags == Groups(Tagged, [i \in Tagged |-> ValueOf(i)])

\* Per UTM value and link, of the links that the viewer sees.
Seen == {i \in Tagged : recorded[i].link \notin Hidden}
UTMCounts == Groups(Seen, [i \in Seen |-> <<ValueOf(i), recorded[i].link>>])

\* The series of clicks; those of signups and links are like it.
DayCount(d) == {i \in InRange : DayOf(i) = d}

\* One entry for every day, with clicks or without.
DailySeries == {DayCount(d) : d \in inquiry.from .. inquiry.to}

\* The queries of each kind of request, in their order.
Plan ==
  [report |-> <<"total", "days", "valuesPerDay", "osPerDay", "values", "oses",
                "flagged", "opens", "matched", "details">>,
   unique |-> <<"tags">>,
   tags   |-> <<"tags">>,
   utm    |-> <<"source", "medium", "campaign">>,
   daily  |-> <<"daily">>]

\* The queries of each kind, in no order.
Queries == {{Plan[kind][n] : n \in DOMAIN Plan[kind]} : kind \in DOMAIN Plan}

\* fillDeeplinkStats asks for the app opens only if the request's flag was the other one.
ResultOf(q) ==
  CASE q = "total" -> TotalClicks
    [] q = "days" -> ClicksPerDay
    [] q = "valuesPerDay" -> ValuesPerDay
    [] q = "osPerDay" -> MobileOSPerDay
    [] q = "values" -> ValueTotals
    [] q = "oses" -> MobileOSTotals
    [] q = "flagged" -> DeeplinkClicks(inquiry.app)
    [] q = "opens" -> IF inquiry.app THEN inquiry.part ELSE DeeplinkClicks(TRUE)
    [] q = "matched" -> TargetMatched
    [] q = "details" -> ClickDetails
    [] q = "tags" -> DistinctTags
    [] q = "daily" -> DailySeries
    [] OTHER -> UTMCounts

Query == Plan[inquiry.kind][inquiry.next]

Asking == inquiry.kind # "none" /\ inquiry.next <= Len(Plan[inquiry.kind])

ReadTotal ==
  /\ Asking /\ Query = "total"
  /\ inquiry' = [inquiry EXCEPT !.next = @ + 1, !.section = "total", !.part = TotalClicks,
                                !.total = InRange, !.counted = Len(recorded)]
  /\ UNCHANGED <<now, recorded>>

ReadPart ==
  /\ Asking /\ Query # "total"
  /\ inquiry' = [inquiry EXCEPT !.next = @ + 1, !.section = Query, !.part = ResultOf(Query)]
  /\ UNCHANGED <<now, recorded>>

\* fillTargetRuleStats: the section is left out if the link has no rules at the moment.
SkipMatched ==
  /\ Asking /\ Query = "matched"
  /\ inquiry' = [inquiry EXCEPT !.next = @ + 1, !.section = "none", !.part = {}]
  /\ UNCHANGED <<now, recorded>>

\* The answer is complete, or a query failed and the request with it.
Respond ==
  /\ inquiry.kind # "none"
  /\ inquiry' = Quiet
  /\ UNCHANGED <<now, recorded>>

-----------------------------------------------------------------------------
AnalyticsTick == Advance(AnalyticsHorizon) /\ UNCHANGED analyticsOwn

AnalyticsInit == recorded = <<>> /\ inquiry = Quiet

AnalyticsNext ==
  \/ \E l \in Measured :
       \/ \E m \in Impressions : RecordClick(l, m)
       \/ \E from \in FromDates, to \in ToDates, app \in BOOLEAN : AskReport(l, from, to, app)
  \/ \E links \in SUBSET Measured : AskUnique(links)
  \/ AskTags \/ AskUTM
  \/ \E days \in 1 .. 2 : AskDaily(days)
  \/ ReadTotal \/ ReadPart \/ SkipMatched \/ Respond
  \/ AnalyticsTick

AnalyticsSpec == now = 0 /\ AnalyticsInit /\ [][AnalyticsNext]_analyticsVars

-----------------------------------------------------------------------------
\* Types of the rows and of the request.
AnalyticsTypeOK ==
  /\ now \in 0 .. AnalyticsHorizon
  /\ recorded \in Seq([link : Measured, at : 0 .. AnalyticsHorizon, of : Impressions])
  /\ Len(recorded) <= MaxClicks
  /\ inquiry \in
       [kind : DOMAIN Plan \cup {"none"}, next : Nat, links : SUBSET Measured, app : BOOLEAN,
        asked : Int, from : Int, to : Int, gatedAt : 0 .. AnalyticsHorizon, known : 0 .. MaxClicks,
        section : {"none"} \cup UNION Queries, part : SUBSET SUBSET Clicks, total : SUBSET Clicks,
        counted : 0 .. MaxClicks]

\* Which clicks a section of the report is about.
About(q, i) ==
  CASE q \in {"osPerDay", "oses"} -> OSOf(i) = "Android"
    [] q = "flagged" -> recorded[i].of.flagged = inquiry.app
    [] q = "opens" -> recorded[i].of.flagged
    [] q = "matched" -> recorded[i].of.matched
    [] OTHER -> TRUE

\* The sections of a link report agree with its total: each counts once every click
\* of the total that it is about (whatever its day and whether its attributes are
\* known), and no other one, but for clicks recorded since the total was read.
ReportsAddUp ==
  inquiry.kind = "report" /\ inquiry.section # "none" =>
    /\ {i \in UNION inquiry.part : i <= inquiry.counted} =
         {i \in inquiry.total : About(inquiry.section, i)}
    /\ \A b, c \in inquiry.part : b = c \/ b \cap c = {}

\* What a member is shown lies within the policy's window, the cutoff to the day: no
\* click of the month beyond the viewable ones, unless recorded after the gate; none
\* older than the retention and a day; and all of the days asked for that is younger.
ViewingIsBounded ==
  inquiry.kind \notin {"none", "daily"} =>
    LET shown == UNION inquiry.part
        month == {i \in shown : /\ i <= inquiry.known
                                /\ recorded[i].at \div MonthLength = inquiry.gatedAt \div MonthLength}
    IN  /\ Viewable > 0 => Cardinality(month) <= Viewable
        /\ Retention > 0 =>
             \A i \in shown : recorded[i].at + Retention + DayLength > inquiry.gatedAt
        /\ inquiry.section = "total" =>
             \A i \in 1 .. inquiry.counted :
               /\ recorded[i].link \in inquiry.links
               /\ DayOf(i) \in inquiry.asked .. inquiry.to
               /\ Retention = 0 \/ recorded[i].at + Retention >= inquiry.gatedAt
               => i \in inquiry.total

\* A report adds up and is what the viewer may see.
ReportsAreSound == ReportsAddUp /\ ViewingIsBounded
=============================================================================
