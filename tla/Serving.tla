------------------------------- MODULE Serving --------------------------------
(***************************************************************************)
(* A link from its creation with a schedule and target rules to the visits *)
(* it answers (ResolveService.Resolve after its lookup).  What is shown of  *)
(* the visits is in Analytics.                                             *)
(*                                                                         *)
(* An action is one statement with the handler's decision on its result.   *)
(* Every statement names the link, so one link is enough.  A rule is the   *)
(* set of visitors its conditions match; the destination, or the deep link *)
(* if the visitor's OS has one, is the answer to all others.  A visit      *)
(* outside the link's schedule, or to a disabled link, is answered 404 or  *)
(* 410 and changes nothing, so it is no action.                            *)
(***************************************************************************)
EXTENDS Clock, Sequences, FiniteSets

CONSTANTS
  Audience,        \* visitors, as rules tell them apart
  Visits,          \* request slots of visits
  MaxRules,        \* bound: rules of the link
  MaxVisits,       \* bound: visits begun
  MaxChanges,      \* bound: changes to the link after its creation
  ServingHorizon   \* the clock stops here (bound for TLC)

ASSUME ServingAssumption ==
  /\ MaxRules \in Nat /\ MaxVisits \in Nat /\ MaxChanges \in Nat
  /\ ServingHorizon \in Nat
  /\ IsFiniteSet(Visits)

VARIABLES
  link,        \* status, schedule and visits; "ABSENT" before the insert
  rules,       \* the rows of link_rules by id
  pending,     \* the rules that the creating request has still to insert
  visit,       \* visit[v]: what the visit in slot v has read and where it stands
  clicks,      \* the rows of clicks by id: target_matched
  submitted,   \* history: the rules submitted with the link
  touched,     \* history: rules have been added, changed or deleted since
  drift,       \* history: visits that left no click, less those that were not counted
  begun,       \* history: visits begun
  changes      \* history: changes to the link after its creation

servingOwn == <<link, rules, pending, visit, clicks, submitted, touched,
                drift, begun, changes>>
servingVars == <<now, servingOwn>>

linkVars == <<link, rules, pending, submitted, touched, changes>>
countVars == <<drift, begun>>

Days == 0 .. ServingHorizon

-----------------------------------------------------------------------------
(***************************************************************************)
(* The owner and the operator.                                             *)
(***************************************************************************)
\* normalizeRule: a rule has a condition, though perhaps one that nobody meets.
Batches ==
  {<<>>} \cup {<<m>> : m \in SUBSET Audience} \cup {<<m, n>> : m, n \in SUBSET Audience}

\* parseCreateSchedule: activation before expiry.  A bound that is not set is 0, or
\* the day after the horizon.
Schedules == {s \in [from : Days, until : 1 .. ServingHorizon + 1] : s.from < s.until}

\* The schedule rides on the row, the rules follow.
CreateLink(schedule, ms) ==
  /\ link.status = "ABSENT"
  /\ link' = [status |-> "ACTIVE", schedule |-> schedule, visits |-> 0]
  /\ pending' = ms
  /\ submitted' = ms
  /\ UNCHANGED <<now, rules, touched, changes, visit, clicks, countVars>>

Change == changes < MaxChanges /\ changes' = changes + 1

\* Mutant: the rules of a request are inserted from the last to the first.
InsertRuleLast ==
  /\ pending # <<>>
  /\ Len(rules) < MaxRules
  /\ rules' = Append(rules, pending[Len(pending)])
  /\ pending' = SubSeq(pending, 1, Len(pending) - 1)
  /\ UNCHANGED <<now, link, submitted, touched, changes, visit, clicks, countVars>>

InsertRule ==
  /\ pending # <<>>
  /\ Len(rules) < MaxRules
  /\ rules' = Append(rules, Head(pending))
  /\ pending' = Tail(pending)
  /\ UNCHANGED <<now, link, submitted, touched, changes, visit, clicks, countVars>>

\* A failing insert ends the request; what is there stays.
InsertRuleFails ==
  /\ pending # <<>>
  /\ pending' = <<>>
  /\ UNCHANGED <<now, link, rules, submitted, touched, changes, visit, clicks, countVars>>

RulesChange(rs) ==
  /\ rules' = rs
  /\ touched' = TRUE
  /\ Change
  /\ UNCHANGED <<now, link, pending, submitted, visit, clicks, countVars>>

\* POST /links/{id}/rules with one rule; one with more is as many of them.
AddRule(m) ==
  link.status # "ABSENT" /\ Len(rules) < MaxRules /\ RulesChange(Append(rules, m))

\* A rule keeps its place.
UpdateRule(i, m) == i \in DOMAIN rules /\ RulesChange([rules EXCEPT ![i] = m])

DeleteRule(i) ==
  i \in DOMAIN rules /\ RulesChange(SubSeq(rules, 1, i - 1) \o SubSeq(rules, i + 1, Len(rules)))

LinkChange(row) ==
  /\ link.status # "ABSENT"
  /\ row # link
  /\ link' = row
  /\ Change
  /\ UNCHANGED <<now, rules, pending, submitted, touched, visit, clicks, countVars>>

SetSchedule(s) == LinkChange([link EXCEPT !.schedule = s])

\* The operator, or the rescan job.
SetLinkStatus(s) == LinkChange([link EXCEPT !.status = s])

-----------------------------------------------------------------------------
(***************************************************************************)
(* A visit.                                                                *)
(***************************************************************************)
\* The answer is the URL of the rule in place `rule`, or if that is 0 what the link answers without rules.
NoVisit == [at |-> "idle", who |-> "nobody", rule |-> 0]

Open == link.status = "ACTIVE" /\ link.schedule.from <= now /\ now < link.schedule.until

\* The row is read and the clock is asked.
VisitRead(v, a) ==
  /\ visit[v].at = "idle"
  /\ begun < MaxVisits
  /\ Open
  /\ visit' = [visit EXCEPT ![v] = [NoVisit EXCEPT !.at = "read", !.who = a]]
  /\ begun' = begun + 1
  /\ UNCHANGED <<now, linkVars, clicks, drift>>

\* First match wins.
FirstMatch(rs, a) ==
  LET matching == {i \in DOMAIN rs : a \in rs[i]}
  IN  IF matching = {} THEN 0
      ELSE CHOOSE i \in matching : \A j \in matching : i <= j

\* A failing query counts as no rules.
VisitRules(v) ==
  /\ visit[v].at = "read"
  /\ \E rs \in {rules, <<>>} :
       visit' = [visit EXCEPT ![v].at = "routed", ![v].rule = FirstMatch(rs, visit[v].who)]
  /\ UNCHANGED <<now, linkVars, clicks, countVars>>

\* Mutant: a visit that cannot be counted ends there.
CountOrGiveUp(v) ==
  \/ /\ visit' = [visit EXCEPT ![v].at = "counted"]
     /\ link' = [link EXCEPT !.visits = @ + 1]
     /\ drift' = drift
  \/ /\ visit' = [visit EXCEPT ![v] = NoVisit]
     /\ drift' = drift - 1
     /\ link' = link

CountAndGoOn(v) ==
  /\ visit' = [visit EXCEPT ![v].at = "counted"]
  /\ \/ link' = [link EXCEPT !.visits = @ + 1] /\ drift' = drift
     \/ link' = link /\ drift' = drift - 1

\* RecordVisit, which may fail.
VisitCount(v) ==
  /\ visit[v].at = "routed"
  /\ CountAndGoOn(v)
  /\ UNCHANGED <<now, rules, pending, submitted, touched, changes, clicks, begun>>

\* The click row, which may fail; the visitor is redirected in either case.
VisitClick(v) ==
  /\ visit[v].at = "counted"
  /\ visit' = [visit EXCEPT ![v] = NoVisit]
  /\ \/ /\ clicks' = Append(clicks, visit[v].rule # 0)
        /\ drift' = drift
     \/ drift' = drift + 1 /\ clicks' = clicks
  /\ UNCHANGED <<now, linkVars, begun>>

-----------------------------------------------------------------------------
Counted == {v \in Visits : visit[v].at = "counted"}

\* The process stops in the middle of its requests.
Crash ==
  /\ pending' = <<>>
  /\ visit' = [v \in Visits |-> NoVisit]
  /\ drift' = drift + Cardinality(Counted)
  /\ UNCHANGED <<now, link, rules, submitted, touched, changes, clicks, begun>>

ServingTick == Advance(ServingHorizon) /\ UNCHANGED servingOwn

ServingInit ==
  /\ link = [status |-> "ABSENT", schedule |-> [from |-> 0, until |-> 1], visits |-> 0]
  /\ rules = <<>>
  /\ pending = <<>>
  /\ visit = [v \in Visits |-> NoVisit]
  /\ clicks = <<>>
  /\ submitted = <<>>
  /\ touched = FALSE
  /\ drift = 0
  /\ begun = 0
  /\ changes = 0

ServingNext ==
  \/ \E s \in Schedules, ms \in Batches : CreateLink(s, ms)
  \/ InsertRule \/ InsertRuleFails
  \/ \E m \in SUBSET Audience : AddRule(m) \/ \E i \in DOMAIN rules : UpdateRule(i, m)
  \/ \E i \in DOMAIN rules : DeleteRule(i)
  \/ \E s \in Schedules : SetSchedule(s)
  \/ \E s \in {"ACTIVE", "DISABLED_ABUSE"} : SetLinkStatus(s)
  \/ \E v \in Visits :
       \/ \E a \in Audience : VisitRead(v, a)
       \/ VisitRules(v) \/ VisitCount(v) \/ VisitClick(v)
  \/ Crash \/ ServingTick

ServingSpec == now = 0 /\ ServingInit /\ [][ServingNext]_servingVars

-----------------------------------------------------------------------------
\* Types of the rows and the requests.
ServingTypeOK ==
  /\ now \in Days
  /\ link \in [status : {"ABSENT", "ACTIVE", "DISABLED_ABUSE"},
               schedule : [from : Days, until : 1 .. ServingHorizon + 1],
               visits : Nat]
  /\ rules \in Seq(SUBSET Audience) /\ Len(rules) <= MaxRules
  /\ pending \in Seq(SUBSET Audience)
  /\ visit \in [Visits -> [at : {"idle", "read", "routed", "counted"},
                           who : Audience \cup {"nobody"}, rule : 0 .. MaxRules]]
  /\ clicks \in Seq(BOOLEAN)
  /\ submitted \in Seq(SUBSET Audience)
  /\ touched \in BOOLEAN
  /\ drift \in -MaxVisits .. MaxVisits /\ begun \in 0 .. MaxVisits
  /\ changes \in 0 .. MaxChanges

\* While a link's rules are still being inserted, or have been inserted in part for
\* good, a visitor finds what the finished link would answer or what it answers
\* without rules: never another rule than the first one of the request that matches.
PartialRulesFallBack ==
  ~touched =>
    \A v \in Visits : visit[v].at \in {"routed", "counted"} =>
      visit[v].rule \in {0, FirstMatch(submitted, visit[v].who)}

\* The link's counter and its click rows tell the same number of visits, but for
\* statements that failed and a crash between the two.
VisitsAccounted ==
  link.visits = Len(clicks) + Cardinality(Counted) + drift
=============================================================================
