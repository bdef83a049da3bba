------------------------------- MODULE Listings -------------------------------
(***************************************************************************)
(* Listings that are read a page at a time with LIMIT and OFFSET: the      *)
(* operator's users, orgs, abuse reports and brand prefixes (AdminService) *)
(* and the links of an org that a member may see (LinkService.List).       *)
(*                                                                         *)
(* A page is several queries, outside any transaction: the rows, their     *)
(* total, and what is known of each row.  Whoever reads the listing turns  *)
(* the page while there are more rows by the last total.  Rows are added,  *)
(* orgs renamed, prefixes decided and members come and go meanwhile.  A    *)
(* row is its id, and ids go with created_at: the listings order by it.    *)
(***************************************************************************)
EXTENDS Integers, Sequences, FiniteSets

CONSTANTS
  PageSize,   \* adminPageSize, linksPerPage
  MaxRows,    \* bound: rows ever inserted
  MaxLeaves,  \* bound: times that a row ceases to match during a walk
  MaxJoins    \* bound: members at any time

ASSUME ListingsAssumption ==
  PageSize \in Nat \ {0} /\ MaxRows \in Nat /\ MaxLeaves \in Nat /\ MaxJoins \in Nat

VARIABLES
  listing,  \* the listing that is walked
  matches,  \* matches[i]: the row with id i meets the listing's filter
  members,  \* memberships of the rows, in the order of joining
  walk      \* the page being read and what the walk has shown

listingsVars == <<listing, matches, members, walk>>

\* The rows of these meet the filter for ever or never: a link's type is fixed, a
\* user's name as well, and every report is listed.
Growing == {"links", "users", "reports"}

\* By a search in names, and by status.
Changing == {"orgs", "prefixes"}

Matching == {i \in DOMAIN matches : matches[i]}

-----------------------------------------------------------------------------
(***************************************************************************)
(* The tables.                                                             *)
(***************************************************************************)
Row(matching) ==
  /\ Len(matches) < MaxRows
  /\ matches' = Append(matches, matching)
  /\ UNCHANGED <<listing, members, walk>>

\* A link, a user, an org or a prefix is created.
AddRow == listing # "reports" /\ \E m \in BOOLEAN : Row(m)

\* ReportService.Create, for a code that a link has; the limiter is SlidingWindow.
FileReport == listing = "reports" /\ Row(TRUE)

Underway == walk.at # "idle"

\* A row is renamed, decided or deleted and does not match any more, or matches (anew,
\* which of the listings only that of orgs has).
ChangeRow(i) ==
  /\ listing \in Changing
  /\ matches' = [matches EXCEPT ![i] = ~@]
  /\ IF matches[i] /\ Underway
     THEN /\ walk.left < MaxLeaves
          /\ walk' = [walk EXCEPT !.left = @ + 1, !.stayed = @ \ {i}]
     ELSE walk' = walk
  /\ UNCHANGED <<listing, members>>

JoinOrg(i, role) ==
  /\ listing \in {"users", "orgs"}
  /\ Len(members) < MaxJoins
  /\ members' = Append(members, [of |-> i, role |-> role])
  /\ walk' = [walk EXCEPT !.met = @ \/ walk.at = "membered"]
  /\ UNCHANGED <<listing, matches>>

\* An owner is not removed.
LeaveOrg(k) ==
  /\ members[k].role = "MEMBER"
  /\ members' = SubSeq(members, 1, k - 1) \o SubSeq(members, k + 1, Len(members))
  /\ UNCHANGED <<listing, matches, walk>>

-----------------------------------------------------------------------------
(***************************************************************************)
(* A page.                                                                 *)
(***************************************************************************)
\* Mutant: pages are numbered from 0.
OffsetFromZero(page) == page * PageSize

Offset(page) == (page - 1) * PageSize

\* ahead[i]: the rows that come before row i.
OnPage(page, ahead) ==
  {i \in Matching : Cardinality(ahead[i]) \in Offset(page) .. Offset(page) + PageSize - 1}

NewestFirst(page) == OnPage(page, [i \in Matching |-> {j \in Matching : j > i}])

\* The queue of prefixes.
OldestFirst(page) == OnPage(page, [i \in Matching |-> {j \in Matching : j < i}])

NoWalk == [at |-> "idle", page |-> 0, rows |-> {}, total |-> 0, details |-> <<>>, met |-> FALSE,
           shown |-> {}, stayed |-> {}, left |-> 0]

\* The query of a page is the first one of its request.  Of a walk, the first page is
\* of rows that are all there still.
ShowPage(page, rows) ==
  /\ walk' = [walk EXCEPT !.at = "listed", !.page = page, !.rows = rows, !.details = <<>>,
                          !.met = FALSE, !.shown = @ \cup rows,
                          !.stayed = IF page = 1 THEN Matching ELSE @]
  /\ UNCHANGED <<listing, matches, members>>

UsersPage(page) == listing = "users" /\ ShowPage(page, NewestFirst(page))
OrgsPage(page) == listing = "orgs" /\ ShowPage(page, NewestFirst(page))
ReportsPage(page) == listing = "reports" /\ ShowPage(page, NewestFirst(page))
PrefixesPage(page) == listing = "prefixes" /\ ShowPage(page, OldestFirst(page))
LinksPage(page) == listing = "links" /\ ShowPage(page, NewestFirst(page))

AskPage(page) ==
  \/ UsersPage(page) \/ OrgsPage(page) \/ ReportsPage(page)
  \/ PrefixesPage(page) \/ LinksPage(page)

OpenListing == walk.at = "idle" /\ AskPage(1)

\* The joins with links and orgs, of which none is ever deleted, leave out no row.
ReadCount ==
  /\ walk.at = "listed"
  /\ walk' = [walk EXCEPT !.total = Cardinality(Matching),
                          !.at = IF listing \in {"users", "orgs"} THEN "counted" ELSE "answered"]
  /\ UNCHANGED <<listing, matches, members>>

MembershipsOf(i) == {k \in DOMAIN members : members[k].of = i}

\* A row without a group in the result has none.
GroupedCounts ==
  [i \in walk.rows |-> [count |-> Cardinality(MembershipsOf(i)), owned |-> FALSE]]

ReadUserOrgs ==
  /\ walk.at = "counted" /\ listing = "users"
  /\ walk' = [walk EXCEPT !.at = "answered", !.details = GroupedCounts]
  /\ UNCHANGED <<listing, matches, members>>

\* The members stand for all four counts.
ReadOrgCounts ==
  /\ walk.at = "counted" /\ listing = "orgs"
  /\ walk' = [walk EXCEPT !.at = "membered", !.met = FALSE, !.details = GroupedCounts]
  /\ UNCHANGED <<listing, matches, members>>

OwnersOf(i) == {k \in MembershipsOf(i) : members[k].role = "OWNER"}

\* The first to have joined, if there is one.
ReadOrgOwners ==
  /\ walk.at = "membered"
  /\ walk' = [walk EXCEPT !.at = "answered",
                !.details = [i \in walk.rows |-> [walk.details[i] EXCEPT !.owned = OwnersOf(i) # {}]]]
  /\ UNCHANGED <<listing, matches, members>>

\* Page n of Math.ceil(total / perPage).
LastPage == walk.page * PageSize >= walk.total

TurnPage == walk.at = "answered" /\ ~LastPage /\ AskPage(walk.page + 1)

\* The last page has been read, or a query failed, or the reader has seen enough.
CloseListing ==
  /\ Underway
  /\ walk' = NoWalk
  /\ UNCHANGED <<listing, matches, members>>

-----------------------------------------------------------------------------
ListingsInit ==
  /\ listing \in Growing \cup Changing
  /\ matches = <<>>
  /\ members = <<>>
  /\ walk = NoWalk

ListingsNext ==
  \/ AddRow \/ FileReport
  \/ \E i \in DOMAIN matches : ChangeRow(i) \/ \E role \in {"OWNER", "MEMBER"} : JoinOrg(i, role)
  \/ \E k \in DOMAIN members : LeaveOrg(k)
  \/ OpenListing \/ ReadCount \/ ReadUserOrgs \/ ReadOrgCounts \/ ReadOrgOwners
  \/ TurnPage \/ CloseListing

ListingsSpec == ListingsInit /\ [][ListingsNext]_listingsVars

-----------------------------------------------------------------------------
\* Types of the tables and of the walk.
ListingsTypeOK ==
  /\ listing \in Growing \cup Changing
  /\ matches \in Seq(BOOLEAN) /\ Len(matches) <= MaxRows
  /\ members \in Seq([of : DOMAIN matches, role : {"OWNER", "MEMBER"}]) /\ Len(members) <= MaxJoins
  /\ walk.at \in {"idle", "listed", "counted", "membered", "answered"}
  /\ walk.page \in Nat /\ walk.total \in 0 .. MaxRows
  /\ walk.rows \subseteq walk.shown /\ walk.shown \subseteq DOMAIN matches
  /\ walk.stayed \subseteq DOMAIN matches
  /\ Cardinality(walk.rows) <= PageSize
  /\ walk.left \in 0 .. MaxLeaves /\ walk.met \in BOOLEAN
  /\ walk.details # <<>> => walk.details \in [walk.rows -> [count : 0 .. MaxJoins, owned : BOOLEAN]]

\* A walk to the last page shows all rows that were there from its beginning to its
\* end, but for one for each row that ceased to match meanwhile: none is missed
\* because others are added, in listings that only grow none at all.  And what a page
\* tells of an org agrees, unless somebody joined between its queries: it has an
\* owner only if it has members.
PagesTellTheTable ==
  walk.at = "answered" =>
    /\ LastPage => Cardinality(walk.stayed \ walk.shown) <= walk.left
    /\ listing = "orgs" /\ ~walk.met =>
         \A i \in walk.rows : walk.details[i].owned => walk.details[i].count > 0
=============================================================================
