-------------------------------- MODULE Links ---------------------------------
(***************************************************************************)
(* LinkService on the links of one org: shortening with deduplication, and *)
(* destination edits with their audit rows.  An action is one statement    *)
(* together with the handler's decision on its result; a request keeps     *)
(* what it has read in its own record.  Every statement but those on codes *)
(* is scoped by org, so one org is enough.  Codes and aliases as values    *)
(* are in module Namespace, the scanner's verdicts and the status in       *)
(* module Rescan: here a destination may be refused at any time.  The      *)
(* table link_rules is left out.                                           *)
(***************************************************************************)
EXTENDS Naturals, Sequences, FiniteSets

CONSTANTS
  Pages,     \* destination URLs up to letter case and UTM values
  Spellings, \* ways to write a page that differ in letter case (of its path) only
  Taggings,  \* whether UTM values are appended: a set of Booleans
  Users,     \* members of the org
  Owners,    \* those who own it (an owner stays one, module Membership)
  MaxLinks,  \* the number of links ever created
  MaxEdits,  \* bound: edits begun
  Requests,  \* request slots: how many handlers run at once
  None       \* NULL, or a field not in use; as user_id and as viewer an API key

ASSUME LinksAssumption ==
  /\ Taggings \subseteq BOOLEAN
  /\ Owners \subseteq Users
  /\ MaxLinks \in Nat
  /\ MaxEdits \in Nat
  /\ None \notin Users

VARIABLES
  row,      \* row[l]: user_id, type and destination_url of link l
  edits,    \* edits[l]: the link_edits rows of link l, by id
  req,      \* req[r]: what the handler in slot r has read and where it stands
  created,  \* history: the destination that link l was created with, and whether by alias
  raced,    \* history: destinations that two requests were creating at once
  edited,   \* history: links whose destination was ever changed
  tangled,  \* history: links of which two edits overlapped, or an edit broke off before its audit row
  begun     \* history: how many edits have begun

tableVars == <<row, edits>>
pastVars == <<created, raced, edited, tangled, begun>>
vars == <<tableVars, req, pastVars>>

Links == 1 .. MaxLinks

Destinations == [page : Pages, spelling : Spellings, tagged : Taggings]

Row == [user : Users \cup {None}, type : {"PUBLIC", "PRIVATE"}, dest : Destinations]

ASSUME RowAssumption == None \notin Row  \* a row is not NULL

Stored == {l \in Links : row[l] # None}

-----------------------------------------------------------------------------
(***************************************************************************)
(* Requests.                                                               *)
(***************************************************************************)
Creating == {"scanned", "ready"}           \* shorten
Editing == {"read", "allowed", "written"}  \* UpdateDestination

Handler ==
  [at : {"idle"} \cup Creating \cup Editing, user : Users \cup {None},
   type : {"PUBLIC", "PRIVATE", None}, dest : Destinations \cup {None}, alias : BOOLEAN,
   link : Links \cup {None}, old : Destinations \cup {None}]

Idle == [at |-> "idle", user |-> None, type |-> None, dest |-> None, alias |-> FALSE,
         link |-> None, old |-> None]

Proceed(r, at) == req' = [req EXCEPT ![r].at = at]

Finish(r) == req' = [req EXCEPT ![r] = Idle]

\* A request has found no link to its destination, or does not look for one, and
\* has not inserted its own.
ReadyFor(r, d) == req[r].at = "ready" /\ req[r].dest = d

NoteRace ==
  raced' = raced \cup
    {d \in Destinations : \E r, s \in Requests : r # s /\ ReadyFor(r, d)' /\ ReadyFor(s, d)'}

NoteOverlap ==
  tangled' = tangled \cup
    {l \in Links : \E r, s \in Requests :
       /\ r # s
       /\ \A q \in {r, s} : req'[q].at \in Editing /\ req'[q].link = l}

\* visibleFilter, visibleTo
VisibleTo(l, u) == row[l].type = "PUBLIC" \/ (u # None /\ row[l].user = u)

-----------------------------------------------------------------------------
(***************************************************************************)
(* Shortening.                                                             *)
(***************************************************************************)
\* Mutant: an API key may create PRIVATE links.
ShortenBeginAnyType(r, u, type, d, alias) ==
  /\ req[r].at = "idle"
  /\ req' = [req EXCEPT ![r] =
       [Idle EXCEPT !.at = IF alias THEN "ready" ELSE "scanned", !.user = u, !.type = type,
                    !.dest = d, !.alias = alias]]
  /\ NoteRace
  /\ UNCHANGED <<tableVars, created, edited, tangled, begun>>

\* Checks on the input, the policy and the scanner, which may all refuse.  An alias
\* that is free makes the handler skip the search.
ShortenBegin(r, u, type, d, alias) ==
  /\ req[r].at = "idle"
  /\ type = "PRIVATE" => u # None
  /\ req' = [req EXCEPT ![r] =
       [Idle EXCEPT !.at = IF alias THEN "ready" ELSE "scanned", !.user = u, !.type = type,
                    !.dest = d, !.alias = alias]]
  /\ NoteRace
  /\ UNCHANGED <<tableVars, created, edited, tangled, begun>>

\* Mutant: the search is for the URL without the UTM values appended to it.
SameTextUntagged(d, e) == d.page = e.page /\ ~e.tagged

\* destination_url = ? under the column's collation, which ignores letter case.
SameText(d, e) == d.page = e.page /\ d.tagged = e.tagged

Duplicates(r) ==
  {l \in Stored : VisibleTo(l, req[r].user) /\ SameText(req[r].dest, row[l].dest)}

\* ORDER BY id LIMIT 1; the existing link is the answer.
AnswerExisting(r, l) ==
  /\ req[r].at = "scanned"
  /\ l \in Duplicates(r)
  /\ \A k \in Duplicates(r) : l <= k
  /\ Finish(r)
  /\ UNCHANGED <<tableVars, pastVars>>

\* uniqueCode follows, and may fail (Abort).
FindNone(r) ==
  /\ req[r].at = "scanned"
  /\ Duplicates(r) = {}
  /\ Proceed(r, "ready")
  /\ NoteRace
  /\ UNCHANGED <<tableVars, created, edited, tangled, begun>>

\* The rules submitted with the link follow, one statement each.
InsertLink(r) ==
  LET l == Cardinality(Stored) + 1 IN
  /\ req[r].at = "ready"
  /\ l \in Links
  /\ row' = [row EXCEPT ![l] =
       [user |-> req[r].user, type |-> req[r].type, dest |-> req[r].dest]]
  /\ created' = [created EXCEPT ![l] = [dest |-> req[r].dest, alias |-> req[r].alias]]
  /\ Finish(r)
  /\ UNCHANGED <<edits, raced, edited, tangled, begun>>

-----------------------------------------------------------------------------
(***************************************************************************)
(* UpdateDestination.                                                      *)
(***************************************************************************)
\* The link's creator or an owner, if the link is visible to them.
MayEdit(l, u) == VisibleTo(l, u) /\ (row[l].user = u \/ u \in Owners)

EditBegin(r, u, l, d) ==
  /\ req[r].at = "idle"
  /\ l \in Stored
  /\ begun < MaxEdits
  /\ begun' = begun + 1
  /\ MayEdit(l, u)
  /\ req' = [req EXCEPT ![r] =
       [Idle EXCEPT !.at = "read", !.link = l, !.dest = d, !.old = row[l].dest]]
  /\ NoteOverlap
  /\ UNCHANGED <<tableVars, created, raced, edited>>

\* The scanner allows the destination (or Abort); the one that was read is left as it is.
EditScan(r) ==
  /\ req[r].at = "read"
  /\ \/ req[r].dest # req[r].old /\ Proceed(r, "allowed")
     \/ req[r].dest = req[r].old /\ Finish(r)
  /\ UNCHANGED <<tableVars, pastVars>>

EditWrite(r) ==
  /\ req[r].at = "allowed"
  /\ row' = [row EXCEPT ![req[r].link].dest = req[r].dest]
  /\ edited' = edited \cup {req[r].link}
  /\ Proceed(r, "written")
  /\ UNCHANGED <<edits, created, raced, tangled, begun>>

\* Mutant: the audit row has the URL as submitted.
AuditRowUntagged(q) == [old |-> q.old, new |-> [q.dest EXCEPT !.tagged = FALSE]]

AuditRow(q) == [old |-> q.old, new |-> q.dest]

EditAudit(r) ==
  /\ req[r].at = "written"
  /\ edits' = [edits EXCEPT ![req[r].link] = Append(@, AuditRow(req[r]))]
  /\ Finish(r)
  /\ UNCHANGED <<row, pastVars>>

\* A handler ends early: a refusal, a statement that fails, the end of the process.
Abort(r) ==
  /\ req[r].at # "idle"
  /\ Finish(r)
  /\ tangled' = IF req[r].at = "written" THEN tangled \cup {req[r].link} ELSE tangled
  /\ UNCHANGED <<tableVars, created, raced, edited, begun>>

-----------------------------------------------------------------------------
Init ==
  /\ row = [l \in Links |-> None]
  /\ edits = [l \in Links |-> <<>>]
  /\ req = [r \in Requests |-> Idle]
  /\ created = [l \in Links |-> None]
  /\ raced = {}
  /\ edited = {}
  /\ tangled = {}
  /\ begun = 0

Shorten(r) ==
  \/ \E u \in Users \cup {None}, type \in {"PUBLIC", "PRIVATE"}, d \in Destinations,
        alias \in BOOLEAN : ShortenBegin(r, u, type, d, alias)
  \/ \E l \in Links : AnswerExisting(r, l)
  \/ FindNone(r) \/ InsertLink(r)

UpdateDestination(r) ==
  \/ \E u \in Users, l \in Links, d \in Destinations : EditBegin(r, u, l, d)
  \/ EditScan(r) \/ EditWrite(r) \/ EditAudit(r)

Next == \E r \in Requests : Shorten(r) \/ UpdateDestination(r) \/ Abort(r)

Spec == Init /\ [][Next]_vars

-----------------------------------------------------------------------------
(***************************************************************************)
(* Properties                                                              *)
(***************************************************************************)

\* Every variable stays in its domain; a PRIVATE link has a creator.
TypeOK ==
  /\ row \in [Links -> Row \cup {None}]
  /\ \A l \in Stored : row[l].type = "PRIVATE" => row[l].user # None
  /\ edits \in [Links -> Seq([old : Destinations, new : Destinations])]
  /\ req \in [Requests -> Handler]
  /\ created \in [Links -> [dest : Destinations, alias : BOOLEAN] \cup {None}]
  /\ raced \subseteq Destinations
  /\ edited \cup tangled \subseteq Stored
  /\ begun \in 0 .. MaxEdits

\* A member sees two links of one destination only if an edit or an alias made them
\* so, or two requests were creating that destination at once: shortening is
\* deduplicated per org, PRIVATE links of others aside.
DuplicatesAreRaces ==
  \A k, l \in Stored \ edited :
    /\ k < l
    /\ ~created[l].alias
    /\ created[k].dest = created[l].dest
    /\ VisibleTo(k, row[l].user)
    => created[l].dest \in raced

\* The audit rows of a link tell the whole story from the destination it was created
\* with to the one it has, unless edits overlapped or one broke off half-way.
EditsTellTheStory ==
  \A l \in Stored \ tangled :
    LET trail == <<created[l].dest>> \o [i \in 1 .. Len(edits[l]) |-> edits[l][i].new]
    IN /\ \A i \in 1 .. Len(edits[l]) : edits[l][i].old = trail[i]
       /\ (~\E r \in Requests : req[r].at = "written" /\ req[r].link = l)
            => trail[Len(trail)] = row[l].dest

\* What stores/link.go says of the search: it returns a link with this exact
\* destination.
AnswersAreExact ==
  [][\A r \in Requests, l \in Links : AnswerExisting(r, l) => row[l].dest = req[r].dest]_vars

=============================================================================
