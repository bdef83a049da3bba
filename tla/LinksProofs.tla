------------------------------ MODULE LinksProofs ------------------------------
(***************************************************************************)
(* Proofs about Links, for any destinations, members, number of links and  *)
(* requests at once: types, deduplication, and the audit rows of edits.    *)
(***************************************************************************)
EXTENDS Links, FiniteSetTheorems, WellFoundedInduction, TLAPS

-----------------------------------------------------------------------------
(***************************************************************************)
(* Types.                                                                  *)
(***************************************************************************)
\* What a request has read and where it stands.
RequestOK(r) ==
  /\ req[r].at \in Creating =>
       /\ req[r].type \in {"PUBLIC", "PRIVATE"} /\ req[r].dest \in Destinations
       /\ req[r].type = "PRIVATE" => req[r].user # None
  /\ req[r].at = "scanned" => ~req[r].alias
  /\ req[r].at \in Editing =>
       req[r].link \in Stored /\ req[r].dest \in Destinations /\ req[r].old \in Destinations

\* Links are numbered in the order of their creation.
LinkOK(l) ==
  /\ l \in Stored => created[l] \in [dest : Destinations, alias : BOOLEAN]
  /\ l \notin Stored => edits[l] = <<>>

StateInv ==
  /\ TypeOK
  /\ \A k, l \in Links : k < l /\ l \in Stored => k \in Stored
  /\ \A l \in Links : LinkOK(l)
  /\ \A r \in Requests : RequestOK(r)

\* A set of numbers has a least one.
LEMMA LeastNumber ==
  ASSUME NEW S, S \subseteq Nat, S # {}
  PROVE  \E i \in S : \A j \in S : i <= j
<1> DEFINE upTo(n) == 1 .. n
           T == {upTo(n) : n \in S}
<1>1. T \subseteq FiniteSubsetsOf(Nat) /\ T # {}
  <2>1. ASSUME NEW n \in S
        PROVE  upTo(n) \in FiniteSubsetsOf(Nat)
    <3>1. IsFiniteSet(1 .. n)
      BY FS_Interval
    <3> QED BY <3>1 DEF FiniteSubsetsOf
  <2> QED BY <2>1
<1>2. PICK X \in T : \A Y \in T : ~(<<Y, X>> \in StrictSubsetOrdering(Nat))
  <2> HIDE DEF T
  <2> QED BY <1>1, FS_StrictSubsetOrderingWellFounded, WFMin
<1>3. PICK x \in S : X = upTo(x)
  OBVIOUS
<1>4. ASSUME NEW y \in S, y < x
      PROVE  FALSE
  <2>1. upTo(y) \in T /\ upTo(y) \in SUBSET Nat /\ upTo(x) \in SUBSET Nat
    BY <1>3
  <2>2. upTo(y) \subseteq upTo(x) /\ upTo(y) # upTo(x)
    BY <1>4
  <2> QED BY <1>2, <1>3, <2>1, <2>2 DEF StrictSubsetOrdering
<1> QED BY <1>4

\* The next link is the first one that is not stored yet.
LEMMA NextLink ==
  ASSUME StateInv, NEW l, l = Cardinality(Stored) + 1, l \in Links
  PROVE  l \notin Stored /\ \A k \in Links : k \in Stored <=> k < l
<1>1. MaxLinks \in Nat /\ Stored \subseteq 1 .. MaxLinks /\ Links = 1 .. MaxLinks
  BY LinksAssumption DEF Stored, Links
<1>2. \A k, m \in Links : k < m /\ m \in Stored => k \in Stored
  BY DEF StateInv
<1>3. PICK free : free = Links \ Stored
  OBVIOUS
<1>4. CASE free = {}
  <2>1. Stored = 1 .. MaxLinks
    BY <1>1, <1>3, <1>4
  <2>2. Cardinality(Stored) = MaxLinks
    BY <1>1, <2>1, FS_Interval
  <2> QED BY <1>1, <2>2
<1>5. CASE free # {}
  <2>1. free \subseteq Nat
    BY <1>1, <1>3
  <2>2. PICK m \in free : \A j \in free : m <= j
    BY <1>5, <2>1, LeastNumber
  <2>3. m \in 1 .. MaxLinks /\ m \notin Stored
    BY <1>1, <1>3, <2>2
  <2>4. ASSUME NEW k \in 1 .. MaxLinks
        PROVE  k \in Stored <=> k < m
    <3>1. CASE k < m
      BY <1>1, <1>3, <2>2, <2>3, <2>4, <3>1
    <3>2. CASE k = m
      BY <2>3, <3>2
    <3>3. CASE m < k
      BY <1>1, <1>2, <2>3, <2>4, <3>3
    <3> QED BY <2>3, <2>4, <3>1, <3>2, <3>3
  <2>5. Stored = 1 .. m - 1
    <3>1. \A k \in 1 .. m - 1 : k \in Stored
      BY <1>1, <2>3, <2>4
    <3>2. \A k \in Stored : k \in 1 .. m - 1
      BY <1>1, <2>3, <2>4
    <3> QED BY <3>1, <3>2
  <2>6. Cardinality(Stored) = m - 1
    <3>1. 1 \in Int /\ m - 1 \in Int /\ 1 <= m - 1 + 1
      BY <2>3
    <3>2. Cardinality(1 .. m - 1) = IF 1 > m - 1 THEN 0 ELSE (m - 1) - 1 + 1
      BY <3>1, FS_Interval
    <3> QED BY <2>3, <2>5, <3>2
  <2>7. l = m
    BY <2>3, <2>6
  <2> QED BY <1>1, <2>3, <2>4, <2>7
<1> QED BY <1>4, <1>5

\* What the invariant says of the values that the steps read.
LEMMA LinkTypes ==
  ASSUME StateInv
  PROVE  /\ row \in [Links -> Row \cup {None}]
         /\ edits \in [Links -> Seq([old : Destinations, new : Destinations])]
         /\ req \in [Requests -> Handler]
         /\ created \in [Links -> [dest : Destinations, alias : BOOLEAN] \cup {None}]
         /\ None \notin Row /\ None \notin Users /\ Owners \subseteq Users
         /\ Idle \in Handler /\ Stored \subseteq Links
BY LinksAssumption, RowAssumption
DEF StateInv, TypeOK, Idle, Handler, Creating, Editing, Stored

\* The invariant holds at first.
LEMMA StateStart ==
  Init => StateInv
<1> SUFFICES ASSUME Init
             PROVE  StateInv
  OBVIOUS
<1>1. Stored = {}
  BY DEF Init, Stored
<1>2. Idle \in Handler
  BY LinksAssumption DEF Idle, Handler, Creating, Editing
<1>3. TypeOK
  BY <1>1, <1>2, LinksAssumption DEF Init, TypeOK
<1>4. \A l \in Links : LinkOK(l)
  BY <1>1 DEF Init, LinkOK
<1>5. \A r \in Requests : RequestOK(r)
  BY DEF Init, RequestOK, Idle, Creating, Editing
<1> QED BY <1>1, <1>3, <1>4, <1>5 DEF StateInv

\* A request that ends leaves an empty slot.
LEMMA FinishKeeps ==
  ASSUME StateInv, NEW r \in Requests, Finish(r)
  PROVE  /\ req' \in [Requests -> Handler]
         /\ req'[r] = Idle
         /\ \A q \in Requests \ {r} : req'[q] = req[q]
BY LinkTypes DEF Finish

\* A request that goes on keeps what it has read.
LEMMA ProceedKeeps ==
  ASSUME StateInv, NEW r \in Requests, NEW at \in Creating \cup Editing, Proceed(r, at)
  PROVE  /\ req' \in [Requests -> Handler]
         /\ req'[r] \in Handler
         /\ req'[r].at = at
         /\ req'[r].user = req[r].user /\ req'[r].type = req[r].type
         /\ req'[r].dest = req[r].dest /\ req'[r].alias = req[r].alias
         /\ req'[r].link = req[r].link /\ req'[r].old = req[r].old
         /\ \A q \in Requests \ {r} : req'[q] = req[q]
<1>1. req[r] \in Handler /\ req'[r] = [req[r] EXCEPT !.at = at]
  BY LinkTypes DEF Proceed
<1>2. req'[r] \in Handler
  BY <1>1 DEF Handler
<1> QED BY <1>1, <1>2, LinkTypes DEF Proceed, Handler

\* A step of one request that leaves the tables alone.
LEMMA RequestStep ==
  ASSUME StateInv, NEW r \in Requests, UNCHANGED <<row, edits, created>>,
         req' \in [Requests -> Handler], \A q \in Requests \ {r} : req'[q] = req[q],
         RequestOK(r)',
         raced' \subseteq Destinations, edited' \cup tangled' \subseteq Stored,
         begun' \in 0 .. MaxEdits
  PROVE  StateInv'
<1>1. Stored' = Stored
  BY DEF Stored
<1>2. TypeOK'
  BY <1>1 DEF StateInv, TypeOK
<1>3. \A l \in Links : LinkOK(l)'
  BY <1>1 DEF StateInv, LinkOK
<1>4. \A q \in Requests : RequestOK(q)'
  BY <1>1 DEF StateInv, RequestOK
<1> QED BY <1>1, <1>2, <1>3, <1>4 DEF StateInv

\* A request that has ended is in order.
LEMMA IdleOK ==
  ASSUME NEW r \in Requests, req'[r] = Idle
  PROVE  RequestOK(r)'
BY DEF RequestOK, Idle, Creating, Editing

\* Shortening begins, ends or goes on.
LEMMA ShortenKeepsState ==
  ASSUME StateInv, NEW r \in Requests,
         \/ \E u \in Users \cup {None}, type \in {"PUBLIC", "PRIVATE"}, d \in Destinations,
               alias \in BOOLEAN : ShortenBegin(r, u, type, d, alias)
         \/ \E l \in Links : AnswerExisting(r, l)
         \/ FindNone(r)
  PROVE  StateInv'
<1>0. /\ raced \subseteq Destinations /\ edited \cup tangled \subseteq Stored
      /\ begun \in 0 .. MaxEdits
  BY DEF StateInv, TypeOK
<1>1. ASSUME NEW u \in Users \cup {None}, NEW type \in {"PUBLIC", "PRIVATE"},
             NEW d \in Destinations, NEW alias \in BOOLEAN, ShortenBegin(r, u, type, d, alias)
      PROVE  StateInv'
  <2>1. PICK new : new = [Idle EXCEPT !.at = IF alias THEN "ready" ELSE "scanned", !.user = u,
                                      !.type = type, !.dest = d, !.alias = alias]
    OBVIOUS
  <2>2. /\ new \in Handler /\ new.at = (IF alias THEN "ready" ELSE "scanned")
        /\ new.user = u /\ new.type = type /\ new.dest = d /\ new.alias = alias
    BY <2>1 DEF Idle, Handler, Creating
  <2>3. req' = [req EXCEPT ![r] = new] /\ (type = "PRIVATE" => u # None)
    BY <1>1, <2>1 DEF ShortenBegin
  <2>4. /\ req' \in [Requests -> Handler] /\ req'[r] = new
        /\ \A q \in Requests \ {r} : req'[q] = req[q]
    BY <2>2, <2>3, LinkTypes
  <2>5. RequestOK(r)'
    BY <2>2, <2>3, <2>4 DEF RequestOK, Creating, Editing
  <2>6. raced' \subseteq Destinations
    BY <1>0, <1>1 DEF ShortenBegin, NoteRace
  <2> QED BY <1>0, <1>1, <2>4, <2>5, <2>6, RequestStep DEF ShortenBegin, tableVars
<1>2. ASSUME NEW l \in Links, AnswerExisting(r, l)
      PROVE  StateInv'
  BY <1>0, <1>2, FinishKeeps, IdleOK, RequestStep DEF AnswerExisting, tableVars, pastVars
<1>3. CASE FindNone(r)
  <2>1. /\ req[r].at = "scanned" /\ Proceed(r, "ready")
        /\ UNCHANGED <<row, edits, created, edited, tangled, begun>>
    BY <1>3 DEF FindNone, tableVars
  <2>2. raced' \subseteq Destinations
    BY <1>0, <1>3 DEF FindNone, NoteRace
  <2>3. /\ req' \in [Requests -> Handler] /\ req'[r].at = "ready"
        /\ req'[r].user = req[r].user /\ req'[r].type = req[r].type /\ req'[r].dest = req[r].dest
        /\ \A q \in Requests \ {r} : req'[q] = req[q]
    <3>1. "ready" \in Creating \cup Editing
      BY DEF Creating
    <3> QED BY <2>1, <3>1, ProceedKeeps
  <2>4. RequestOK(r)'
    BY <2>1, <2>3 DEF StateInv, RequestOK, Creating, Editing
  <2> QED BY <1>0, <2>1, <2>2, <2>3, <2>4, RequestStep
<1> QED BY <1>1, <1>2, <1>3

\* A link is inserted.
LEMMA InsertKeepsState ==
  ASSUME StateInv, NEW r \in Requests, InsertLink(r)
  PROVE  StateInv'
<1>1. PICK l : l = Cardinality(Stored) + 1
  OBVIOUS
<1>2. PICK new, origin : /\ new = [user |-> req[r].user, type |-> req[r].type, dest |-> req[r].dest]
                         /\ origin = [dest |-> req[r].dest, alias |-> req[r].alias]
  OBVIOUS
<1>3. /\ req[r].at = "ready" /\ l \in Links
      /\ row' = [row EXCEPT ![l] = new]
      /\ created' = [created EXCEPT ![l] = origin]
      /\ Finish(r)
      /\ UNCHANGED <<edits, raced, edited, tangled, begun>>
  BY <1>1, <1>2 DEF InsertLink
<1>4. /\ req[r].type \in {"PUBLIC", "PRIVATE"} /\ req[r].dest \in Destinations
      /\ req[r].type = "PRIVATE" => req[r].user # None
  BY <1>3 DEF StateInv, RequestOK, Creating
<1>5. req[r].user \in Users \cup {None} /\ req[r].alias \in BOOLEAN
  BY LinkTypes DEF Handler
<1>6. /\ new \in Row /\ new # None /\ new.type = req[r].type /\ new.user = req[r].user
      /\ origin \in [dest : Destinations, alias : BOOLEAN]
  BY <1>2, <1>4, <1>5, LinkTypes DEF Row
<1>7. l \notin Stored /\ \A k \in Links : k \in Stored <=> k < l
  BY <1>1, <1>3, NextLink
<1>8. /\ row'[l] = new /\ created'[l] = origin
      /\ \A k \in Links \ {l} : row'[k] = row[k] /\ created'[k] = created[k]
      /\ row' \in [Links -> Row \cup {None}]
      /\ created' \in [Links -> [dest : Destinations, alias : BOOLEAN] \cup {None}]
  BY <1>3, <1>6, LinkTypes
<1>9. Stored' = Stored \cup {l}
  BY <1>3, <1>6, <1>8 DEF Stored
<1>10. /\ req' \in [Requests -> Handler] /\ req'[r] = Idle
       /\ \A q \in Requests \ {r} : req'[q] = req[q]
  BY <1>3, FinishKeeps
<1>11. TypeOK'
  <2>1. ASSUME NEW k \in Stored', row'[k].type = "PRIVATE"
        PROVE  row'[k].user # None
    <3>1. CASE k = l
      BY <1>4, <1>6, <1>8, <2>1, <3>1
    <3>2. CASE k # l
      BY <1>8, <1>9, <2>1, <3>2, LinkTypes DEF StateInv, TypeOK
    <3> QED BY <3>1, <3>2
  <2>2. /\ edits' \in [Links -> Seq([old : Destinations, new : Destinations])]
        /\ raced' \subseteq Destinations /\ edited' \cup tangled' \subseteq Stored'
        /\ begun' \in 0 .. MaxEdits
    BY <1>3, <1>9 DEF StateInv, TypeOK
  <2> QED BY <1>8, <1>10, <2>1, <2>2 DEF TypeOK
<1>12. \A k \in Links : LinkOK(k)'
  <2>1. ASSUME NEW k \in Links
        PROVE  LinkOK(k)'
    <3>1. CASE k = l
      <4>1. l \in Stored'
        BY <1>9
      <4> QED BY <1>6, <1>8, <3>1, <4>1 DEF LinkOK
    <3>2. CASE k # l
      BY <1>3, <1>8, <1>9, <3>2 DEF StateInv, LinkOK
    <3> QED BY <3>1, <3>2
  <2> QED BY <2>1
<1>13. \A q \in Requests : RequestOK(q)'
  <2>1. RequestOK(r)'
    BY <1>10, IdleOK
  <2>2. ASSUME NEW q \in Requests \ {r}
        PROVE  RequestOK(q)'
    BY <1>9, <1>10 DEF StateInv, RequestOK
  <2> QED BY <2>1, <2>2
<1>14. \A k, m \in Links : k < m /\ m \in Stored' => k \in Stored'
  BY <1>7, <1>9 DEF StateInv
<1> QED BY <1>11, <1>12, <1>13, <1>14 DEF StateInv

\* An edit begins, is scanned, is written, is recorded.
LEMMA EditKeepsState ==
  ASSUME StateInv, NEW r \in Requests, UpdateDestination(r)
  PROVE  StateInv'
<1>0. /\ raced \subseteq Destinations /\ edited \cup tangled \subseteq Stored
      /\ begun \in 0 .. MaxEdits /\ MaxEdits \in Nat /\ RequestOK(r)
  BY LinksAssumption DEF StateInv, TypeOK
<1>1. ASSUME NEW u \in Users, NEW l \in Links, NEW d \in Destinations, EditBegin(r, u, l, d)
      PROVE  StateInv'
  <2>1. PICK new : new = [Idle EXCEPT !.at = "read", !.link = l, !.dest = d, !.old = row[l].dest]
    OBVIOUS
  <2>2. /\ l \in Stored /\ begun < MaxEdits /\ begun' = begun + 1
        /\ req' = [req EXCEPT ![r] = new]
        /\ UNCHANGED <<row, edits, created, raced, edited>>
    BY <1>1, <2>1 DEF EditBegin, tableVars
  <2>3. row[l].dest \in Destinations
    BY <2>2, LinkTypes DEF Stored, Row
  <2>4. /\ new \in Handler /\ new.at = "read" /\ new.link = l /\ new.dest = d
        /\ new.old = row[l].dest
    BY <2>1, <2>3 DEF Idle, Handler, Editing
  <2>5. /\ req' \in [Requests -> Handler] /\ req'[r] = new
        /\ \A q \in Requests \ {r} : req'[q] = req[q]
    BY <2>2, <2>4, LinkTypes
  <2>6. Stored' = Stored
    BY <2>2 DEF Stored
  <2>7. RequestOK(r)'
    BY <2>2, <2>3, <2>4, <2>5, <2>6 DEF RequestOK, Creating, Editing
  <2>8. \A q \in Requests : RequestOK(q)'
    BY <2>5, <2>6, <2>7 DEF StateInv, RequestOK
  <2>9. tangled' \subseteq Stored
    <3> SUFFICES ASSUME NEW k \in Links, NEW q \in Requests,
                        req'[q].at \in Editing, req'[q].link = k
                 PROVE  k \in Stored
      BY <1>0, <1>1 DEF EditBegin, NoteOverlap
    <3> QED BY <2>6, <2>8 DEF RequestOK
  <2>10. begun' \in 0 .. MaxEdits
    BY <1>0, <2>2
  <2> QED BY <1>0, <2>2, <2>5, <2>7, <2>9, <2>10, RequestStep
<1>2. CASE EditScan(r)
  <2>1. UNCHANGED <<row, edits, created, raced, edited, tangled, begun>>
    BY <1>2 DEF EditScan, tableVars, pastVars
  <2>2. CASE Proceed(r, "allowed")
    <3>1. /\ req' \in [Requests -> Handler] /\ req'[r].at = "allowed"
          /\ req'[r].link = req[r].link /\ req'[r].dest = req[r].dest /\ req'[r].old = req[r].old
          /\ \A q \in Requests \ {r} : req'[q] = req[q]
      <4>1. "allowed" \in Creating \cup Editing
        BY DEF Editing
      <4> QED BY <2>2, <4>1, ProceedKeeps
    <3>2. RequestOK(r)'
      BY <1>0, <1>2, <2>1, <3>1 DEF EditScan, RequestOK, Creating, Editing, Stored
    <3> QED BY <1>0, <2>1, <3>1, <3>2, RequestStep
  <2>3. CASE Finish(r)
    BY <1>0, <2>1, <2>3, FinishKeeps, IdleOK, RequestStep
  <2> QED BY <1>2, <2>2, <2>3 DEF EditScan
<1>3. CASE EditWrite(r)
  <2>1. PICK l, d : l = req[r].link /\ d = req[r].dest
    OBVIOUS
  <2>2. /\ req[r].at = "allowed" /\ l \in Stored /\ d \in Destinations
        /\ row' = [row EXCEPT ![l].dest = d] /\ edited' = edited \cup {l}
        /\ Proceed(r, "written") /\ UNCHANGED <<edits, created, raced, tangled, begun>>
    BY <1>0, <1>3, <2>1 DEF EditWrite, RequestOK, Editing
  <2>3. row[l] \in Row /\ l \in Links
    BY <2>2, LinkTypes DEF Stored
  <2>4. /\ row'[l] \in Row /\ row'[l].type = row[l].type /\ row'[l].user = row[l].user
        /\ row'[l].dest = d
        /\ \A k \in Links \ {l} : row'[k] = row[k]
        /\ row' \in [Links -> Row \cup {None}]
    <3>1. PICK new : new = [row[l] EXCEPT !.dest = d]
      OBVIOUS
    <3>2. new \in Row /\ new.type = row[l].type /\ new.user = row[l].user /\ new.dest = d
      BY <2>2, <2>3, <3>1 DEF Row
    <3>3. row' = [row EXCEPT ![l] = new]
      BY <2>2, <3>1
    <3> QED BY <2>3, <3>2, <3>3, LinkTypes
  <2>5. Stored' = Stored
    BY <2>2, <2>4, LinkTypes DEF Stored
  <2>6. /\ req' \in [Requests -> Handler] /\ req'[r].at = "written"
        /\ req'[r].link = l /\ req'[r].dest = d /\ req'[r].old = req[r].old
        /\ \A q \in Requests \ {r} : req'[q] = req[q]
    <3>1. "written" \in Creating \cup Editing
      BY DEF Editing
    <3> QED BY <2>1, <2>2, <3>1, ProceedKeeps
  <2>7. TypeOK'
    <3>1. \A k \in Stored' : row'[k].type = "PRIVATE" => row'[k].user # None
      BY <2>2, <2>4, <2>5, LinkTypes DEF StateInv, TypeOK
    <3> QED BY <1>0, <2>2, <2>4, <2>5, <2>6, <3>1, LinkTypes DEF TypeOK
  <2>8. \A k \in Links : LinkOK(k)'
    BY <2>2, <2>5 DEF StateInv, LinkOK
  <2>9. \A q \in Requests : RequestOK(q)'
    <3>1. RequestOK(r)'
      BY <1>0, <2>2, <2>5, <2>6 DEF RequestOK, Creating, Editing
    <3> QED BY <2>5, <2>6, <3>1 DEF StateInv, RequestOK
  <2> QED BY <2>5, <2>7, <2>8, <2>9 DEF StateInv
<1>4. CASE EditAudit(r)
  <2>1. PICK l, entry : l = req[r].link /\ entry = AuditRow(req[r])
    OBVIOUS
  <2>2. /\ req[r].at = "written" /\ l \in Stored /\ l \in Links
        /\ entry \in [old : Destinations, new : Destinations]
        /\ edits' = [edits EXCEPT ![l] = Append(@, entry)]
        /\ Finish(r) /\ UNCHANGED <<row, created, raced, edited, tangled, begun>>
    BY <1>0, <1>4, <2>1, LinkTypes DEF EditAudit, RequestOK, Editing, AuditRow, pastVars
  <2>3. /\ edits' \in [Links -> Seq([old : Destinations, new : Destinations])]
        /\ \A k \in Links \ {l} : edits'[k] = edits[k]
    <3>1. Append(edits[l], entry) \in Seq([old : Destinations, new : Destinations])
      <4>1. edits[l] \in Seq([old : Destinations, new : Destinations])
        BY <2>2, LinkTypes
      <4>2. \A s \in Seq([old : Destinations, new : Destinations]) :
              Append(s, entry) \in Seq([old : Destinations, new : Destinations])
        <5>1. PICK T : T = [old : Destinations, new : Destinations]
          OBVIOUS
        <5>2. \A s \in Seq(T) : Append(s, entry) \in Seq(T)
          BY <2>2, <5>1
        <5> QED BY <5>1, <5>2
      <4> QED BY <4>1, <4>2
    <3> QED BY <2>2, <3>1, LinkTypes
  <2>4. /\ req' \in [Requests -> Handler] /\ req'[r] = Idle
        /\ \A q \in Requests \ {r} : req'[q] = req[q]
    BY <2>2, FinishKeeps
  <2>5. Stored' = Stored
    BY <2>2 DEF Stored
  <2>6. TypeOK'
    BY <2>2, <2>3, <2>4, <2>5 DEF StateInv, TypeOK
  <2>7. \A k \in Links : LinkOK(k)'
    BY <2>2, <2>3, <2>5 DEF StateInv, LinkOK
  <2>8. \A q \in Requests : RequestOK(q)'
    <3>1. RequestOK(r)'
      BY <2>4, IdleOK
    <3> QED BY <2>4, <2>5, <3>1 DEF StateInv, RequestOK
  <2> QED BY <2>5, <2>6, <2>7, <2>8 DEF StateInv
<1> QED BY <1>1, <1>2, <1>3, <1>4 DEF UpdateDestination

\* A request breaks off.
LEMMA AbortKeepsState ==
  ASSUME StateInv, NEW r \in Requests, Abort(r)
  PROVE  StateInv'
<1>1. /\ raced \subseteq Destinations /\ edited \cup tangled \subseteq Stored
      /\ begun \in 0 .. MaxEdits /\ RequestOK(r)
  BY DEF StateInv, TypeOK
<1>2. /\ Finish(r) /\ UNCHANGED <<row, edits, created, raced, edited, begun>>
      /\ tangled' = IF req[r].at = "written" THEN tangled \cup {req[r].link} ELSE tangled
  BY DEF Abort, tableVars
<1>3. tangled' \subseteq Stored
  BY <1>1, <1>2 DEF RequestOK, Editing
<1> QED BY <1>1, <1>2, <1>3, FinishKeeps, IdleOK, RequestStep

\* No step breaks it.
LEMMA StateKept ==
  StateInv /\ [Next]_vars => StateInv'
<1> SUFFICES ASSUME StateInv, [Next]_vars
             PROVE  StateInv'
  OBVIOUS
<1>1. ASSUME NEW r \in Requests, Shorten(r)
      PROVE  StateInv'
  BY <1>1, ShortenKeepsState, InsertKeepsState DEF Shorten
<1>2. ASSUME NEW r \in Requests, UpdateDestination(r)
      PROVE  StateInv'
  BY <1>2, EditKeepsState
<1>3. ASSUME NEW r \in Requests, Abort(r)
      PROVE  StateInv'
  BY <1>3, AbortKeepsState
<1>4. CASE UNCHANGED vars
  BY <1>4 DEF vars, tableVars, pastVars, StateInv, TypeOK, Stored, LinkOK, RequestOK
<1> QED BY <1>1, <1>2, <1>3, <1>4 DEF Next

\* Types, and what a request knows of the link that it edits.
THEOREM StateInvHolds == Spec => []StateInv
BY StateStart, StateKept, PTL DEF Spec

\* Every variable stays in its domain; a PRIVATE link has a creator, for any members,
\* destinations and number of links.
THEOREM TypeCorrect == Spec => []TypeOK
<1>1. StateInv => TypeOK
  BY DEF StateInv
<1> QED BY <1>1, StateInvHolds, PTL


-----------------------------------------------------------------------------
(***************************************************************************)
(* Deduplication.                                                          *)
(***************************************************************************)
\* Two requests that are creating one destination are known to race.
RacesNoted ==
  \A r, s \in Requests : r # s /\ req[r].at = "ready" /\ req[s].at = "ready"
                         /\ req[r].dest = req[s].dest => req[r].dest \in raced

\* A request that has searched in vain knows of no link to its destination, or of one
\* that was created by another request meanwhile.
SearchHolds ==
  \A r \in Requests, k \in Stored \ edited :
    /\ req[r].at = "ready" /\ ~req[r].alias
    /\ created[k].dest = req[r].dest
    /\ VisibleTo(k, req[r].user)
    => req[r].dest \in raced

DedupeInv ==
  /\ \A l \in Stored \ edited : row[l].dest = created[l].dest
  /\ RacesNoted
  /\ SearchHolds
  /\ DuplicatesAreRaces

\* Nothing has been created at first.
LEMMA DedupeStart ==
  Init => DedupeInv
<1> SUFFICES ASSUME Init
             PROVE  DedupeInv
  OBVIOUS
<1>1. Stored = {} /\ \A r \in Requests : req[r].at = "idle"
  BY DEF Init, Stored, Idle
<1> QED BY <1>1 DEF DedupeInv, RacesNoted, SearchHolds, DuplicatesAreRaces

\* A step of a request that is not about to insert after it, and writes at most to
\* links that count as edited.
LEMMA OtherStep ==
  ASSUME DedupeInv, NEW r \in Requests, created' = created, raced' = raced,
         edited \subseteq edited', Stored' = Stored,
         \A k \in Stored \ edited' : row'[k] = row[k],
         req'[r].at # "ready", \A q \in Requests \ {r} : req'[q] = req[q]
  PROVE  DedupeInv'
<1>1. \A l \in Stored' \ edited' : row'[l].dest = created'[l].dest
  BY DEF DedupeInv
<1>2. RacesNoted'
  BY DEF DedupeInv, RacesNoted
<1>3. SearchHolds'
  BY DEF DedupeInv, SearchHolds, VisibleTo
<1>4. DuplicatesAreRaces'
  BY DEF DedupeInv, DuplicatesAreRaces, VisibleTo
<1> QED BY <1>1, <1>2, <1>3, <1>4 DEF DedupeInv

\* A step of a request that is about to insert after it.
LEMMA ReadyStep ==
  ASSUME StateInv', DedupeInv, NEW r \in Requests, UNCHANGED <<row, created, edited>>, NoteRace,
         \A q \in Requests \ {r} : req'[q] = req[q],
         \A k \in Stored \ edited :
           /\ req'[r].at = "ready" /\ ~req'[r].alias
           /\ created[k].dest = req'[r].dest
           /\ VisibleTo(k, req'[r].user)
           => req'[r].dest \in raced
  PROVE  DedupeInv'
<1>1. Stored' = Stored /\ raced \subseteq raced'
  BY DEF Stored, NoteRace
<1>2. \A l \in Stored' \ edited' : row'[l].dest = created'[l].dest
  BY <1>1 DEF DedupeInv
<1>3. RacesNoted'
  <2> SUFFICES ASSUME NEW p \in Requests, NEW q \in Requests, p # q,
                      req'[p].at = "ready", req'[q].at = "ready", req'[p].dest = req'[q].dest
               PROVE  req'[p].dest \in raced'
    BY DEF RacesNoted
  <2>1. req'[p].dest \in Destinations
    BY DEF StateInv, RequestOK, Creating
  <2>2. ReadyFor(p, req[p].dest)' /\ ReadyFor(q, req[p].dest)'
    BY DEF ReadyFor
  <2> QED BY <2>1, <2>2 DEF NoteRace, ReadyFor
<1>4. SearchHolds'
  BY <1>1 DEF DedupeInv, SearchHolds, VisibleTo
<1>5. DuplicatesAreRaces'
  BY <1>1 DEF DedupeInv, DuplicatesAreRaces, VisibleTo
<1> QED BY <1>2, <1>3, <1>4, <1>5 DEF DedupeInv

\* A request that begins to shorten has not searched; one that has searched in vain
\* has found no link that it sees.
LEMMA SearchKeepsDedupe ==
  ASSUME StateInv, StateInv', DedupeInv, NEW r \in Requests,
         \/ \E u \in Users \cup {None}, type \in {"PUBLIC", "PRIVATE"}, d \in Destinations,
               alias \in BOOLEAN : ShortenBegin(r, u, type, d, alias)
         \/ FindNone(r)
  PROVE  DedupeInv'
<1>1. ASSUME NEW u \in Users \cup {None}, NEW type \in {"PUBLIC", "PRIVATE"},
             NEW d \in Destinations, NEW alias \in BOOLEAN, ShortenBegin(r, u, type, d, alias)
      PROVE  DedupeInv'
  <2>1. PICK new : new = [Idle EXCEPT !.at = IF alias THEN "ready" ELSE "scanned", !.user = u,
                                      !.type = type, !.dest = d, !.alias = alias]
    OBVIOUS
  <2>2. new.at = (IF alias THEN "ready" ELSE "scanned") /\ new.alias = alias
    BY <2>1 DEF Idle
  <2>3. req' = [req EXCEPT ![r] = new]
    BY <1>1, <2>1 DEF ShortenBegin
  <2>4. req'[r] = new /\ \A q \in Requests \ {r} : req'[q] = req[q]
    BY <2>3, LinkTypes
  <2>5. ~(req'[r].at = "ready" /\ ~req'[r].alias)
    BY <2>2, <2>4
  <2>6. UNCHANGED <<row, created, edited>> /\ NoteRace
    BY <1>1 DEF ShortenBegin, tableVars
  <2> QED BY <2>4, <2>5, <2>6, ReadyStep
<1>2. CASE FindNone(r)
  <2>1. /\ Proceed(r, "ready") /\ NoteRace
        /\ UNCHANGED <<row, created, edited>>
        /\ Duplicates(r) = {}
    BY <1>2 DEF FindNone, tableVars
  <2>2. /\ req'[r].user = req[r].user /\ req'[r].dest = req[r].dest
        /\ \A q \in Requests \ {r} : req'[q] = req[q]
    <3>1. "ready" \in Creating \cup Editing
      BY DEF Creating
    <3> QED BY <2>1, <3>1, ProceedKeeps
  <2>3. ASSUME NEW k \in Stored \ edited, created[k].dest = req[r].dest,
               VisibleTo(k, req[r].user)
        PROVE  FALSE
    <3>1. row[k].dest = req[r].dest
      BY <2>3 DEF DedupeInv
    <3>2. k \in Duplicates(r)
      BY <2>3, <3>1 DEF Duplicates, SameText
    <3> QED BY <2>1, <3>2
  <2>4. \A k \in Stored \ edited :
          created[k].dest = req'[r].dest /\ VisibleTo(k, req'[r].user) => FALSE
    BY <2>2, <2>3
  <2> QED BY <2>1, <2>2, <2>4, ReadyStep
<1> QED BY <1>1, <1>2

\* The link that is inserted is the newest: the request that inserts it knew of no
\* other to its destination, and those that are about to insert one too race it.
LEMMA InsertKeepsDedupe ==
  ASSUME StateInv, DedupeInv, NEW r \in Requests, InsertLink(r)
  PROVE  DedupeInv'
<1>1. PICK l : l = Cardinality(Stored) + 1
  OBVIOUS
<1>2. PICK new, origin : /\ new = [user |-> req[r].user, type |-> req[r].type, dest |-> req[r].dest]
                         /\ origin = [dest |-> req[r].dest, alias |-> req[r].alias]
  OBVIOUS
<1>3. /\ req[r].at = "ready" /\ l \in Links
      /\ row' = [row EXCEPT ![l] = new]
      /\ created' = [created EXCEPT ![l] = origin]
      /\ Finish(r)
      /\ UNCHANGED <<edits, raced, edited, tangled, begun>>
  BY <1>1, <1>2 DEF InsertLink
<1>4. l \notin Stored /\ \A k \in Links : k \in Stored <=> k < l
  BY <1>1, <1>3, NextLink
<1>5. /\ row'[l] = new /\ created'[l] = origin
      /\ \A k \in Links \ {l} : row'[k] = row[k] /\ created'[k] = created[k]
  BY <1>3, LinkTypes
<1>6. Stored' \subseteq Stored \cup {l} /\ Stored \subseteq Links /\ l \in Nat
      /\ \A k \in Stored : k \in Nat /\ k < l
  BY <1>3, <1>4, <1>5 DEF Stored, Links
<1>7. \A k \in Stored : row'[k] = row[k] /\ created'[k] = created[k]
  BY <1>4, <1>5, <1>6
<1>8. req'[r] = Idle /\ \A q \in Requests \ {r} : req'[q] = req[q]
  BY <1>3, FinishKeeps
<1>9. req'[r].at # "ready"
  BY <1>8 DEF Idle
<1>10. \A k \in Stored' \ edited' : row'[k].dest = created'[k].dest
  <2>1. row'[l].dest = created'[l].dest
    BY <1>2, <1>5
  <2> QED BY <1>3, <1>6, <1>7, <2>1 DEF DedupeInv
<1>11. RacesNoted'
  BY <1>3, <1>8, <1>9 DEF DedupeInv, RacesNoted
<1>12. SearchHolds'
  <2> SUFFICES ASSUME NEW q \in Requests, NEW k \in Stored' \ edited',
                      req'[q].at = "ready", ~req'[q].alias,
                      created'[k].dest = req'[q].dest, VisibleTo(k, req[q].user)'
               PROVE  req'[q].dest \in raced'
    BY DEF SearchHolds
  <2>1. q # r /\ req'[q] = req[q]
    BY <1>8, <1>9
  <2>2. CASE k = l
    <3>1. req[r].dest = req[q].dest
      BY <1>2, <1>5, <2>1, <2>2
    <3> QED BY <1>3, <2>1, <3>1 DEF DedupeInv, RacesNoted
  <2>3. CASE k # l
    <3>1. k \in Stored \ edited /\ row'[k] = row[k] /\ created'[k] = created[k]
      BY <1>3, <1>6, <1>7, <2>3
    <3> QED BY <1>3, <2>1, <3>1 DEF DedupeInv, SearchHolds, VisibleTo
  <2> QED BY <2>2, <2>3
<1>13. DuplicatesAreRaces'
  <2> SUFFICES ASSUME NEW k \in Stored' \ edited', NEW m \in Stored' \ edited', k < m,
                      ~created'[m].alias, created'[k].dest = created'[m].dest,
                      VisibleTo(k, row[m].user)'
               PROVE  created'[m].dest \in raced'
    BY DEF DuplicatesAreRaces
  <2>1. k # l
    BY <1>6
  <2>2. k \in Stored \ edited /\ row'[k] = row[k] /\ created'[k] = created[k]
    BY <1>3, <1>6, <1>7, <2>1
  <2>3. CASE m = l
    <3>1. /\ row'[m].user = req[r].user /\ created'[m].dest = req[r].dest
          /\ created'[m].alias = req[r].alias
      BY <1>2, <1>5, <2>3
    <3>2. VisibleTo(k, req[r].user)
      BY <2>2, <3>1 DEF VisibleTo
    <3> QED BY <1>3, <2>2, <3>1, <3>2 DEF DedupeInv, SearchHolds
  <2>4. CASE m # l
    <3>1. m \in Stored \ edited /\ row'[m] = row[m] /\ created'[m] = created[m]
      BY <1>3, <1>6, <1>7, <2>4
    <3> QED BY <1>3, <2>2, <3>1 DEF DedupeInv, DuplicatesAreRaces, VisibleTo
  <2> QED BY <2>3, <2>4
<1> QED BY <1>10, <1>11, <1>12, <1>13 DEF DedupeInv

\* The other steps insert nothing and leave what has not been edited.
LEMMA OthersKeepDedupe ==
  ASSUME StateInv, DedupeInv, NEW r \in Requests,
         \/ \E l \in Links : AnswerExisting(r, l)
         \/ UpdateDestination(r)
         \/ Abort(r)
  PROVE  DedupeInv'
<1>1. CASE Finish(r) /\ UNCHANGED <<row, created, raced, edited>>
  <2>1. req'[r].at # "ready" /\ \A q \in Requests \ {r} : req'[q] = req[q]
    BY <1>1, FinishKeeps DEF Idle
  <2> QED BY <1>1, <2>1, OtherStep DEF Stored
<1>2. ASSUME NEW u \in Users, NEW l \in Links, NEW d \in Destinations, EditBegin(r, u, l, d)
      PROVE  DedupeInv'
  <2>1. PICK new : new = [Idle EXCEPT !.at = "read", !.link = l, !.dest = d, !.old = row[l].dest]
    OBVIOUS
  <2>2. new.at = "read" /\ req' = [req EXCEPT ![r] = new]
        /\ UNCHANGED <<row, created, raced, edited>>
    BY <1>2, <2>1 DEF EditBegin, Idle, tableVars
  <2>3. req'[r].at # "ready" /\ \A q \in Requests \ {r} : req'[q] = req[q]
    BY <2>2, LinkTypes
  <2> QED BY <2>2, <2>3, OtherStep DEF Stored
<1>3. CASE Proceed(r, "allowed") /\ UNCHANGED <<row, created, raced, edited>>
  <2>1. req'[r].at # "ready" /\ \A q \in Requests \ {r} : req'[q] = req[q]
    BY <1>3, LinkTypes, ProceedKeeps DEF Editing
  <2> QED BY <1>3, <2>1, OtherStep DEF Stored
<1>4. CASE EditWrite(r)
  <2>1. /\ row' = [row EXCEPT ![req[r].link].dest = req[r].dest]
        /\ edited' = edited \cup {req[r].link} /\ Proceed(r, "written")
        /\ UNCHANGED <<created, raced>> /\ req[r].link \in Stored /\ req[r].dest \in Destinations
    BY <1>4 DEF EditWrite, StateInv, RequestOK, Editing
  <2>2. PICK l : l = req[r].link
    OBVIOUS
  <2>3. /\ l \in Links /\ row[l] \in Row
        /\ \A k \in Links \ {l} : row'[k] = row[k]
        /\ row'[l] = [row[l] EXCEPT !.dest = req[r].dest]
    BY <2>1, <2>2, LinkTypes DEF Stored
  <2>4. row'[l] # None
    BY <2>1, <2>3, LinkTypes DEF Row
  <2>5. Stored' = Stored
    BY <2>1, <2>2, <2>3, <2>4 DEF Stored
  <2>6. \A k \in Stored \ edited' : row'[k] = row[k]
    BY <2>1, <2>2, <2>3 DEF Stored
  <2>7. req'[r].at # "ready" /\ \A q \in Requests \ {r} : req'[q] = req[q]
    BY <2>1, LinkTypes, ProceedKeeps DEF Editing
  <2> QED BY <2>1, <2>5, <2>6, <2>7, OtherStep
<1>5. CASE \E l \in Links : AnswerExisting(r, l)
  BY <1>1, <1>5 DEF AnswerExisting, tableVars, pastVars
<1>6. CASE EditScan(r)
  BY <1>1, <1>3, <1>6 DEF EditScan, tableVars, pastVars
<1>7. CASE EditAudit(r)
  BY <1>1, <1>7 DEF EditAudit, pastVars
<1>8. CASE Abort(r)
  BY <1>1, <1>8 DEF Abort, tableVars
<1> QED BY <1>2, <1>4, <1>5, <1>6, <1>7, <1>8 DEF UpdateDestination

\* No step makes a duplicate without a race, an alias or an edit.
LEMMA DedupeKept ==
  StateInv /\ StateInv' /\ DedupeInv /\ [Next]_vars => DedupeInv'
<1> SUFFICES ASSUME StateInv, StateInv', DedupeInv, [Next]_vars
             PROVE  DedupeInv'
  OBVIOUS
<1>1. ASSUME NEW r \in Requests, Shorten(r)
      PROVE  DedupeInv'
  BY <1>1, SearchKeepsDedupe, InsertKeepsDedupe, OthersKeepDedupe DEF Shorten
<1>2. ASSUME NEW r \in Requests, UpdateDestination(r) \/ Abort(r)
      PROVE  DedupeInv'
  BY <1>2, OthersKeepDedupe
<1>3. CASE UNCHANGED vars
  BY <1>3 DEF vars, tableVars, pastVars, DedupeInv, RacesNoted, SearchHolds, DuplicatesAreRaces,
              VisibleTo, Stored
<1> QED BY <1>1, <1>2, <1>3 DEF Next

\* Shortening is deduplicated per org: for any number of requests at once, a member sees
\* two links of one destination only after an edit, an alias or a race of two creations.
THEOREM DuplicatesAreRacesHolds == Spec => []DuplicatesAreRaces
<1>1. DedupeInv => DuplicatesAreRaces
  BY DEF DedupeInv
<1> QED BY <1>1, DedupeStart, DedupeKept, StateInvHolds, PTL DEF Spec

-----------------------------------------------------------------------------
(***************************************************************************)
(* The audit rows of edits.                                                *)
(***************************************************************************)
\* The destination that the audit rows of l end with.
Told(l) == IF edits[l] = <<>> THEN created[l].dest ELSE edits[l][Len(edits[l])].new

\* Every audit row begins where the one before it, or the creation, ended.
Chained(l) ==
  \A i \in 1 .. Len(edits[l]) :
    edits[l][i].old = IF i = 1 THEN created[l].dest ELSE edits[l][i - 1].new

EditingOf(r, l) == req[r].at \in Editing /\ req[r].link = l

\* The only edit of a link under way knows the destination it will replace, or has
\* replaced without a row for it so far.
StoryOf(l) ==
  /\ \A r, s \in Requests : EditingOf(r, l) /\ EditingOf(s, l) => r = s
  /\ Chained(l)
  /\ \A r \in Requests : EditingOf(r, l) =>
       IF req[r].at = "written" THEN Told(l) = req[r].old /\ row[l].dest = req[r].dest
       ELSE req[r].old = row[l].dest
  /\ (\A r \in Requests : ~(req[r].at = "written" /\ req[r].link = l)) => Told(l) = row[l].dest

StoryInv == \A l \in Stored \ tangled : StoryOf(l)

\* The story of a link goes on if neither the link nor an edit of it changes.
LEMMA StoryUntouched ==
  ASSUME NEW l \in Links, StoryOf(l),
         row'[l] = row[l], edits'[l] = edits[l], created'[l] = created[l],
         \A q \in Requests : EditingOf(q, l) \/ EditingOf(q, l)' => req'[q] = req[q]
  PROVE  StoryOf(l)'
<1>1. Told(l)' = Told(l) /\ Chained(l)'
  BY DEF Told, Chained, StoryOf
<1>2. \A q \in Requests : EditingOf(q, l)' <=> EditingOf(q, l)
  BY DEF EditingOf
<1>3. \A q \in Requests : req'[q].at = "written" /\ req'[q].link = l => EditingOf(q, l)'
  BY DEF EditingOf, Editing
<1>4. \A q \in Requests : req[q].at = "written" /\ req[q].link = l => EditingOf(q, l)
  BY DEF EditingOf, Editing
<1> QED BY <1>1, <1>2, <1>3, <1>4 DEF StoryOf

\* No edit has begun at first.
LEMMA StoryStart ==
  Init => StoryInv
BY DEF Init, StoryInv, Stored

\* Shortening is no edit, and a new link has no audit rows.
LEMMA ShortenKeepsStory ==
  ASSUME StateInv, StoryInv, NEW r \in Requests, Shorten(r)
  PROVE  StoryInv'
<1>1. ASSUME UNCHANGED <<row, edits, created, tangled>>, req[r].at \notin Editing,
             req'[r].at \notin Editing, \A q \in Requests \ {r} : req'[q] = req[q]
      PROVE  StoryInv'
  <2>1. Stored' = Stored /\ Stored \subseteq Links
    BY <1>1 DEF Stored
  <2> QED BY <1>1, <2>1, StoryUntouched DEF StoryInv, EditingOf
<1>2. ASSUME NEW u \in Users \cup {None}, NEW type \in {"PUBLIC", "PRIVATE"},
             NEW d \in Destinations, NEW alias \in BOOLEAN, ShortenBegin(r, u, type, d, alias)
      PROVE  StoryInv'
  <2>1. PICK new : new = [Idle EXCEPT !.at = IF alias THEN "ready" ELSE "scanned", !.user = u,
                                      !.type = type, !.dest = d, !.alias = alias]
    OBVIOUS
  <2>2. new.at = (IF alias THEN "ready" ELSE "scanned")
    BY <2>1 DEF Idle
  <2>3. req' = [req EXCEPT ![r] = new] /\ req[r].at = "idle"
        /\ UNCHANGED <<row, edits, created, tangled>>
    BY <1>2, <2>1 DEF ShortenBegin, tableVars
  <2>4. req'[r] = new /\ \A q \in Requests \ {r} : req'[q] = req[q]
    BY <2>3, LinkTypes
  <2> QED BY <1>1, <2>2, <2>3, <2>4 DEF Editing
<1>3. ASSUME NEW l \in Links, AnswerExisting(r, l)
      PROVE  StoryInv'
  <2>1. /\ req[r].at = "scanned" /\ Finish(r)
        /\ UNCHANGED <<row, edits, created, tangled>>
    BY <1>3 DEF AnswerExisting, tableVars, pastVars
  <2> QED BY <1>1, <2>1, FinishKeeps DEF Idle, Editing
<1>4. CASE FindNone(r)
  <2>1. /\ req[r].at = "scanned" /\ Proceed(r, "ready")
        /\ UNCHANGED <<row, edits, created, tangled>>
    BY <1>4 DEF FindNone, tableVars
  <2>2. "ready" \in Creating \cup Editing /\ "ready" \notin Editing /\ "scanned" \notin Editing
    BY DEF Creating, Editing
  <2>3. req'[r].at = "ready" /\ \A q \in Requests \ {r} : req'[q] = req[q]
    BY <2>1, <2>2, ProceedKeeps
  <2> QED BY <1>1, <2>1, <2>2, <2>3
<1>5. CASE InsertLink(r)
  <2>1. PICK l : l = Cardinality(Stored) + 1
    OBVIOUS
  <2>2. PICK new, origin :
               /\ new = [user |-> req[r].user, type |-> req[r].type, dest |-> req[r].dest]
               /\ origin = [dest |-> req[r].dest, alias |-> req[r].alias]
    OBVIOUS
  <2>3. /\ req[r].at = "ready" /\ l \in Links
        /\ row' = [row EXCEPT ![l] = new]
        /\ created' = [created EXCEPT ![l] = origin]
        /\ Finish(r)
        /\ UNCHANGED <<edits, tangled>>
    BY <1>5, <2>1, <2>2 DEF InsertLink
  <2>4. l \notin Stored
    BY <2>1, <2>3, NextLink
  <2>5. /\ row'[l] = new /\ created'[l] = origin
        /\ \A k \in Links \ {l} : row'[k] = row[k] /\ created'[k] = created[k]
    BY <2>3, LinkTypes
  <2>6. req'[r] = Idle /\ \A q \in Requests \ {r} : req'[q] = req[q]
    BY <2>3, FinishKeeps
  <2>7. \A q \in Requests, k \in Links : EditingOf(q, k)' => EditingOf(q, k) /\ req'[q] = req[q]
    BY <2>6 DEF EditingOf, Idle, Editing
  <2>8. \A q \in Requests, k \in Links : EditingOf(q, k) => k \in Stored /\ req'[q] = req[q]
    BY <2>3, <2>6 DEF StateInv, RequestOK, EditingOf, Editing
  <2>9. StoryOf(l)'
    <3>1. edits'[l] = <<>>
      BY <2>3, <2>4 DEF StateInv, LinkOK
    <3>2. \A q \in Requests : ~EditingOf(q, l)'
      BY <2>3, <2>4, <2>7, <2>8
    <3>3. Told(l)' = row'[l].dest
      BY <2>2, <2>5, <3>1 DEF Told
    <3>4. Chained(l)'
      BY <3>1 DEF Chained
    <3> QED BY <3>2, <3>3, <3>4 DEF StoryOf
  <2>10. ASSUME NEW k \in Stored' \ tangled'
         PROVE  StoryOf(k)'
    <3>1. CASE k = l
      BY <2>9, <3>1
    <3>2. CASE k # l
      <4>1. k \in Stored \ tangled /\ k \in Links /\ row'[k] = row[k] /\ created'[k] = created[k]
        BY <2>3, <2>5, <2>10, <3>2 DEF Stored
      <4> QED BY <2>3, <2>7, <2>8, <4>1, StoryUntouched DEF StoryInv
    <3> QED BY <3>1, <3>2
  <2> QED BY <2>10 DEF StoryInv
<1> QED BY <1>2, <1>3, <1>4, <1>5 DEF Shorten

\* A request ends that has written nothing, or leaves its link tangled.
LEMMA EndKeepsStory ==
  ASSUME StateInv, StoryInv, NEW r \in Requests, Finish(r), UNCHANGED <<row, edits, created>>,
         tangled \subseteq tangled', req[r].at = "written" => req[r].link \in tangled'
  PROVE  StoryInv'
<1>1. req'[r] = Idle /\ \A q \in Requests \ {r} : req'[q] = req[q]
  BY FinishKeeps
<1>2. ASSUME NEW l \in Stored' \ tangled'
      PROVE  StoryOf(l)'
  <2>1. l \in Stored /\ l \in Links /\ StoryOf(l)
    BY <1>2 DEF StoryInv, Stored
  <2>2. ~EditingOf(r, l)' /\ \A q \in Requests \ {r} : EditingOf(q, l)' <=> EditingOf(q, l)
    BY <1>1 DEF EditingOf, Idle, Editing
  <2>3. Told(l)' = Told(l) /\ Chained(l)'
    BY <2>1 DEF Told, Chained, StoryOf
  <2>4. (\A q \in Requests : ~(req'[q].at = "written" /\ req'[q].link = l))
          => Told(l)' = row'[l].dest
    BY <1>1, <1>2, <2>1, <2>3 DEF StoryOf
  <2> QED BY <1>1, <2>1, <2>2, <2>3, <2>4 DEF StoryOf
<1> QED BY <1>2 DEF StoryInv

\* An edit begins on a link without any, or overlaps another.
LEMMA BeginKeepsStory ==
  ASSUME StateInv, StoryInv, NEW r \in Requests, NEW u \in Users, NEW l \in Links,
         NEW d \in Destinations, EditBegin(r, u, l, d)
  PROVE  StoryInv'
<1>1. PICK new : new = [Idle EXCEPT !.at = "read", !.link = l, !.dest = d, !.old = row[l].dest]
  OBVIOUS
<1>2. new.at = "read" /\ new.link = l /\ new.old = row[l].dest
  BY <1>1 DEF Idle
<1>3. /\ req[r].at = "idle" /\ l \in Stored /\ req' = [req EXCEPT ![r] = new]
      /\ UNCHANGED <<row, edits, created>> /\ NoteOverlap
  BY <1>1 DEF EditBegin, tableVars
<1>4. req'[r] = new /\ \A q \in Requests \ {r} : req'[q] = req[q]
  BY <1>3, LinkTypes
<1>5. EditingOf(r, l)' /\ \A k \in Links : ~EditingOf(r, k)
  BY <1>2, <1>3, <1>4 DEF EditingOf, Editing
<1>6. ASSUME NEW k \in Stored' \ tangled'
      PROVE  StoryOf(k)'
  <2>1. k \in Stored /\ k \in Links /\ k \notin tangled /\ StoryOf(k)
    BY <1>3, <1>6 DEF StoryInv, Stored, NoteOverlap
  <2>2. CASE k # l
    <3>1. ~EditingOf(r, k)'
      BY <1>2, <1>4, <2>2 DEF EditingOf
    <3> QED BY <1>3, <1>4, <1>5, <2>1, <3>1, StoryUntouched
  <2>3. CASE k = l
    <3>1. ASSUME NEW q \in Requests \ {r}
          PROVE  ~EditingOf(q, l)'
      BY <1>3, <1>5, <1>6, <2>3 DEF NoteOverlap, EditingOf
    <3>2. \A q \in Requests : ~EditingOf(q, l)
      BY <1>4, <1>5, <3>1 DEF EditingOf
    <3>3. Told(l) = row[l].dest /\ Chained(l)
      BY <2>1, <2>3, <3>2 DEF StoryOf, EditingOf, Editing
    <3>4. Told(l)' = row'[l].dest /\ Chained(l)'
      BY <1>3, <3>3 DEF Told, Chained
    <3>5. req'[r].at # "written" /\ req'[r].old = row'[l].dest
      BY <1>2, <1>3, <1>4
    <3> QED BY <1>5, <2>3, <3>1, <3>4, <3>5 DEF StoryOf
  <2> QED BY <2>2, <2>3
<1> QED BY <1>6 DEF StoryInv

\* The destination is written that the only edit under way replaces.
LEMMA WriteKeepsStory ==
  ASSUME StateInv, StoryInv, NEW r \in Requests, EditWrite(r)
  PROVE  StoryInv'
<1>1. /\ req[r].at = "allowed"
      /\ row' = [row EXCEPT ![req[r].link].dest = req[r].dest]
      /\ Proceed(r, "written") /\ UNCHANGED <<edits, created, tangled>>
      /\ req[r].link \in Stored
  BY DEF EditWrite, StateInv, RequestOK, Editing
<1>2. PICK l : l = req[r].link
  OBVIOUS
<1>3. /\ l \in Links /\ row[l] \in Row
      /\ \A k \in Links \ {l} : row'[k] = row[k]
      /\ row'[l] = [row[l] EXCEPT !.dest = req[r].dest]
  BY <1>1, <1>2, LinkTypes DEF Stored
<1>4. row'[l].dest = req[r].dest
  BY <1>3 DEF Row
<1>5. /\ req'[r].at = "written" /\ req'[r].link = l /\ req'[r].dest = req[r].dest
      /\ req'[r].old = req[r].old /\ \A q \in Requests \ {r} : req'[q] = req[q]
  <2>1. "written" \in Creating \cup Editing
    BY DEF Editing
  <2> QED BY <1>1, <1>2, <2>1, ProceedKeeps
<1>6. EditingOf(r, l) /\ EditingOf(r, l)'
  BY <1>1, <1>2, <1>5 DEF EditingOf, Editing
<1>7. ASSUME NEW k \in Stored' \ tangled'
      PROVE  StoryOf(k)'
  <2>1. CASE k # l
    <3>1. k \in Links /\ k \in Stored \ tangled /\ row'[k] = row[k]
      BY <1>1, <1>3, <1>7, <2>1 DEF Stored
    <3>2. StoryOf(k) /\ edits'[k] = edits[k] /\ created'[k] = created[k]
      BY <1>1, <3>1 DEF StoryInv
    <3>3. ~EditingOf(r, k) /\ ~EditingOf(r, k)'
      BY <1>2, <1>5, <2>1 DEF EditingOf
    <3> QED BY <1>5, <3>1, <3>2, <3>3, StoryUntouched
  <2>2. CASE k = l
    <3>1. StoryOf(l)
      BY <1>1, <1>2, <1>7, <2>2 DEF StoryInv
    <3>2. \A q \in Requests \ {r} : ~EditingOf(q, l) /\ ~EditingOf(q, l)'
      BY <1>5, <1>6, <3>1 DEF StoryOf, EditingOf
    <3>3. Told(l) = row[l].dest
      BY <1>1, <3>1, <3>2 DEF StoryOf, EditingOf, Editing
    <3>4. req[r].old = row[l].dest
      BY <1>1, <1>6, <3>1 DEF StoryOf
    <3>5. Told(l)' = req'[r].old /\ Chained(l)'
      BY <1>1, <1>5, <3>1, <3>3, <3>4 DEF Told, Chained, StoryOf
    <3> QED BY <1>4, <1>5, <1>6, <2>2, <3>2, <3>5 DEF StoryOf
  <2> QED BY <2>1, <2>2
<1> QED BY <1>7 DEF StoryInv

\* The audit row goes on where the last one ended.
LEMMA AuditKeepsStory ==
  ASSUME StateInv, StoryInv, NEW r \in Requests, EditAudit(r)
  PROVE  StoryInv'
<1>1. PICK l, entry : l = req[r].link /\ entry = AuditRow(req[r])
  OBVIOUS
<1>2. /\ req[r].at = "written" /\ l \in Stored /\ l \in Links
      /\ entry.old = req[r].old /\ entry.new = req[r].dest
      /\ edits' = [edits EXCEPT ![l] = Append(@, entry)]
      /\ Finish(r) /\ UNCHANGED <<row, created, tangled>>
  BY <1>1 DEF EditAudit, StateInv, RequestOK, Editing, AuditRow, pastVars, Stored
<1>3. req'[r] = Idle /\ \A q \in Requests \ {r} : req'[q] = req[q]
  BY <1>2, FinishKeeps
<1>4. EditingOf(r, l) /\ \A k \in Links : ~EditingOf(r, k)'
  BY <1>1, <1>2, <1>3 DEF EditingOf, Editing, Idle
<1>5. ASSUME NEW k \in Stored' \ tangled'
      PROVE  StoryOf(k)'
  <2>1. k \in Links /\ k \in Stored \ tangled
    BY <1>2, <1>5 DEF Stored
  <2>2. StoryOf(k) /\ row'[k] = row[k] /\ created'[k] = created[k]
    BY <1>2, <2>1 DEF StoryInv
  <2>3. CASE k # l
    <3>1. ~EditingOf(r, k) /\ edits'[k] = edits[k]
      BY <1>1, <1>2, <2>1, <2>3, LinkTypes DEF EditingOf
    <3> QED BY <1>3, <1>4, <2>1, <2>2, <3>1, StoryUntouched
  <2>4. CASE k = l
    <3>1. Told(l) = req[r].old /\ row[l].dest = req[r].dest
      BY <1>2, <1>4, <2>2, <2>4 DEF StoryOf
    <3>2. \A q \in Requests : ~EditingOf(q, l)'
      <4>1. \A q \in Requests \ {r} : ~EditingOf(q, l)
        BY <1>4, <2>2, <2>4 DEF StoryOf
      <4> QED BY <1>2, <1>3, <1>4, <4>1 DEF EditingOf
    <3>3. PICK n \in Nat : n = Len(edits[l])
      BY <1>2, LinkTypes
    <3>4. edits[l] \in Seq([old : Destinations, new : Destinations])
      BY <1>2, LinkTypes
    <3>5. PICK m : m = n + 1
      OBVIOUS
    <3>6. edits'[l] = Append(edits[l], entry)
      BY <1>2, LinkTypes
    <3>7. /\ Len(edits'[l]) = m /\ edits'[l][m] = entry
          /\ \A i \in 1 .. n : edits'[l][i] = edits[l][i]
      BY <3>3, <3>4, <3>5, <3>6
    <3>8. edits'[l] # <<>>
      BY <3>3, <3>5, <3>7
    <3>9. Told(l)' = row'[l].dest
      BY <1>2, <2>2, <2>4, <3>1, <3>7, <3>8 DEF Told
    <3>10. Told(l) = IF m = 1 THEN created[l].dest ELSE edits[l][n].new
      <4>1. edits[l] = <<>> <=> n = 0
        BY <3>3, <3>4
      <4>2. n = 0 <=> m = 1
        BY <3>5
      <4> QED BY <3>3, <4>1, <4>2 DEF Told
    <3>11. Chained(l)'
      <4> SUFFICES ASSUME NEW i \in 1 .. m
                   PROVE  edits'[l][i].old =
                            IF i = 1 THEN created'[l].dest ELSE edits'[l][i - 1].new
        BY <3>7 DEF Chained
      <4>1. CASE i = m
        <5>1. m - 1 = n /\ (m # 1 => n \in 1 .. n)
          BY <3>5
        <5> QED BY <1>2, <2>2, <2>4, <3>1, <3>7, <3>10, <4>1, <5>1
      <4>2. CASE i # m
        <5>1. i \in 1 .. n /\ (i # 1 => i - 1 \in 1 .. n)
          BY <3>5, <4>2
        <5>2. edits[l][i].old = IF i = 1 THEN created[l].dest ELSE edits[l][i - 1].new
          BY <2>2, <2>4, <3>3, <5>1 DEF StoryOf, Chained
        <5> QED BY <2>2, <2>4, <3>7, <5>1, <5>2
      <4> QED BY <4>1, <4>2
    <3> QED BY <2>4, <3>2, <3>9, <3>11 DEF StoryOf
  <2> QED BY <2>3, <2>4
<1> QED BY <1>5 DEF StoryInv

\* The scanner allows an edit, or it changes nothing.
LEMMA ScanKeepsStory ==
  ASSUME StateInv, StoryInv, NEW r \in Requests, EditScan(r)
  PROVE  StoryInv'
<1>1. req[r].at = "read" /\ UNCHANGED <<row, edits, created, tangled>>
      /\ (Proceed(r, "allowed") \/ Finish(r))
  BY DEF EditScan, tableVars, pastVars
<1>2. CASE Finish(r)
  BY <1>1, <1>2, EndKeepsStory
<1>3. CASE Proceed(r, "allowed")
  <2>1. /\ req'[r].at = "allowed" /\ req'[r].link = req[r].link /\ req'[r].dest = req[r].dest
        /\ req'[r].old = req[r].old /\ \A q \in Requests \ {r} : req'[q] = req[q]
    <3>1. "allowed" \in Creating \cup Editing
      BY DEF Editing
    <3> QED BY <1>3, <3>1, ProceedKeeps
  <2>2. ASSUME NEW l \in Stored' \ tangled'
        PROVE  StoryOf(l)'
    <3>1. l \in Links /\ StoryOf(l)
      BY <1>1, <2>2 DEF StoryInv, Stored
    <3>2. \A q \in Requests : EditingOf(q, l)' <=> EditingOf(q, l)
      BY <1>1, <2>1 DEF EditingOf, Editing
    <3>3. Told(l)' = Told(l) /\ Chained(l)'
      BY <1>1, <3>1 DEF Told, Chained, StoryOf
    <3>4. (\A q \in Requests : ~(req'[q].at = "written" /\ req'[q].link = l))
            => Told(l)' = row'[l].dest
      BY <1>1, <2>1, <3>1, <3>3 DEF StoryOf
    <3> QED BY <1>1, <2>1, <3>1, <3>2, <3>3, <3>4 DEF StoryOf
  <2> QED BY <2>2 DEF StoryInv
<1> QED BY <1>1, <1>2, <1>3

\* No step breaks the story.
LEMMA StoryKept ==
  StateInv /\ StoryInv /\ [Next]_vars => StoryInv'
<1> SUFFICES ASSUME StateInv, StoryInv, [Next]_vars
             PROVE  StoryInv'
  OBVIOUS
<1>1. ASSUME NEW r \in Requests, Shorten(r)
      PROVE  StoryInv'
  BY <1>1, ShortenKeepsStory
<1>2. ASSUME NEW r \in Requests, UpdateDestination(r)
      PROVE  StoryInv'
  BY <1>2, BeginKeepsStory, ScanKeepsStory, WriteKeepsStory, AuditKeepsStory
  DEF UpdateDestination
<1>3. ASSUME NEW r \in Requests, Abort(r)
      PROVE  StoryInv'
  <2>1. /\ Finish(r) /\ UNCHANGED <<row, edits, created>>
        /\ tangled' = IF req[r].at = "written" THEN tangled \cup {req[r].link} ELSE tangled
    BY <1>3 DEF Abort, tableVars
  <2> QED BY <2>1, EndKeepsStory
<1>4. CASE UNCHANGED vars
  <2>1. Stored' = Stored /\ Stored \subseteq Links
    BY <1>4 DEF vars, tableVars, Stored
  <2> QED BY <1>4, <2>1, StoryUntouched DEF vars, tableVars, pastVars, StoryInv
<1> QED BY <1>1, <1>2, <1>3, <1>4 DEF Next

\* The audit rows of a link tell the whole story of its destinations, for any number of
\* edits and requests, unless edits overlapped or one broke off half-way.
THEOREM EditsTellTheStoryHolds == Spec => []EditsTellTheStory
<1>1. ASSUME StateInv, StoryInv
      PROVE  EditsTellTheStory
  <2> SUFFICES ASSUME NEW l \in Stored \ tangled,
                      NEW trail,
                      trail = <<created[l].dest>> \o [i \in 1 .. Len(edits[l]) |-> edits[l][i].new]
               PROVE  /\ \A i \in 1 .. Len(edits[l]) : edits[l][i].old = trail[i]
                      /\ (~\E r \in Requests : req[r].at = "written" /\ req[r].link = l)
                           => trail[Len(trail)] = row[l].dest
    BY DEF EditsTellTheStory
  <2>1. StoryOf(l) /\ l \in Links
    BY <1>1 DEF StoryInv, Stored
  <2>2. edits[l] \in Seq([old : Destinations, new : Destinations])
        /\ created[l].dest \in Destinations
    BY <1>1, <2>1, LinkTypes DEF StateInv, LinkOK
  <2>3. PICK n \in Nat : n = Len(edits[l])
    BY <2>2
  <2> DEFINE Entry == [old : Destinations, new : Destinations]
  <2>4. (\A i \in 1 .. n : edits[l][i] \in Entry) /\ (n = 0 => edits[l] = <<>>)
    <3> HIDE DEF Entry
    <3>1. \A s \in Seq(Entry) : /\ \A i \in 1 .. Len(s) : s[i] \in Entry
                               /\ Len(s) = 0 => s = <<>>
      OBVIOUS
    <3>2. edits[l] \in Seq(Entry)
      BY <2>2 DEF Entry
    <3> QED BY <2>3, <3>1, <3>2
  <2>5. PICK news : news = [i \in 1 .. n |-> edits[l][i].new]
    OBVIOUS
  <2>6. news \in Seq(Destinations) /\ Len(news) = n
    <3>1. \A i \in 1 .. n : edits[l][i] \in [old : Destinations, new : Destinations]
      BY <2>4 DEF Entry
    <3>2. \A i \in 1 .. n : edits[l][i].new \in Destinations
      BY <3>1
    <3>3. news \in [1 .. n -> Destinations]
      BY <2>5, <3>2
    <3> QED BY <3>3
  <2>7. /\ Len(trail) = n + 1 /\ trail[1] = created[l].dest
        /\ \A i \in 2 .. n + 1 : trail[i] = news[i - 1]
    BY <2>2, <2>3, <2>5, <2>6
  <2>8. ASSUME NEW i \in 1 .. n
        PROVE  edits[l][i].old = trail[i]
    <3>1. edits[l][i].old = IF i = 1 THEN created[l].dest ELSE edits[l][i - 1].new
      BY <2>1, <2>3 DEF StoryOf, Chained
    <3>2. i # 1 => i \in 2 .. n + 1 /\ i - 1 \in 1 .. n
      BY <2>3
    <3> QED BY <2>5, <2>7, <3>1, <3>2
  <2>9. trail[Len(trail)] = Told(l)
    <3>1. CASE n = 0
      <4>1. edits[l] = <<>>
        BY <2>4, <3>1
      <4>2. trail[Len(trail)] = created[l].dest
        BY <2>7, <3>1
      <4> QED BY <4>1, <4>2 DEF Told
    <3>2. CASE n # 0
      <4>1. n + 1 \in 2 .. n + 1 /\ (n + 1) - 1 = n /\ n \in 1 .. n
        BY <2>3, <3>2
      <4>2. trail[n + 1] = edits[l][n].new
        BY <2>5, <2>7, <4>1
      <4>3. edits[l] # <<>>
        BY <2>3, <3>2
      <4> QED BY <2>3, <2>7, <4>2, <4>3 DEF Told
    <3> QED BY <3>1, <3>2
  <2> QED BY <2>1, <2>3, <2>8, <2>9 DEF StoryOf
<1> QED BY <1>1, StoryStart, StoryKept, StateInvHolds, PTL DEF Spec
=============================================================================
