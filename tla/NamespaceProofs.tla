--------------------------- MODULE NamespaceProofs ---------------------------
(***************************************************************************)
(* Proofs about Namespace, for any number of orgs, values, rows, links,    *)
(* visitors and concurrent requests.                                       *)
(***************************************************************************)
EXTENDS Namespace, FiniteSetTheorems, TLAPS

-----------------------------------------------------------------------------
(***************************************************************************)
(* Types                                                                   *)
(***************************************************************************)

\* A request record stays one under the handlers' three ways to go on.
LEMMA HandlerTypes ==
  ASSUME TypeOK, NEW r \in Requests
  PROVE  /\ Idle \in Handler
         /\ Finish(r) => req' \in [Requests -> Handler]
         /\ \A at \in Steps : Proceed(r, at) => req' \in [Requests -> Handler]
         /\ \A at \in Steps : \A ok \in BOOLEAN : Check(r, ok, at) => req' \in [Requests -> Handler]
         /\ Redraw(r) => req' \in [Requests -> Handler]
         /\ \A at \in Steps, o \in Orgs \cup {None}, n \in Names \cup {None},
               t \in PrefixIds \cup Links \cup {None} :
              Begin(r, at, o, n, t) => req' \in [Requests -> Handler]
<1>1. Idle \in Handler
  BY NamespaceAssumption DEF Idle, Handler, Steps
<1>2. Finish(r) => req' \in [Requests -> Handler]
  BY <1>1 DEF Finish, TypeOK
<1>3. ASSUME NEW at \in Steps, Proceed(r, at)
      PROVE  req' \in [Requests -> Handler]
  BY <1>3 DEF Proceed, TypeOK, Handler
<1>4. ASSUME Redraw(r)
      PROVE  req' \in [Requests -> Handler]
  <2>1. req[r] \in Handler
    BY DEF TypeOK
  <2>2. CASE req[r].tries + 1 < MaxAttempts
    <3>1. req[r].tries + 1 \in 0 .. MaxAttempts - 1
      BY <2>1, <2>2, NamespaceAssumption DEF Handler
    <3>2. [req[r] EXCEPT !.at = "drawing", !.name = None, !.tries = req[r].tries + 1] \in Handler
      BY <2>1, <3>1 DEF Handler, Steps
    <3>3. req' = [req EXCEPT ![r] =
            [req[r] EXCEPT !.at = "drawing", !.name = None, !.tries = req[r].tries + 1]]
      BY <1>4, <2>2, <2>1 DEF Redraw, TypeOK, Handler
    <3> QED BY <3>2, <3>3 DEF TypeOK
  <2>3. CASE ~(req[r].tries + 1 < MaxAttempts)
    BY <1>4, <2>3, <1>2 DEF Redraw
  <2> QED BY <2>2, <2>3
<1>5. ASSUME NEW at \in Steps, NEW o \in Orgs \cup {None}, NEW n \in Names \cup {None},
             NEW t \in PrefixIds \cup Links \cup {None}, Begin(r, at, o, n, t)
      PROVE  req' \in [Requests -> Handler]
  <2>1. [at |-> at, org |-> o, name |-> n, target |-> t, tries |-> 0] \in Handler
    BY NamespaceAssumption DEF Handler
  <2> QED BY <1>5, <2>1 DEF Begin, TypeOK
<1> QED BY <1>1, <1>2, <1>3, <1>4, <1>5 DEF Check

\* Each request, decision and resolution keeps every variable in its domain.
LEMMA PrefixRequestTypes ==
  ASSUME TypeOK, NEW r \in Requests, PrefixRequest(r)
  PROVE  TypeOK'
<1> USE HandlerTypes DEF prefixVars, linkVars
<1>r. req[r] \in Handler
  BY DEF TypeOK
<1>1. ASSUME NEW o \in Orgs, NEW n \in Names, PrefixCount(r, o, n)
      PROVE  TypeOK'
  <2>1. req' \in [Requests -> Handler]
    BY <1>1 DEF PrefixCount, Steps
  <2> QED BY <1>1, <2>1 DEF PrefixCount, TypeOK
<1>2. CASE PrefixLookup(r)
  <2>1. req' \in [Requests -> Handler]
    BY <1>2 DEF PrefixLookup, Steps, Check
  <2> QED BY <1>2, <2>1 DEF PrefixLookup, TypeOK
<1>3. CASE PrefixCheckCode(r)
  <2>1. req' \in [Requests -> Handler]
    BY <1>3 DEF PrefixCheckCode, Steps, Check
  <2> QED BY <1>3, <2>1 DEF PrefixCheckCode, NoteRace, TypeOK
<1>4. CASE PrefixInsert(r)
  <2>1. req' \in [Requests -> Handler]
    BY <1>4 DEF PrefixInsert
  <2>2. status' \in [PrefixIds -> RowStatuses \cup {"UNUSED", "DELETED"}]
    BY <1>4 DEF PrefixInsert, TypeOK, RowStatuses, InitialStatus
  <2>3. /\ owner' \in [PrefixIds -> Orgs \cup {None}]
        /\ value' \in [PrefixIds -> Names \cup {None}]
    BY <1>4, <1>r DEF PrefixInsert, TypeOK, Handler
  <2> QED BY <1>4, <2>1, <2>2, <2>3 DEF PrefixInsert, TypeOK
<1>5. ASSUME NEW o \in Orgs, NEW p \in PrefixIds, PrimaryRead(r, o, p) \/ DeleteRead(r, o, p)
      PROVE  TypeOK'
  <2>1. req' \in [Requests -> Handler]
    BY <1>5 DEF PrimaryRead, DeleteRead, Steps
  <2> QED BY <1>5, <2>1 DEF PrimaryRead, DeleteRead, TypeOK
<1>6. CASE PrimarySwap(r)
  <2>1. req' \in [Requests -> Handler]
    BY <1>6 DEF PrimarySwap
  <2>2. primary' \in [PrefixIds -> BOOLEAN]
    BY <1>6 DEF PrimarySwap, TypeOK
  <2> QED BY <1>6, <2>1, <2>2 DEF PrimarySwap, TypeOK
<1>7. CASE DeleteWrite(r)
  <2>1. req' \in [Requests -> Handler]
    BY <1>7 DEF DeleteWrite
  <2>2. /\ status' \in [PrefixIds -> RowStatuses \cup {"UNUSED", "DELETED"}]
        /\ primary' \in [PrefixIds -> BOOLEAN]
    BY <1>7 DEF DeleteWrite, Remove, TypeOK
  <2> QED BY <1>7, <2>1, <2>2 DEF DeleteWrite, TypeOK
<1> QED BY <1>1, <1>2, <1>3, <1>4, <1>5, <1>6, <1>7 DEF PrefixRequest

\* The statements of a request for a short code keep the types.
LEMMA CodeRequestTypes ==
  ASSUME TypeOK, NEW r \in Requests, CodeRequest(r)
  PROVE  TypeOK'
<1> USE HandlerTypes DEF prefixVars, linkVars
<1>r. req[r] \in Handler
  BY DEF TypeOK
<1>1. ASSUME NEW o \in Orgs, NEW n \in Names, AliasCheckHeld(r, o, n)
      PROVE  TypeOK'
  <2>1. req' \in [Requests -> Handler]
    BY <1>1 DEF AliasCheckHeld, Steps
  <2> QED BY <1>1, <2>1 DEF AliasCheckHeld, NoteRace, TypeOK
<1>2. CASE AliasCheckCode(r)
  <2>1. req' \in [Requests -> Handler]
    BY <1>2 DEF AliasCheckCode, Steps, Check
  <2> QED BY <1>2, <2>1 DEF AliasCheckCode, TypeOK
<1>3. CASE LinkInsert(r)
  <2>1. req' \in [Requests -> Handler]
    BY <1>3 DEF LinkInsert
  <2>2. /\ code' \in [Links -> Names \cup {None}]
        /\ org' \in [Links -> Orgs \cup {None}]
    BY <1>3, <1>r DEF LinkInsert, TypeOK, Handler
  <2> QED BY <1>3, <2>1, <2>2 DEF LinkInsert, TypeOK
<1>4. ASSUME NEW o \in Orgs, GenerateBegin(r, o)
      PROVE  TypeOK'
  <2>1. req' \in [Requests -> Handler]
    BY <1>4 DEF GenerateBegin, Begin, Steps, Handler, TypeOK
  <2> QED BY <1>4, <2>1 DEF GenerateBegin, TypeOK
<1>5. ASSUME NEW n \in Names, DrawCheckHeld(r, n)
      PROVE  TypeOK'
  <2>1. [req[r] EXCEPT !.at = "drawnNotHeld", !.name = n] \in Handler
    BY <1>r DEF Handler, Steps
  <2>2. CASE req' = [req EXCEPT ![r].at = "drawnNotHeld", ![r].name = n]
    <3>1. req' = [req EXCEPT ![r] = [req[r] EXCEPT !.at = "drawnNotHeld", !.name = n]]
      BY <1>r, <2>2 DEF TypeOK, Handler
    <3> QED BY <1>5, <2>1, <3>1 DEF DrawCheckHeld, NoteRace, TypeOK
  <2>3. CASE Redraw(r)
    <3>1. req' \in [Requests -> Handler]
      BY <2>3
    <3> QED BY <1>5, <3>1 DEF DrawCheckHeld, NoteRace, TypeOK
  <2> QED BY <1>5, <2>2, <2>3 DEF DrawCheckHeld
<1>6. CASE DrawCheckCode(r)
  <2>0. 0 \in 0 .. MaxAttempts - 1
    BY NamespaceAssumption
  <2>1. [req[r] EXCEPT !.at = "linkReady", !.tries = 0] \in Handler
    BY <1>r, <2>0 DEF Handler, Steps
  <2>2. CASE req' = [req EXCEPT ![r].at = "linkReady", ![r].tries = 0]
    <3>1. req' = [req EXCEPT ![r] = [req[r] EXCEPT !.at = "linkReady", !.tries = 0]]
      BY <1>r, <2>2 DEF TypeOK, Handler
    <3> QED BY <1>6, <2>1, <3>1 DEF DrawCheckCode, TypeOK
  <2>3. CASE Redraw(r)
    <3>1. req' \in [Requests -> Handler]
      BY <2>3
    <3> QED BY <1>6, <3>1 DEF DrawCheckCode, TypeOK
  <2> QED BY <1>6, <2>2, <2>3 DEF DrawCheckCode
<1>7. ASSUME NEW l \in Links, NEW n \in Names, RenameCheckHeld(r, l, n)
      PROVE  TypeOK'
  <2>1. req' \in [Requests -> Handler]
    BY <1>7 DEF RenameCheckHeld, Begin, Steps, Handler, TypeOK, NamespaceAssumption
  <2> QED BY <1>7, <2>1 DEF RenameCheckHeld, NoteRace, TypeOK
<1>8. CASE RenameCheckCode(r)
  <2>1. req' \in [Requests -> Handler]
    BY <1>8 DEF RenameCheckCode, Steps, Check
  <2> QED BY <1>8, <2>1 DEF RenameCheckCode, TypeOK
<1>9. CASE RenameWrite(r)
  <2>1. req' \in [Requests -> Handler]
    BY <1>9 DEF RenameWrite
  <2>2. code' \in [Links -> Names \cup {None}]
    BY <1>9, <1>r DEF RenameWrite, TypeOK, Handler
  <2> QED BY <1>9, <2>1, <2>2 DEF RenameWrite, TypeOK
<1>10. CASE DrawReserved(r)
  <2>1. req' \in [Requests -> Handler]
    BY <1>10 DEF DrawReserved
  <2> QED BY <1>10, <2>1 DEF DrawReserved, TypeOK
<1> QED
  BY <1>1, <1>2, <1>3, <1>4, <1>5, <1>6, <1>7, <1>8, <1>9, <1>10 DEF CodeRequest

\* What the operator decides keeps the types.
LEMMA OperatorTypes ==
  ASSUME TypeOK, NEW p \in PrefixIds, Operator(p)
  PROVE  TypeOK'
<1>1. /\ status' \in [PrefixIds -> RowStatuses \cup {"UNUSED", "DELETED"}]
      /\ primary' \in [PrefixIds -> BOOLEAN]
  BY DEF Operator, ApprovePrefix, RejectPrefix, RevokePrefix, ReleasePrefix, Decide, Remove,
         TypeOK, RowStatuses
<1>2. UNCHANGED <<owner, value, linkVars, req, visit, raced>>
  BY DEF Operator, ApprovePrefix, RejectPrefix, RevokePrefix, ReleasePrefix, Decide
<1> QED BY <1>1, <1>2 DEF TypeOK, linkVars

\* The statements of a visit keep the types.
LEMMA ResolutionTypes ==
  ASSUME TypeOK, NEW v \in Visitors, Resolution(v)
  PROVE  TypeOK'
<1>1. UNCHANGED <<prefixVars, linkVars, req, raced>>
  BY DEF Resolution, ScopeByPrefix, ScopeRoot, Serve, Leave
<1>2. NoVisit \in Visit
  BY DEF NoVisit, Visit
<1>3. visit[v] \in Visit
  BY DEF TypeOK
<1>4. visit' \in [Visitors -> Visit]
  <2>1. ASSUME NEW n \in Names, ScopeByPrefix(v, n)
        PROVE  visit' \in [Visitors -> Visit]
    BY <2>1 DEF ScopeByPrefix, TypeOK, Visit
  <2>2. CASE ScopeRoot(v)
    BY <2>2 DEF ScopeRoot, TypeOK, Visit, NoVisit
  <2>3. ASSUME NEW n \in Names, Serve(v, n)
        PROVE  visit' \in [Visitors -> Visit]
    <3>1. ASSUME NEW l \in Links, visit' = [visit EXCEPT ![v].at = "served", ![v].link = l]
          PROVE  visit' \in [Visitors -> Visit]
      <4>1. [visit[v] EXCEPT !.at = "served", !.link = l] \in Visit
        BY <1>3 DEF Visit
      <4>2. visit' = [visit EXCEPT ![v] = [visit[v] EXCEPT !.at = "served", !.link = l]]
        BY <1>3, <3>1 DEF TypeOK, Visit
      <4> QED BY <4>1, <4>2 DEF TypeOK
    <3>2. CASE visit' = [visit EXCEPT ![v] = NoVisit]
      BY <3>2, <1>2 DEF TypeOK
    <3> QED BY <2>3, <3>1, <3>2 DEF Serve
  <2>4. CASE Leave(v)
    BY <2>4, <1>2 DEF Leave, TypeOK
  <2> QED BY <2>1, <2>2, <2>3, <2>4 DEF Resolution
<1> QED BY <1>1, <1>4 DEF TypeOK, prefixVars, linkVars

\* Every variable stays in its domain, for any number of requests.
THEOREM TypeCorrect == Spec => []TypeOK
<1>1. Init => TypeOK
  <2> SUFFICES ASSUME Init PROVE TypeOK
    OBVIOUS
  <2>1. req \in [Requests -> Handler]
    BY NamespaceAssumption DEF Init, Idle, Handler, Steps
  <2>2. visit \in [Visitors -> Visit]
    BY DEF Init, NoVisit, Visit
  <2> QED BY <2>1, <2>2 DEF Init, TypeOK
<1>2. TypeOK /\ [Next]_vars => TypeOK'
  <2> SUFFICES ASSUME TypeOK, [Next]_vars PROVE TypeOK'
    OBVIOUS
  <2>1. ASSUME NEW r \in Requests, Abort(r)
        PROVE  TypeOK'
    BY <2>1, HandlerTypes DEF Abort, TypeOK, prefixVars, linkVars
  <2>2. CASE UNCHANGED vars
    BY <2>2 DEF TypeOK, vars, prefixVars, linkVars
  <2> QED
    BY <2>1, <2>2, PrefixRequestTypes, CodeRequestTypes, OperatorTypes, ResolutionTypes DEF Next
<1> QED BY <1>1, <1>2, PTL DEF Spec

-----------------------------------------------------------------------------
(***************************************************************************)
(* What the handlers' steps do to the request records                      *)
(***************************************************************************)

\* Only r's record changes.
OnlyChanges(r) == \A s \in Requests \ {r} : req'[s] = req[s]

\* What ending and going on change of the requests.
LEMMA HandlerSteps ==
  ASSUME TypeOK, NEW r \in Requests
  PROVE  /\ Finish(r) => OnlyChanges(r) /\ req'[r] = Idle
         /\ \A at \in Steps : Proceed(r, at) =>
              /\ OnlyChanges(r)
              /\ req'[r].at = at /\ req'[r].name = req[r].name /\ req'[r].org = req[r].org
         /\ \A at, o, n, t : Begin(r, at, o, n, t) =>
              /\ OnlyChanges(r) /\ req[r].at = "idle"
              /\ req'[r].at = at /\ req'[r].name = n /\ req'[r].org = o
         /\ Redraw(r) => OnlyChanges(r) /\ req'[r].at \in {"drawing", "idle"}
<1>0. req \in [Requests -> Handler] /\ req[r] \in Handler
  BY DEF TypeOK
<1>1. Finish(r) => OnlyChanges(r) /\ req'[r] = Idle
  BY <1>0 DEF Finish, OnlyChanges
<1>2. ASSUME NEW at \in Steps, Proceed(r, at)
      PROVE  /\ OnlyChanges(r)
             /\ req'[r].at = at /\ req'[r].name = req[r].name /\ req'[r].org = req[r].org
  BY <1>0, <1>2 DEF Proceed, OnlyChanges, Handler
<1>3. ASSUME NEW at, NEW o, NEW n, NEW t, Begin(r, at, o, n, t)
      PROVE  /\ OnlyChanges(r) /\ req[r].at = "idle"
             /\ req'[r].at = at /\ req'[r].name = n /\ req'[r].org = o
  BY <1>0, <1>3 DEF Begin, OnlyChanges
<1>4. ASSUME Redraw(r)
      PROVE  OnlyChanges(r) /\ req'[r].at \in {"drawing", "idle"}
  <2>1. CASE req[r].tries + 1 < MaxAttempts
    BY <1>0, <1>4, <2>1 DEF Redraw, OnlyChanges, Handler
  <2>2. CASE ~(req[r].tries + 1 < MaxAttempts)
    BY <1>1, <1>4, <2>2 DEF Redraw, Idle
  <2> QED BY <2>1, <2>2
<1> QED BY <1>1, <1>2, <1>3, <1>4

-----------------------------------------------------------------------------
(***************************************************************************)
(* Codes and prefixes collide only by a race                               *)
(***************************************************************************)

\* A value is on the code side from the moment a writer of it has passed IsHeld, and
\* on the prefix side from the moment one has passed CodeExists.  The invariant says
\* that a value on both sides has been claimed at once; the collision is the case in
\* which both writers are done.
CodeSide(n) == WritingCode(n) \/ CodeExists(n)
PrefixSide(n) == WritingPrefix(n) \/ Held(n)

RaceInv == \A n \in Names : CodeSide(n) /\ PrefixSide(n) => n \in raced

\* Steps after which no value is on a side it was not on before.
LEMMA NoNewSide ==
  ASSUME RaceInv,
         \A n \in Names : CodeSide(n)' => CodeSide(n),
         \A n \in Names : PrefixSide(n)' => PrefixSide(n),
         raced' = raced
  PROVE  RaceInv'
BY DEF RaceInv

\* A writer of n that has just passed IsHeld: if a writer of the prefix n is past its
\* own check, NoteRace records n.
LEMMA NewCodeWriter ==
  ASSUME TypeOK, RaceInv, NEW r \in Requests, NEW n \in Names, ~Held(n),
         OnlyChanges(r), req'[r].at \in CodeWriterSteps, req'[r].name = n,
         NoteRace, UNCHANGED <<status, value, code>>
  PROVE  RaceInv'
<1> SUFFICES ASSUME NEW m \in Names, CodeSide(m)', PrefixSide(m)'
             PROVE  m \in raced'
  BY DEF RaceInv
<1>1. raced \subseteq raced'
  BY DEF NoteRace
<1>2. Held(m)' = Held(m) /\ CodeExists(m)' = CodeExists(m)
  BY DEF Held, CodeExists
<1>3. WritingPrefix(m)' => WritingPrefix(m)
  BY DEF WritingPrefix, OnlyChanges, CodeWriterSteps
<1>4. PrefixSide(m)
  BY <1>2, <1>3 DEF PrefixSide
<1>5. CASE m = n
  <2>1. WritingCode(m)'
    BY <1>5 DEF WritingCode
  <2>2. WritingPrefix(m)'
    BY <1>5, <1>2 DEF PrefixSide
  <2> QED BY <2>1, <2>2 DEF NoteRace
<1>6. CASE m # n
  <2>1. WritingCode(m)' => WritingCode(m)
    BY <1>6 DEF WritingCode, OnlyChanges
  <2> QED BY <2>1, <1>1, <1>2, <1>4 DEF CodeSide, RaceInv
<1> QED BY <1>5, <1>6

\* Handlers' steps that leave rows and links alone and start no writer.
LEMMA QuietRequest ==
  ASSUME TypeOK, RaceInv, NEW r \in Requests, OnlyChanges(r),
         req'[r].at \in CodeWriterSteps =>
           req[r].at \in CodeWriterSteps /\ req'[r].name = req[r].name,
         req'[r].at # "prefixNoCode",
         UNCHANGED <<status, value, code, raced>>
  PROVE  RaceInv'
<1>1. ASSUME NEW n \in Names
      PROVE  /\ WritingCode(n)' => WritingCode(n)
             /\ WritingPrefix(n)' => WritingPrefix(n)
             /\ Held(n)' = Held(n) /\ CodeExists(n)' = CodeExists(n)
  BY DEF WritingCode, WritingPrefix, Held, CodeExists, OnlyChanges
<1> QED BY <1>1, NoNewSide DEF CodeSide, PrefixSide

\* The statements of a request for a prefix.
LEMMA RacePrefixRequest ==
  ASSUME TypeOK, RaceInv, NEW r \in Requests, PrefixRequest(r)
  PROVE  RaceInv'
<1> USE HandlerSteps DEF prefixVars, linkVars, Idle, CodeWriterSteps, Steps
<1>1. ASSUME NEW o \in Orgs, NEW n \in Names, PrefixCount(r, o, n)
      PROVE  RaceInv'
  BY <1>1, QuietRequest DEF PrefixCount
<1>2. CASE PrefixLookup(r)
  BY <1>2, QuietRequest DEF PrefixLookup, Check
<1>3. CASE PrefixCheckCode(r)
  <2>1. /\ OnlyChanges(r) /\ raced \subseteq raced'
        /\ \/ ~CodeExists(req[r].name) /\ req'[r].at = "prefixNoCode" /\ req'[r].name = req[r].name
           \/ req'[r].at = "idle"
    BY <1>3 DEF PrefixCheckCode, Check, NoteRace
  <2>2. ASSUME NEW m \in Names
        PROVE  /\ Held(m)' = Held(m) /\ CodeExists(m)' = CodeExists(m)
               /\ WritingCode(m)' => WritingCode(m)
               /\ WritingPrefix(m)' /\ ~WritingPrefix(m) => req[r].name = m /\ ~CodeExists(m)
    BY <1>3, <2>1 DEF PrefixCheckCode, Held, CodeExists, WritingCode, WritingPrefix, OnlyChanges
  <2>3. SUFFICES ASSUME NEW m \in Names, CodeSide(m)', PrefixSide(m)'
                 PROVE  m \in raced'
    BY DEF RaceInv
  <2>4. CASE WritingPrefix(m)' /\ ~WritingPrefix(m)
    <3>1. WritingCode(m)'
      BY <2>2, <2>3, <2>4 DEF CodeSide
    <3> QED BY <3>1, <2>4, <1>3 DEF PrefixCheckCode, NoteRace
  <2>5. CASE ~(WritingPrefix(m)' /\ ~WritingPrefix(m))
    BY <2>1, <2>2, <2>3, <2>5 DEF CodeSide, PrefixSide, RaceInv
  <2> QED BY <2>4, <2>5
<1>4. CASE PrefixInsert(r)
  <2>1. OnlyChanges(r) /\ req'[r].at = "idle" /\ raced' = raced /\ code' = code
    BY <1>4 DEF PrefixInsert
  <2>2. ASSUME NEW m \in Names
        PROVE  CodeSide(m)' => CodeSide(m)
    BY <2>1 DEF CodeSide, WritingCode, CodeExists, OnlyChanges
  <2>3. ASSUME NEW m \in Names, PrefixSide(m)'
        PROVE  PrefixSide(m)
    <3>1. CASE WritingPrefix(m)'
      BY <2>1, <3>1 DEF PrefixSide, WritingPrefix, OnlyChanges
    <3>2. CASE m = req[r].name
      BY <1>4, <3>2 DEF PrefixInsert, PrefixSide, WritingPrefix
    <3>3. CASE Held(m)' /\ m # req[r].name
      <4>1. PICK q \in PrefixIds : status'[q] \in Holding /\ value'[q] = m
        BY <3>3 DEF Held
      <4>2. status[q] \in Holding /\ value[q] = m
        BY <1>4, <3>3, <4>1 DEF PrefixInsert, Holding, TypeOK
      <4> QED BY <4>2 DEF Held, PrefixSide
    <3> QED BY <2>3, <3>1, <3>2, <3>3 DEF PrefixSide
  <2> QED BY <2>1, <2>2, <2>3, NoNewSide
<1>5. ASSUME NEW o \in Orgs, NEW p \in PrefixIds, PrimaryRead(r, o, p) \/ DeleteRead(r, o, p)
      PROVE  RaceInv'
  BY <1>5, QuietRequest DEF PrimaryRead, DeleteRead
<1>6. CASE PrimarySwap(r)
  BY <1>6, QuietRequest DEF PrimarySwap
<1>7. CASE DeleteWrite(r)
  <2>1. OnlyChanges(r) /\ req'[r].at = "idle" /\ raced' = raced /\ code' = code
    BY <1>7 DEF DeleteWrite
  <2>2. ASSUME NEW m \in Names
        PROVE  /\ CodeSide(m)' => CodeSide(m)
               /\ WritingPrefix(m)' => WritingPrefix(m)
    BY <2>1 DEF CodeSide, WritingCode, CodeExists, WritingPrefix, OnlyChanges
  <2>3. ASSUME NEW m \in Names, Held(m)'
        PROVE  Held(m)
    BY <1>7, <2>3 DEF DeleteWrite, Remove, Held, Holding, TypeOK
  <2> QED BY <2>1, <2>2, <2>3, NoNewSide DEF PrefixSide
<1> QED BY <1>1, <1>2, <1>3, <1>4, <1>5, <1>6, <1>7 DEF PrefixRequest

\* The statements of a request for a short code.
LEMMA RaceCodeRequest ==
  ASSUME TypeOK, RaceInv, NEW r \in Requests, CodeRequest(r)
  PROVE  RaceInv'
<1> USE HandlerSteps DEF prefixVars, linkVars, Idle, CodeWriterSteps, Steps
<1>r. req \in [Requests -> Handler] /\ req[r] \in Handler
  BY DEF TypeOK
<1>1. ASSUME NEW o \in Orgs, NEW n \in Names, AliasCheckHeld(r, o, n)
      PROVE  RaceInv'
  BY <1>1, NewCodeWriter DEF AliasCheckHeld
<1>2. CASE AliasCheckCode(r)
  BY <1>2, QuietRequest DEF AliasCheckCode, Check
<1>3. CASE LinkInsert(r)
  <2>1. OnlyChanges(r) /\ req'[r].at = "idle" /\ raced' = raced /\ UNCHANGED <<status, value>>
    BY <1>3 DEF LinkInsert
  <2>2. ASSUME NEW m \in Names
        PROVE  PrefixSide(m)' => PrefixSide(m)
    BY <2>1 DEF PrefixSide, WritingPrefix, Held, OnlyChanges
  <2>3. ASSUME NEW m \in Names, CodeSide(m)'
        PROVE  CodeSide(m)
    <3>1. WritingCode(m)' => WritingCode(m)
      BY <2>1 DEF WritingCode, OnlyChanges
    <3>2. CodeExists(m)' => CodeExists(m) \/ m = req[r].name
      BY <1>3 DEF LinkInsert, CodeExists, TypeOK
    <3>3. m = req[r].name => WritingCode(m)
      BY <1>3 DEF LinkInsert, WritingCode
    <3> QED BY <2>3, <3>1, <3>2, <3>3 DEF CodeSide
  <2> QED BY <2>1, <2>2, <2>3, NoNewSide
<1>4. ASSUME NEW o \in Orgs, GenerateBegin(r, o)
      PROVE  RaceInv'
  BY <1>4, QuietRequest DEF GenerateBegin
<1>5. ASSUME NEW n \in Names, DrawCheckHeld(r, n)
      PROVE  RaceInv'
  <2>1. CASE ~Held(n) /\ req' = [req EXCEPT ![r].at = "drawnNotHeld", ![r].name = n]
    <3>1. OnlyChanges(r) /\ req'[r].at = "drawnNotHeld" /\ req'[r].name = n
      BY <1>r, <2>1 DEF OnlyChanges, Handler
    <3> QED BY <1>5, <2>1, <3>1, NewCodeWriter DEF DrawCheckHeld
  <2>2. CASE Redraw(r)
    <3>1. OnlyChanges(r) /\ req'[r].at \in {"drawing", "idle"} /\ raced \subseteq raced'
      BY <1>5, <2>2 DEF DrawCheckHeld, NoteRace
    <3>2. ASSUME NEW m \in Names
          PROVE  /\ WritingCode(m)' => WritingCode(m)
                 /\ WritingPrefix(m)' => WritingPrefix(m)
                 /\ Held(m)' = Held(m) /\ CodeExists(m)' = CodeExists(m)
      BY <1>5, <3>1 DEF DrawCheckHeld, WritingCode, WritingPrefix, Held, CodeExists, OnlyChanges
    <3> QED BY <3>1, <3>2 DEF CodeSide, PrefixSide, RaceInv
  <2> QED BY <1>5, <2>1, <2>2 DEF DrawCheckHeld
<1>6. CASE DrawCheckCode(r)
  <2>1. CASE req' = [req EXCEPT ![r].at = "linkReady", ![r].tries = 0]
    <3>1. OnlyChanges(r) /\ req'[r].at = "linkReady" /\ req'[r].name = req[r].name
      BY <1>r, <2>1 DEF OnlyChanges, Handler
    <3> QED BY <1>6, <3>1, QuietRequest DEF DrawCheckCode
  <2>2. CASE Redraw(r)
    BY <1>6, <2>2, QuietRequest DEF DrawCheckCode
  <2> QED BY <1>6, <2>1, <2>2 DEF DrawCheckCode
<1>7. ASSUME NEW l \in Links, NEW n \in Names, RenameCheckHeld(r, l, n)
      PROVE  RaceInv'
  BY <1>7, NewCodeWriter DEF RenameCheckHeld
<1>8. CASE RenameCheckCode(r)
  BY <1>8, QuietRequest DEF RenameCheckCode, Check
<1>9. CASE RenameWrite(r)
  <2>1. OnlyChanges(r) /\ req'[r].at = "idle" /\ raced' = raced /\ UNCHANGED <<status, value>>
    BY <1>9 DEF RenameWrite
  <2>2. ASSUME NEW m \in Names
        PROVE  PrefixSide(m)' => PrefixSide(m)
    BY <2>1 DEF PrefixSide, WritingPrefix, Held, OnlyChanges
  <2>3. ASSUME NEW m \in Names, CodeSide(m)'
        PROVE  CodeSide(m)
    <3>1. WritingCode(m)' => WritingCode(m)
      BY <2>1 DEF WritingCode, OnlyChanges
    <3>2. CodeExists(m)' => CodeExists(m) \/ m = req[r].name
      BY <1>9 DEF RenameWrite, CodeExists, TypeOK
    <3>3. m = req[r].name => WritingCode(m)
      BY <1>9 DEF RenameWrite, WritingCode
    <3> QED BY <2>3, <3>1, <3>2, <3>3 DEF CodeSide
  <2> QED BY <2>1, <2>2, <2>3, NoNewSide
<1>10. CASE DrawReserved(r)
  BY <1>10, QuietRequest DEF DrawReserved
<1> QED
  BY <1>1, <1>2, <1>3, <1>4, <1>5, <1>6, <1>7, <1>8, <1>9, <1>10 DEF CodeRequest

\* A code and a held prefix have the same value only if two requests claimed it at once.
THEOREM CollisionsAreRaces == Spec => []CollisionOnlyByRace
<1>1. Init => RaceInv
  BY NamespaceAssumption
  DEF Init, RaceInv, CodeSide, WritingCode, CodeExists, CodeWriterSteps, Idle
<1>2. TypeOK /\ RaceInv /\ [Next]_vars => RaceInv'
  <2> SUFFICES ASSUME TypeOK, RaceInv, [Next]_vars PROVE RaceInv'
    OBVIOUS
  <2>1. ASSUME NEW r \in Requests, Abort(r)
        PROVE  RaceInv'
    BY <2>1, QuietRequest, HandlerSteps
    DEF Abort, prefixVars, linkVars, Idle, CodeWriterSteps
  <2>2. ASSUME NEW p \in PrefixIds, Operator(p)
        PROVE  RaceInv'
    <3>1. UNCHANGED <<req, value, code, raced>>
      BY <2>2 DEF Operator, ApprovePrefix, RejectPrefix, RevokePrefix, ReleasePrefix, Decide,
                  linkVars
    <3>2. \A q \in PrefixIds : status'[q] \in Holding => status[q] \in Holding
      BY <2>2 DEF Operator, ApprovePrefix, RejectPrefix, RevokePrefix, ReleasePrefix, Decide,
                  Remove, Holding, TypeOK
    <3>3. \A n \in Names : (CodeSide(n)' => CodeSide(n)) /\ (PrefixSide(n)' => PrefixSide(n))
      BY <3>1, <3>2 DEF CodeSide, PrefixSide, WritingCode, WritingPrefix, Held, CodeExists
    <3> QED BY <3>1, <3>3, NoNewSide
  <2>3. CASE UNCHANGED <<prefixVars, linkVars, req, raced>>
    BY <2>3 DEF RaceInv, CodeSide, PrefixSide, WritingCode, WritingPrefix, Held, CodeExists,
                prefixVars, linkVars
  <2>4. ASSUME NEW v \in Visitors, Resolution(v)
        PROVE  UNCHANGED <<prefixVars, linkVars, req, raced>>
    BY <2>4 DEF Resolution, ScopeByPrefix, ScopeRoot, Serve, Leave
  <2>5. CASE UNCHANGED vars
    BY <2>3, <2>5 DEF vars
  <2> QED
    BY <2>1, <2>2, <2>3, <2>4, <2>5, RacePrefixRequest, RaceCodeRequest DEF Next
<1>3. RaceInv => CollisionOnlyByRace
  BY DEF RaceInv, CodeSide, PrefixSide, CollisionOnlyByRace
<1> QED BY <1>1, <1>2, <1>3, TypeCorrect, PTL DEF Spec

-----------------------------------------------------------------------------
(***************************************************************************)
(* Proofs about the rows of brand_prefixes: primary flags, unique values   *)
(* and revocation.                                                         *)
(***************************************************************************)

(***************************************************************************)
(* The invariant of the rows.  UniqueValue is what the UNIQUE KEY gives    *)
(* for values that are held; TargetInv says that a SetPrimary request      *)
(* still points at a row of the org it was authorized for.                 *)
(***************************************************************************)
UniqueValue ==
  \A p, q \in PrefixIds :
    status[p] \in Holding /\ status[q] \in Holding /\ value[p] = value[q] => p = q

TargetInv ==
  \A r \in Requests :
    req[r].at = "primaryRead" =>
      /\ req[r].target \in PrefixIds
      /\ status[req[r].target] # "UNUSED"
      /\ owner[req[r].target] = req[r].org

RowInv == PrimaryIsApproved /\ OnePrimaryPerOrg /\ UniqueValue

\* The steps that leave the rows alone.
LEMMA RowsKept ==
  /\ \A r \in Requests : CodeRequest(r) \/ Abort(r) => UNCHANGED prefixVars
  /\ \A v \in Visitors : Resolution(v) => UNCHANGED prefixVars /\ req' = req
<1>1. ASSUME NEW r \in Requests, CodeRequest(r) \/ Abort(r)
      PROVE  UNCHANGED prefixVars
  BY <1>1 DEF CodeRequest, Abort, AliasCheckHeld, AliasCheckCode, LinkInsert, GenerateBegin,
              DrawReserved, DrawCheckHeld, DrawCheckCode, RenameCheckHeld, RenameCheckCode, RenameWrite
<1>2. ASSUME NEW v \in Visitors, Resolution(v)
      PROVE  UNCHANGED prefixVars /\ req' = req
  BY <1>2 DEF Resolution, ScopeByPrefix, ScopeRoot, Serve, Leave
<1> QED BY <1>1, <1>2

\* A decision of the operator moves one row, and takes its flag away.
LEMMA OperatorRows ==
  ASSUME TypeOK, NEW p \in PrefixIds, Operator(p)
  PROVE  /\ UNCHANGED <<owner, value, req>>
         /\ \A q \in PrefixIds \ {p} : status'[q] = status[q] /\ primary'[q] = primary[q]
         /\ primary'[p] = FALSE
         /\ status[p] # "UNUSED" /\ status'[p] # "UNUSED"
         /\ status'[p] \in Holding => status[p] \in Holding
         /\ status[p] = "REVOKED" => ReleasePrefix(p)
BY DEF Operator, ApprovePrefix, RejectPrefix, RevokePrefix, ReleasePrefix, Decide, Remove,
       TypeOK, Holding

\* An insert fills one unused row, and retires rejected rows of the same value.
LEMMA InsertRows ==
  ASSUME TypeOK, NEW r \in Requests, PrefixInsert(r)
  PROVE  \E p \in PrefixIds :
           /\ status[p] = "UNUSED" /\ status'[p] = InitialStatus
           /\ value'[p] = req[r].name /\ owner'[p] = req[r].org
           /\ ~Held(req[r].name)
           /\ primary' = primary
           /\ \A q \in PrefixIds \ {p} :
                /\ owner'[q] = owner[q] /\ value'[q] = value[q]
                /\ \/ status'[q] = status[q]
                   \/ status[q] = "REJECTED" /\ status'[q] = "DELETED"
<1>1. PICK p \in PrefixIds :
        /\ status[p] = "UNUSED"
        /\ status' = [q \in PrefixIds |->
             IF q = p THEN InitialStatus
             ELSE IF status[q] = "REJECTED" /\ value[q] = req[r].name THEN "DELETED"
             ELSE status[q]]
        /\ owner' = [owner EXCEPT ![p] = req[r].org]
        /\ value' = [value EXCEPT ![p] = req[r].name]
  BY DEF PrefixInsert
<1> QED
  BY <1>1 DEF PrefixInsert, TypeOK

\* A withdrawal deletes one row that is not revoked, or changes no row.
LEMMA DeleteRows ==
  ASSUME TypeOK, NEW r \in Requests, DeleteWrite(r)
  PROVE  /\ UNCHANGED <<owner, value>>
         /\ \/ UNCHANGED <<status, primary>>
            \/ \E p \in PrefixIds :
                 /\ status[p] \in RowStatuses /\ status[p] # "REVOKED"
                 /\ status'[p] = "DELETED" /\ primary'[p] = FALSE
                 /\ \A q \in PrefixIds \ {p} :
                      status'[q] = status[q] /\ primary'[q] = primary[q]
<1>1. CASE Deletable(req[r].target) /\ Remove(req[r].target)
  <2>1. CASE req[r].target \in PrefixIds
    BY <1>1, <2>1 DEF DeleteWrite, Deletable, Stored, Remove, TypeOK
  <2>2. CASE req[r].target \notin PrefixIds
    <3>1. /\ status' = [q \in PrefixIds |-> status[q]]
          /\ primary' = [q \in PrefixIds |-> primary[q]]
      BY <1>1, <2>2 DEF Remove, TypeOK
    <3>2. UNCHANGED <<status, primary>>
      BY <3>1 DEF TypeOK
    <3> QED BY <3>2 DEF DeleteWrite
  <2> QED BY <2>1, <2>2
<1>2. CASE UNCHANGED <<status, primary>>
  BY <1>2 DEF DeleteWrite
<1> QED BY <1>1, <1>2 DEF DeleteWrite

\* The swap flags its target, if that is approved, and no other row of the org.
LEMMA SwapRows ==
  ASSUME TypeOK, NEW r \in Requests, PrimarySwap(r)
  PROVE  /\ UNCHANGED <<status, owner, value>>
         /\ \/ primary' = primary
            \/ /\ status[req[r].target] = "APPROVED"
               /\ \A q \in PrefixIds :
                    primary'[q] = IF owner[q] = req[r].org THEN q = req[r].target ELSE primary[q]
BY DEF PrimarySwap, TypeOK

\* A request for a code never stands at a step of a prefix request.
LEMMA CodeRequestLeaves ==
  ASSUME TypeOK, NEW r \in Requests, CodeRequest(r) \/ Abort(r)
  PROVE  /\ OnlyChanges(r)
         /\ req'[r].at \notin {"prefixCounted", "prefixUnclaimed", "prefixNoCode", "primaryRead"}
<1> USE HandlerSteps DEF Idle, Steps
<1>1. ASSUME NEW n \in Names, DrawCheckHeld(r, n)
      PROVE  /\ OnlyChanges(r)
             /\ req'[r].at \notin {"prefixCounted", "prefixUnclaimed", "prefixNoCode", "primaryRead"}
  <2>1. CASE Redraw(r)
    BY <2>1
  <2>2. CASE req' = [req EXCEPT ![r].at = "drawnNotHeld", ![r].name = n]
    BY <2>2 DEF TypeOK, Handler, OnlyChanges
  <2> QED BY <1>1, <2>1, <2>2 DEF DrawCheckHeld
<1>2. CASE DrawCheckCode(r)
  <2>1. CASE Redraw(r)
    BY <2>1
  <2>2. CASE req' = [req EXCEPT ![r].at = "linkReady", ![r].tries = 0]
    BY <2>2 DEF TypeOK, Handler, OnlyChanges
  <2> QED BY <1>2, <2>1, <2>2 DEF DrawCheckCode
<1>3. ASSUME CodeRequest(r), ~\E n \in Names : DrawCheckHeld(r, n), ~DrawCheckCode(r)
      PROVE  /\ OnlyChanges(r)
             /\ req'[r].at \notin {"prefixCounted", "prefixUnclaimed", "prefixNoCode", "primaryRead"}
  BY <1>3 DEF CodeRequest, DrawReserved, AliasCheckHeld, AliasCheckCode, Check, LinkInsert, GenerateBegin,
              RenameCheckHeld, RenameCheckCode, RenameWrite
<1> QED BY <1>1, <1>2, <1>3 DEF Abort

\* Every step keeps the primaries and the uniqueness of the held values.
LEMMA RowsInductive ==
  TypeOK /\ RowInv /\ [Next]_vars => RowInv'
<1> SUFFICES ASSUME TypeOK, RowInv, [Next]_vars PROVE RowInv'
  OBVIOUS
<1> USE DEF RowInv, PrimaryIsApproved, OnePrimaryPerOrg, UniqueValue
<1>1. CASE UNCHANGED prefixVars
  BY <1>1 DEF prefixVars
<1>2. ASSUME NEW r \in Requests, PrefixRequest(r)
      PROVE  RowInv'
  <2>1. CASE PrefixInsert(r)
    <3>1. PICK p \in PrefixIds :
            /\ status[p] = "UNUSED" /\ status'[p] = InitialStatus
            /\ value'[p] = req[r].name /\ owner'[p] = req[r].org
            /\ ~Held(req[r].name)
            /\ primary' = primary
            /\ \A q \in PrefixIds \ {p} :
                 /\ owner'[q] = owner[q] /\ value'[q] = value[q]
                 /\ \/ status'[q] = status[q]
                    \/ status[q] = "REJECTED" /\ status'[q] = "DELETED"
      BY <2>1, InsertRows
    <3>2. ~primary[p]
      BY <3>1
    <3>3. PrimaryIsApproved'
      BY <3>1, <3>2
    <3>4. OnePrimaryPerOrg'
      BY <3>1, <3>2
    <3>5. \A q \in PrefixIds \ {p} : status'[q] \in Holding => status[q] \in Holding /\ value'[q] # value'[p]
      BY <3>1 DEF Held, Holding
    <3>6. UniqueValue'
      BY <3>1, <3>5
    <3> QED BY <3>3, <3>4, <3>6
  <2>2. CASE PrimarySwap(r)
    BY <2>2, SwapRows
  <2>3. CASE DeleteWrite(r)
    <3>1. CASE UNCHANGED <<status, primary>>
      BY <2>3, <3>1, DeleteRows, <1>1 DEF prefixVars
    <3>2. ASSUME NEW p \in PrefixIds, status'[p] = "DELETED", primary'[p] = FALSE,
                 \A q \in PrefixIds \ {p} : status'[q] = status[q] /\ primary'[q] = primary[q]
          PROVE  RowInv'
      <4>1. owner' = owner /\ value' = value
        BY <2>3, DeleteRows
      <4>2. PrimaryIsApproved' /\ OnePrimaryPerOrg'
        BY <3>2, <4>1
      <4>3. UniqueValue'
        BY <3>2, <4>1 DEF Holding
      <4> QED BY <4>2, <4>3
    <3> QED BY <2>3, <3>1, <3>2, DeleteRows
  <2>4. ASSUME ~PrefixInsert(r), ~PrimarySwap(r), ~DeleteWrite(r)
        PROVE  UNCHANGED prefixVars
    BY <1>2, <2>4 DEF PrefixRequest, PrefixCount, PrefixLookup, PrefixCheckCode, PrimaryRead, DeleteRead
  <2> QED BY <2>1, <2>2, <2>3, <2>4, <1>1
<1>3. ASSUME NEW p \in PrefixIds, Operator(p)
      PROVE  RowInv'
  BY <1>3, OperatorRows
<1>4. CASE UNCHANGED vars
  BY <1>1, <1>4 DEF vars
<1> QED BY <1>1, <1>2, <1>3, <1>4, RowsKept DEF Next

\* Primaries are approved, one per org, and a held value has one row.
LEMMA RowInvHolds == Spec => []RowInv
<1>1. Init => RowInv
  BY DEF Init, RowInv, PrimaryIsApproved, OnePrimaryPerOrg, UniqueValue, Holding
<1> QED BY <1>1, RowsInductive, TypeCorrect, PTL DEF Spec

\* However SetPrimary and the operator interleave, a primary prefix resolves.
THEOREM PrimariesAreApproved == Spec => []PrimaryIsApproved
<1>1. RowInv => PrimaryIsApproved
  BY DEF RowInv
<1> QED BY <1>1, RowInvHolds, PTL

\* Any number of concurrent SetPrimary requests leave an org one primary at most.
THEOREM PrimariesAreUnique == Spec => []OnePrimaryPerOrg
<1>1. RowInv => OnePrimaryPerOrg
  BY DEF RowInv
<1> QED BY <1>1, RowInvHolds, PTL

\* An org displays its links under one prefix at most, and one that resolves.
THEOREM PrimariesSound == Spec => []PrimariesAreSound
<1>1. PrimaryIsApproved /\ OnePrimaryPerOrg => PrimariesAreSound
  BY DEF PrimariesAreSound
<1> QED BY <1>1, PrimariesAreApproved, PrimariesAreUnique, PTL

\* Only the operator's release ends a revocation.
THEOREM RevocationsStand == Spec => RevokedUntilReleased
<1>1. ASSUME TypeOK, [Next]_vars, NEW p \in PrefixIds,
             status[p] = "REVOKED", status'[p] # "REVOKED"
      PROVE  ReleasePrefix(p)
  <2>1. ASSUME UNCHANGED prefixVars
        PROVE  FALSE
    BY <1>1, <2>1 DEF prefixVars
  <2>2. ASSUME NEW r \in Requests, PrefixRequest(r)
        PROVE  FALSE
    <3>1. CASE PrefixInsert(r)
      BY <1>1, <3>1, InsertRows
    <3>2. CASE DeleteWrite(r)
      BY <1>1, <3>2, DeleteRows
    <3>3. ASSUME ~PrefixInsert(r), ~DeleteWrite(r)
          PROVE  status' = status
      BY <2>2, <3>3 DEF PrefixRequest, PrefixCount, PrefixLookup, PrefixCheckCode,
                        PrimaryRead, PrimarySwap, DeleteRead, prefixVars
    <3> QED BY <1>1, <3>1, <3>2, <3>3
  <2>3. ASSUME NEW q \in PrefixIds, Operator(q)
        PROVE  ReleasePrefix(p)
    <3>1. p = q
      BY <1>1, <2>3, OperatorRows
    <3> QED BY <1>1, <2>3, <3>1, OperatorRows
  <2> QED BY <1>1, <2>1, <2>2, <2>3, RowsKept DEF Next, vars
<1>2. TypeOK /\ [Next]_vars =>
        [\A p \in PrefixIds :
           status[p] = "REVOKED" /\ status'[p] # "REVOKED" => ReleasePrefix(p)]_vars
  BY <1>1
<1> QED BY <1>2, TypeCorrect, PTL DEF Spec, RevokedUntilReleased

-----------------------------------------------------------------------------
(***************************************************************************)
(* A primary prefix is replaced, never lost                                *)
(***************************************************************************)
\* A row that has been inserted stays inserted, and keeps its org.
LEMMA UsedRowsStay ==
  ASSUME TypeOK, [Next]_vars, NEW p \in PrefixIds, status[p] # "UNUSED"
  PROVE  status'[p] # "UNUSED" /\ owner'[p] = owner[p]
<1>1. CASE UNCHANGED prefixVars
  BY <1>1 DEF prefixVars
<1>2. ASSUME NEW r \in Requests, PrefixRequest(r)
      PROVE  status'[p] # "UNUSED" /\ owner'[p] = owner[p]
  <2>1. CASE PrefixInsert(r)
    BY <2>1, InsertRows
  <2>2. CASE DeleteWrite(r)
    BY <2>2, DeleteRows
  <2>3. ASSUME ~PrefixInsert(r), ~DeleteWrite(r)
        PROVE  UNCHANGED <<status, owner>>
    BY <1>2, <2>3 DEF PrefixRequest, PrefixCount, PrefixLookup, PrefixCheckCode,
                      PrimaryRead, PrimarySwap, DeleteRead, prefixVars
  <2> QED BY <2>1, <2>2, <2>3
<1>3. ASSUME NEW q \in PrefixIds, Operator(q)
      PROVE  status'[p] # "UNUSED" /\ owner'[p] = owner[p]
  BY <1>3, OperatorRows
<1> QED BY <1>1, <1>2, <1>3, RowsKept DEF Next, vars

\* Every step keeps the row that a request is about to make primary.
LEMMA TargetsInductive ==
  TypeOK /\ TargetInv /\ [Next]_vars => TargetInv'
<1> SUFFICES ASSUME TypeOK, TargetInv, [Next]_vars, NEW s \in Requests,
                    req'[s].at = "primaryRead"
             PROVE  /\ req'[s].target \in PrefixIds
                    /\ status'[req'[s].target] # "UNUSED"
                    /\ owner'[req'[s].target] = req'[s].org
  BY DEF TargetInv
<1> USE HandlerSteps DEF TargetInv, Idle
<1>1. CASE req'[s] = req[s]
  <2> QED BY <1>1, UsedRowsStay
<1>2. CASE req'[s] # req[s]
  <2>1. PICK r \in Requests : PrefixRequest(r) \/ CodeRequest(r) \/ Abort(r)
    BY <1>2, OperatorRows, RowsKept DEF Next, vars
  <2>2. ASSUME NEW o \in Orgs, NEW p \in PrefixIds, PrimaryRead(r, o, p)
        PROVE  /\ req'[s].target \in PrefixIds
               /\ status'[req'[s].target] # "UNUSED"
               /\ owner'[req'[s].target] = req'[s].org
    <3>1. s = r
      BY <1>2, <2>2 DEF PrimaryRead, OnlyChanges
    <3>2. req'[s].target = p /\ req'[s].org = o
      BY <2>2, <3>1 DEF PrimaryRead, Begin, TypeOK
    <3> QED BY <2>2, <3>2 DEF PrimaryRead, prefixVars
  <2>3. ASSUME ~\E o \in Orgs, p \in PrefixIds : PrimaryRead(r, o, p)
        PROVE  OnlyChanges(r) /\ req'[r].at # "primaryRead"
    <3> USE DEF Steps
    <3>1. CASE PrefixRequest(r)
      BY <2>3, <3>1 DEF PrefixRequest, PrefixCount, PrefixLookup, PrefixCheckCode, Check,
                        PrefixInsert, PrimarySwap, DeleteRead, DeleteWrite
    <3>2. CASE CodeRequest(r) \/ Abort(r)
      BY <3>2, CodeRequestLeaves
    <3> QED BY <2>1, <3>1, <3>2
  <2> QED BY <1>2, <2>2, <2>3 DEF OnlyChanges
<1> QED BY <1>1, <1>2

\* A request is about to make primary a row of its own org.
LEMMA TargetInvHolds == Spec => []TargetInv
<1>1. Init => TargetInv
  BY DEF Init, TargetInv, Idle
<1> QED BY <1>1, TargetsInductive, TypeCorrect, PTL DEF Spec

\* A SetPrimary that fails, or that meets a revocation, keeps the old primary.
THEOREM PrimariesAreKept == Spec => PrimaryIsKept
<1>1. ASSUME TypeOK, TargetInv, RowInv, RowInv', [Next]_vars, NEW p \in PrefixIds,
             primary[p], ~primary'[p], status'[p] = "APPROVED"
      PROVE  \E q \in PrefixIds : primary'[q] /\ owner'[q] = owner[p]
  <2>1. ASSUME UNCHANGED prefixVars
        PROVE  FALSE
    BY <1>1, <2>1 DEF prefixVars
  <2>2. ASSUME NEW r \in Requests, PrefixRequest(r)
        PROVE  \E q \in PrefixIds : primary'[q] /\ owner'[q] = owner[p]
    <3>1. CASE PrimarySwap(r)
      <4>1. req[r].at = "primaryRead"
        BY <3>1 DEF PrimarySwap
      <4>2. owner[p] = req[r].org
        BY <1>1, <3>1, SwapRows
      <4>3. primary'[req[r].target] /\ owner'[req[r].target] = owner[p]
        BY <1>1, <3>1, <4>1, <4>2, SwapRows DEF TargetInv
      <4> QED BY <1>1, <4>1, <4>3 DEF TargetInv
    <3>2. CASE PrefixInsert(r)
      BY <1>1, <3>2, InsertRows
    <3>3. CASE DeleteWrite(r)
      BY <1>1, <3>3, DeleteRows
    <3>4. ASSUME ~PrimarySwap(r), ~PrefixInsert(r), ~DeleteWrite(r)
          PROVE  UNCHANGED prefixVars
      BY <2>2, <3>4 DEF PrefixRequest, PrefixCount, PrefixLookup, PrefixCheckCode,
                        PrimaryRead, DeleteRead
    <3> QED BY <2>1, <3>1, <3>2, <3>3, <3>4
  <2>3. ASSUME NEW q \in PrefixIds, Operator(q)
        PROVE  FALSE
    <3>1. p = q
      BY <1>1, <2>3, OperatorRows
    <3>2. status[p] = "APPROVED"
      BY <1>1 DEF RowInv, PrimaryIsApproved
    <3>3. status'[p] = "REVOKED"
      BY <1>1, <2>3, <3>1, <3>2 DEF Operator, ApprovePrefix, RejectPrefix, RevokePrefix, ReleasePrefix,
                              Decide, TypeOK
    <3> QED BY <1>1, <3>3
  <2> QED BY <1>1, <2>1, <2>2, <2>3, RowsKept DEF Next, vars
<1>2. TypeOK /\ TargetInv /\ RowInv /\ RowInv' /\ [Next]_vars =>
        [\A p \in PrefixIds :
           primary[p] /\ ~primary'[p] =>
             \/ status'[p] # "APPROVED"
             \/ \E q \in PrefixIds : primary'[q] /\ owner'[q] = owner[p]]_vars
  BY <1>1
<1> QED BY <1>2, TypeCorrect, TargetInvHolds, RowInvHolds, PTL DEF Spec, PrimaryIsKept
-----------------------------------------------------------------------------
(***************************************************************************)
(* Who claims: a prefix request acts for an organization                   *)
(***************************************************************************)
ClaimantInv ==
  \A r \in Requests :
    req[r].at \in {"prefixCounted", "prefixUnclaimed", "prefixNoCode"} => req[r].org \in Orgs

\* A request that claims a prefix does so for an org.
LEMMA ClaimantInvHolds == Spec => []ClaimantInv
<1>1. Init => ClaimantInv
  BY DEF Init, ClaimantInv, Idle
<1>2. TypeOK /\ ClaimantInv /\ [Next]_vars => ClaimantInv'
  <2> SUFFICES ASSUME TypeOK, ClaimantInv, [Next]_vars PROVE ClaimantInv'
    OBVIOUS
  <2> USE HandlerSteps DEF ClaimantInv, Idle, Steps, OnlyChanges
  <2>1. CASE req' = req
    BY <2>1
  <2>2. ASSUME NEW r \in Requests, PrefixRequest(r)
        PROVE  ClaimantInv'
    BY <2>2 DEF PrefixRequest, PrefixCount, PrefixLookup, PrefixCheckCode, Check,
                PrefixInsert, PrimaryRead, PrimarySwap, DeleteRead, DeleteWrite
  <2>3. ASSUME NEW r \in Requests, CodeRequest(r) \/ Abort(r)
        PROVE  ClaimantInv'
    BY <2>3, CodeRequestLeaves
  <2> QED BY <2>1, <2>2, <2>3, OperatorRows, RowsKept DEF Next, vars
<1> QED BY <1>1, <1>2, TypeCorrect, PTL DEF Spec


-----------------------------------------------------------------------------
(***************************************************************************)
(* The cap on held prefixes.  A request that has counted the org's         *)
(* prefixes is a claim on one more: held rows and claims together stay     *)
(* below the cap and the number of requests.                               *)
(***************************************************************************)
Counted(o) ==
  {r \in Requests : req[r].at \in {"prefixCounted", "prefixUnclaimed", "prefixNoCode"}
                    /\ req[r].org = o}

CapInv ==
  \A o \in Orgs : Cardinality(HeldBy(o)) + Cardinality(Counted(o)) < Cap + Cardinality(Requests)

\* The prefixes of an org and the requests that have counted them are finitely many.
LEMMA Sizes ==
  /\ Cardinality(Requests) \in Nat
  /\ \A o : /\ IsFiniteSet(HeldBy(o)) /\ Cardinality(HeldBy(o)) \in Nat
            /\ IsFiniteSet(Counted(o)) /\ Cardinality(Counted(o)) \in Nat
            /\ Cardinality(Counted(o)) <= Cardinality(Requests)
<1>1. ASSUME NEW o
      PROVE  HeldBy(o) \subseteq PrefixIds /\ Counted(o) \subseteq Requests
  BY DEF HeldBy, Counted
<1> QED BY <1>1, NamespaceAssumption, FS_Subset, FS_CardinalityType

\* And so they are after any step.
LEMMA SizesNext ==
  \A o : /\ IsFiniteSet(HeldBy(o)') /\ Cardinality(HeldBy(o)') \in Nat
         /\ IsFiniteSet(Counted(o)') /\ Cardinality(Counted(o)') \in Nat
         /\ Cardinality(Counted(o)') <= Cardinality(Requests)
<1>1. ASSUME NEW o
      PROVE  HeldBy(o)' \subseteq PrefixIds /\ Counted(o)' \subseteq Requests
  BY DEF HeldBy, Counted
<1> QED BY <1>1, NamespaceAssumption, FS_Subset, FS_CardinalityType

\* Steps that hold no more rows and count for nobody.
LEMMA CapShrinks ==
  ASSUME CapInv, NEW o \in Orgs, HeldBy(o)' \subseteq HeldBy(o), Counted(o)' \subseteq Counted(o)
  PROVE  Cardinality(HeldBy(o)') + Cardinality(Counted(o)') < Cap + Cardinality(Requests)
<1>1. /\ Cardinality(HeldBy(o)') <= Cardinality(HeldBy(o))
      /\ Cardinality(Counted(o)') <= Cardinality(Counted(o))
  BY Sizes, FS_Subset
<1> QED BY <1>1, Sizes, SizesNext, NamespaceAssumption DEF CapInv

\* Every step keeps the prefixes of an org under its cap and the requests.
LEMMA CapInductive ==
  TypeOK /\ CapInv /\ [Next]_vars => CapInv'
<1> SUFFICES ASSUME TypeOK, CapInv, [Next]_vars, NEW o \in Orgs
             PROVE  Cardinality(HeldBy(o)') + Cardinality(Counted(o)') < Cap + Cardinality(Requests)
  BY DEF CapInv
<1> USE HandlerSteps DEF Idle, Steps
<1>1. ASSUME NEW r \in Requests, NEW n \in Names, PrefixCount(r, o, n)
      PROVE  Cardinality(HeldBy(o)') + Cardinality(Counted(o)') < Cap + Cardinality(Requests)
  <2>1. HeldBy(o)' = HeldBy(o) /\ Cardinality(HeldBy(o)) < Cap
    BY <1>1 DEF PrefixCount, prefixVars, HeldBy
  <2> QED BY <2>1, Sizes, SizesNext, NamespaceAssumption
<1>2. ASSUME NEW r \in Requests, PrefixInsert(r)
      PROVE  Cardinality(HeldBy(o)') + Cardinality(Counted(o)') < Cap + Cardinality(Requests)
  <2>1. PICK p \in PrefixIds :
          /\ status[p] = "UNUSED" /\ owner'[p] = req[r].org
          /\ \A q \in PrefixIds \ {p} :
               /\ owner'[q] = owner[q]
               /\ \/ status'[q] = status[q]
                  \/ status[q] = "REJECTED" /\ status'[q] = "DELETED"
    BY <1>2, InsertRows
  <2>2. OnlyChanges(r) /\ req'[r] = Idle
    BY <1>2 DEF PrefixInsert
  <2>3. Counted(o)' \subseteq Counted(o) \ {r}
    BY <2>2 DEF Counted, OnlyChanges
  <2>4. CASE req[r].org = o
    <3>1. r \in Counted(o)
      BY <1>2, <2>4 DEF PrefixInsert, Counted
    <3>2. HeldBy(o)' \subseteq HeldBy(o) \cup {p} /\ p \notin HeldBy(o)
      BY <2>1 DEF HeldBy, Holding
    <3>3. Cardinality(HeldBy(o)') <= Cardinality(HeldBy(o)) + 1
      <4>1. /\ IsFiniteSet(HeldBy(o) \cup {p})
            /\ Cardinality(HeldBy(o) \cup {p}) = Cardinality(HeldBy(o)) + 1
        BY <3>2, Sizes, FS_AddElement
      <4> QED BY <3>2, <4>1, FS_Subset
    <3>4. Cardinality(Counted(o)') <= Cardinality(Counted(o)) - 1
      <4>1. /\ IsFiniteSet(Counted(o) \ {r})
            /\ Cardinality(Counted(o) \ {r}) = Cardinality(Counted(o)) - 1
        BY <3>1, Sizes, FS_RemoveElement
      <4> QED BY <2>3, <4>1, FS_Subset
    <3> QED BY <3>3, <3>4, Sizes, SizesNext, NamespaceAssumption DEF CapInv
  <2>5. CASE req[r].org # o
    <3>1. HeldBy(o)' \subseteq HeldBy(o)
      BY <2>1, <2>5 DEF HeldBy, Holding
    <3> QED BY <2>3, <3>1, CapShrinks
  <2> QED BY <2>4, <2>5
<1>3. ASSUME \A r \in Requests : ~PrefixInsert(r)
      PROVE  HeldBy(o)' \subseteq HeldBy(o)
  <2>1. CASE UNCHANGED <<status, owner>>
    BY <2>1 DEF HeldBy
  <2>2. ASSUME NEW r \in Requests, DeleteWrite(r)
        PROVE  HeldBy(o)' \subseteq HeldBy(o)
    BY <2>2, DeleteRows DEF HeldBy, Holding
  <2>3. ASSUME NEW p \in PrefixIds, Operator(p)
        PROVE  HeldBy(o)' \subseteq HeldBy(o)
    BY <2>3, OperatorRows DEF HeldBy
  <2>4. ASSUME NEW r \in Requests, PrefixRequest(r), ~PrefixInsert(r), ~DeleteWrite(r)
        PROVE  UNCHANGED <<status, owner>>
    BY <2>4 DEF PrefixRequest, PrefixCount, PrefixLookup, PrefixCheckCode, PrimaryRead,
                PrimarySwap, DeleteRead, prefixVars
  <2> QED BY <1>3, <2>1, <2>2, <2>3, <2>4, RowsKept DEF Next, vars, prefixVars
<1>4. ASSUME \A r \in Requests, n \in Names : ~PrefixCount(r, o, n)
      PROVE  Counted(o)' \subseteq Counted(o)
  <2>1. CASE req' = req
    BY <2>1 DEF Counted
  <2>2. ASSUME NEW r \in Requests, OnlyChanges(r),
               \/ req'[r].at \notin {"prefixCounted", "prefixUnclaimed", "prefixNoCode"}
               \/ req'[r].org # o
               \/ /\ req[r].at \in {"prefixCounted", "prefixUnclaimed", "prefixNoCode"}
                  /\ req'[r].org = req[r].org
        PROVE  Counted(o)' \subseteq Counted(o)
    BY <2>2 DEF Counted, OnlyChanges
  <2>3. ASSUME NEW r \in Requests, PrefixRequest(r)
        PROVE  Counted(o)' \subseteq Counted(o)
    <3>1. ASSUME NEW m \in Orgs, NEW n \in Names, PrefixCount(r, m, n)
          PROVE  Counted(o)' \subseteq Counted(o)
      <4>1. OnlyChanges(r) /\ req'[r].org # o
        BY <1>4, <3>1 DEF PrefixCount
      <4> QED BY <2>2, <4>1
    <3>2. ASSUME ~\E m \in Orgs, n \in Names : PrefixCount(r, m, n)
          PROVE  Counted(o)' \subseteq Counted(o)
      <4>1. /\ OnlyChanges(r)
            /\ \/ req'[r].at \notin {"prefixCounted", "prefixUnclaimed", "prefixNoCode"}
               \/ /\ req[r].at \in {"prefixCounted", "prefixUnclaimed", "prefixNoCode"}
                  /\ req'[r].org = req[r].org
        BY <2>3, <3>2 DEF PrefixRequest, PrefixLookup, PrefixCheckCode, Check,
                          PrefixInsert, PrimaryRead, PrimarySwap, DeleteRead, DeleteWrite
      <4> QED BY <2>2, <4>1
    <3> QED BY <3>1, <3>2
  <2>4. ASSUME NEW r \in Requests, CodeRequest(r) \/ Abort(r)
        PROVE  Counted(o)' \subseteq Counted(o)
    BY <2>2, <2>4, CodeRequestLeaves
  <2> QED BY <2>1, <2>3, <2>4, OperatorRows, RowsKept DEF Next, vars
<1> QED
  <2>1. CASE \E r \in Requests, n \in Names : PrefixCount(r, o, n)
    BY <1>1, <2>1
  <2>2. CASE \E r \in Requests : PrefixInsert(r)
    BY <1>2, <2>2
  <2> QED BY <1>3, <1>4, <2>1, <2>2, CapShrinks

\* The cap is exceeded by the requests that were counted at the same time, never by more.
THEOREM CapHolds == Spec => []HeldWithinCapAndRaces
<1>1. Init => CapInv
  <2> SUFFICES ASSUME Init, NEW o \in Orgs
               PROVE  Cardinality(HeldBy(o)) + Cardinality(Counted(o)) < Cap + Cardinality(Requests)
    BY DEF CapInv
  <2>1. HeldBy(o) = {} /\ Counted(o) = {}
    BY DEF Init, HeldBy, Holding, Counted, Idle
  <2> QED BY <2>1, Sizes, NamespaceAssumption, FS_EmptySet
<1>2. CapInv => HeldWithinCapAndRaces
  BY Sizes, NamespaceAssumption DEF CapInv, HeldWithinCapAndRaces
<1> QED BY <1>1, <1>2, CapInductive, TypeCorrect, PTL DEF Spec

-----------------------------------------------------------------------------
(***************************************************************************)
(* Visits.  A visit keeps the org it read with the prefix; rows and links  *)
(* never change their org, so the two still agree when a link is served.   *)
(***************************************************************************)
OwnerInv == \A p \in PrefixIds : status[p] # "UNUSED" => owner[p] \in Orgs

WriterInv == \A r \in Requests : req[r].at \in CodeWriterSteps => req[r].name \in Names

VisitInv ==
  \A v \in Visitors :
    /\ visit[v].prefix # None =>
         /\ visit[v].prefix \in PrefixIds
         /\ status[visit[v].prefix] # "UNUSED"
         /\ owner[visit[v].prefix] = visit[v].org
         /\ visit[v].org # None
    /\ visit[v].at = "served" =>
         /\ visit[v].link \in Links
         /\ code[visit[v].link] # None
         /\ InScope(v, visit[v].link)

\* Every row of a prefix names an org.
LEMMA OwnerInvHolds == Spec => []OwnerInv
<1>1. Init => OwnerInv
  BY DEF Init, OwnerInv
<1>2. TypeOK /\ ClaimantInv /\ OwnerInv /\ [Next]_vars => OwnerInv'
  <2> SUFFICES ASSUME TypeOK, ClaimantInv, OwnerInv, [Next]_vars, NEW p \in PrefixIds,
                      status'[p] # "UNUSED"
               PROVE  owner'[p] \in Orgs
    BY DEF OwnerInv
  <2>1. CASE status[p] # "UNUSED"
    BY <2>1, UsedRowsStay DEF OwnerInv
  <2>2. CASE status[p] = "UNUSED"
    <3>1. PICK r \in Requests : PrefixInsert(r)
      <4>1. ASSUME NEW r \in Requests, PrefixRequest(r), ~PrefixInsert(r)
            PROVE  status'[p] = "UNUSED"
        <5>1. CASE DeleteWrite(r)
          BY <2>2, <5>1, DeleteRows DEF RowStatuses
        <5>2. CASE ~DeleteWrite(r)
          BY <2>2, <4>1, <5>2 DEF PrefixRequest, PrefixCount, PrefixLookup, PrefixCheckCode,
                                  PrimaryRead, PrimarySwap, DeleteRead, prefixVars
        <5> QED BY <5>1, <5>2
      <4>2. ASSUME NEW q \in PrefixIds, Operator(q)
            PROVE  status'[p] = "UNUSED"
        BY <2>2, <4>2, OperatorRows
      <4> QED BY <2>2, <4>1, <4>2, RowsKept DEF Next, vars, prefixVars
    <3>2. req[r].org \in Orgs
      BY <3>1 DEF PrefixInsert, ClaimantInv
    <3> QED BY <2>2, <3>1, <3>2, InsertRows
  <2> QED BY <2>1, <2>2
<1> QED BY <1>1, <1>2, TypeCorrect, ClaimantInvHolds, PTL DEF Spec

\* A request that writes a code has a name to write.
LEMMA WriterInvHolds == Spec => []WriterInv
<1>1. Init => WriterInv
  BY DEF Init, WriterInv, Idle, CodeWriterSteps
<1>2. TypeOK /\ WriterInv /\ [Next]_vars => WriterInv'
  <2> SUFFICES ASSUME TypeOK, WriterInv, [Next]_vars PROVE WriterInv'
    OBVIOUS
  <2> USE HandlerSteps DEF WriterInv, CodeWriterSteps, Idle, Steps
  <2>1. CASE req' = req
    BY <2>1
  <2>2. ASSUME NEW r \in Requests, OnlyChanges(r),
               \/ req'[r].at \notin CodeWriterSteps
               \/ req'[r].name \in Names
               \/ req[r].at \in CodeWriterSteps /\ req'[r].name = req[r].name
        PROVE  WriterInv'
    BY <2>2 DEF OnlyChanges
  <2>3. ASSUME NEW r \in Requests, PrefixRequest(r) \/ Abort(r)
        PROVE  WriterInv'
    BY <2>2, <2>3 DEF PrefixRequest, PrefixCount, PrefixLookup, PrefixCheckCode, Check,
                      PrefixInsert, PrimaryRead, PrimarySwap, DeleteRead, DeleteWrite, Abort
  <2>4. ASSUME NEW r \in Requests, CodeRequest(r)
        PROVE  WriterInv'
    <3>1. ASSUME NEW n \in Names, DrawCheckHeld(r, n)
          PROVE  WriterInv'
      <4>1. CASE Redraw(r)
        BY <2>2, <4>1
      <4>2. CASE req' = [req EXCEPT ![r].at = "drawnNotHeld", ![r].name = n]
        <5>1. OnlyChanges(r) /\ req'[r].name = n
          BY <4>2 DEF TypeOK, Handler, OnlyChanges
        <5> QED BY <2>2, <5>1
      <4> QED BY <3>1, <4>1, <4>2 DEF DrawCheckHeld
    <3>2. CASE DrawCheckCode(r)
      <4>1. CASE Redraw(r)
        BY <2>2, <4>1
      <4>2. CASE req' = [req EXCEPT ![r].at = "linkReady", ![r].tries = 0]
        <5>1. OnlyChanges(r) /\ req'[r].name = req[r].name
          BY <4>2 DEF TypeOK, Handler, OnlyChanges
        <5> QED BY <2>2, <3>2, <5>1 DEF DrawCheckCode
      <4> QED BY <3>2, <4>1, <4>2 DEF DrawCheckCode
    <3>3. ASSUME ~\E n \in Names : DrawCheckHeld(r, n), ~DrawCheckCode(r)
          PROVE  WriterInv'
      BY <2>2, <2>4, <3>3 DEF CodeRequest, DrawReserved, AliasCheckHeld, AliasCheckCode, Check, LinkInsert,
                              GenerateBegin, RenameCheckHeld, RenameCheckCode, RenameWrite
    <3> QED BY <3>1, <3>2, <3>3
  <2> QED BY <2>1, <2>3, <2>4, OperatorRows, RowsKept DEF Next, vars
<1> QED BY <1>1, <1>2, TypeCorrect, PTL DEF Spec

\* A link that has been inserted keeps its org, and always has a code.
LEMMA LinksStay ==
  ASSUME TypeOK, WriterInv, [Next]_vars, NEW l \in Links, code[l] # None
  PROVE  code'[l] # None /\ org'[l] = org[l]
<1>1. CASE UNCHANGED linkVars
  BY <1>1 DEF linkVars
<1>2. ASSUME NEW r \in Requests, LinkInsert(r)
      PROVE  code'[l] # None /\ org'[l] = org[l]
  BY <1>2 DEF LinkInsert, TypeOK
<1>3. ASSUME NEW r \in Requests, RenameWrite(r)
      PROVE  code'[l] # None /\ org'[l] = org[l]
  <2>1. req[r].name # None
    BY <1>3, NamespaceAssumption DEF RenameWrite, WriterInv, CodeWriterSteps
  <2> QED BY <1>3, <2>1 DEF RenameWrite, TypeOK
<1>4. ASSUME NEW r \in Requests, PrefixRequest(r) \/ CodeRequest(r) \/ Abort(r),
             ~LinkInsert(r), ~RenameWrite(r)
      PROVE  UNCHANGED linkVars
  BY <1>4 DEF PrefixRequest, PrefixCount, PrefixLookup, PrefixCheckCode, PrefixInsert,
              PrimaryRead, PrimarySwap, DeleteRead, DeleteWrite, CodeRequest, AliasCheckHeld,
              AliasCheckCode, GenerateBegin, DrawReserved, DrawCheckHeld, DrawCheckCode, RenameCheckHeld,
              RenameCheckCode, Abort, linkVars
<1>5. ASSUME NEW p \in PrefixIds, Operator(p)
      PROVE  UNCHANGED linkVars
  BY <1>5 DEF Operator, ApprovePrefix, RejectPrefix, RevokePrefix, ReleasePrefix, Decide
<1>6. ASSUME NEW v \in Visitors, Resolution(v)
      PROVE  UNCHANGED linkVars
  BY <1>6 DEF Resolution, ScopeByPrefix, ScopeRoot, Serve, Leave
<1> QED BY <1>1, <1>2, <1>3, <1>4, <1>5, <1>6 DEF Next, vars

\* Every step keeps what a visit has read of the rows.
LEMMA VisitsInductive ==
  TypeOK /\ OwnerInv /\ WriterInv /\ VisitInv /\ [Next]_vars => VisitInv'
<1> SUFFICES ASSUME TypeOK, OwnerInv, WriterInv, VisitInv, [Next]_vars, NEW v \in Visitors
             PROVE  /\ visit'[v].prefix # None =>
                         /\ visit'[v].prefix \in PrefixIds
                         /\ status'[visit'[v].prefix] # "UNUSED"
                         /\ owner'[visit'[v].prefix] = visit'[v].org
                         /\ visit'[v].org # None
                    /\ visit'[v].at = "served" =>
                         /\ visit'[v].link \in Links
                         /\ code'[visit'[v].link] # None
                         /\ visit'[v].org = None \/ org'[visit'[v].link] = visit'[v].org
  BY DEF VisitInv, InScope
<1> USE DEF VisitInv, InScope
<1>1. CASE visit'[v] = visit[v]
  BY <1>1, UsedRowsStay, LinksStay
<1>2. CASE Resolution(v)
  <2>0. visit \in [Visitors -> Visit] /\ visit[v] \in Visit
    BY DEF TypeOK
  <2>1. UNCHANGED <<prefixVars, linkVars>>
    BY <1>2 DEF Resolution, ScopeByPrefix, ScopeRoot, Serve, Leave
  <2>2. ASSUME NEW n \in Names, ScopeByPrefix(v, n)
        PROVE  /\ visit'[v].at = "scoped"
               /\ visit'[v].prefix \in PrefixIds
               /\ status[visit'[v].prefix] # "UNUSED"
               /\ owner[visit'[v].prefix] = visit'[v].org
               /\ visit'[v].org # None
    BY <2>0, <2>2, NamespaceAssumption DEF ScopeByPrefix, OwnerInv
  <2>3. ASSUME NEW n \in Names, Serve(v, n)
        PROVE  \/ visit'[v] = NoVisit
               \/ /\ visit'[v].prefix = visit[v].prefix /\ visit'[v].org = visit[v].org
                  /\ visit'[v].link \in Links /\ code[visit'[v].link] # None
                  /\ visit[v].org = None \/ org[visit'[v].link] = visit[v].org
    <3>1. ASSUME NEW l \in Links, code[l] = n, InScope(v, l),
                 visit' = [visit EXCEPT ![v].at = "served", ![v].link = l]
          PROVE  /\ visit'[v].prefix = visit[v].prefix /\ visit'[v].org = visit[v].org
                 /\ visit'[v].link = l
      BY <2>0, <3>1 DEF Visit
    <3>2. n # None
      BY NamespaceAssumption
    <3> QED BY <2>0, <2>3, <3>1, <3>2 DEF Serve
  <2>4. CASE ScopeRoot(v) \/ Leave(v)
    BY <2>0, <2>4 DEF ScopeRoot, Leave, NoVisit
  <2>5. CASE visit'[v] = NoVisit
    BY <2>5 DEF NoVisit
  <2> QED BY <1>2, <2>1, <2>2, <2>3, <2>4, <2>5 DEF Resolution, prefixVars, linkVars
<1>3. ASSUME NEW w \in Visitors, w # v, Resolution(w)
      PROVE  visit'[v] = visit[v]
  BY <1>3 DEF Resolution, ScopeByPrefix, ScopeRoot, Serve, Leave, TypeOK
<1>4. ASSUME NEW r \in Requests, PrefixRequest(r) \/ CodeRequest(r) \/ Abort(r)
      PROVE  visit' = visit
  BY <1>4 DEF PrefixRequest, PrefixCount, PrefixLookup, PrefixCheckCode, PrefixInsert,
              PrimaryRead, PrimarySwap, DeleteRead, DeleteWrite, CodeRequest, AliasCheckHeld,
              AliasCheckCode, LinkInsert, GenerateBegin, DrawReserved, DrawCheckHeld, DrawCheckCode,
              RenameCheckHeld, RenameCheckCode, RenameWrite, Abort
<1>5. ASSUME NEW p \in PrefixIds, Operator(p)
      PROVE  visit' = visit
  BY <1>5 DEF Operator, ApprovePrefix, RejectPrefix, RevokePrefix, ReleasePrefix, Decide
<1> QED BY <1>1, <1>2, <1>3, <1>4, <1>5 DEF Next, vars

\* A visit through a prefix is served links of the org that owned the prefix, and the
\* click names that prefix, whatever happened to the prefix since.
THEOREM VisitsStayInScope == Spec => []ServedInScope
<1>1. Init => VisitInv
  BY DEF Init, VisitInv, NoVisit
<1>2. VisitInv => ServedInScope
  BY DEF VisitInv, ServedInScope, InScope
<1> QED
  BY <1>1, <1>2, VisitsInductive, TypeCorrect, OwnerInvHolds, WriterInvHolds, PTL DEF Spec

-----------------------------------------------------------------------------
(***************************************************************************)
(* Namespace implements PrefixRegistry: every statement on brand_prefixes  *)
(* is a step of the registry, or one that the registry does not see.       *)
(***************************************************************************)

(***************************************************************************)
(* The refinement mapping.  A value is held by one row at most, so the row *)
(* that CHOOSE picks is any row that holds the value.                      *)
(***************************************************************************)
LEMMA Mapping ==
  UniqueValue =>
    \A n \in Names :
      /\ \A p \in PrefixIds :
           Keeps(p, n) => Held(n) /\ standing[n] = status[p] /\ keeper[n] = owner[p]
      /\ (\A p \in PrefixIds : ~Keeps(p, n)) => standing[n] = "FREE" /\ keeper[n] = None
<1> SUFFICES ASSUME UniqueValue, NEW n \in Names
             PROVE  /\ \A p \in PrefixIds :
                         Keeps(p, n) => Held(n) /\ standing[n] = status[p] /\ keeper[n] = owner[p]
                    /\ (\A p \in PrefixIds : ~Keeps(p, n)) =>
                         standing[n] = "FREE" /\ keeper[n] = None
  OBVIOUS
<1>1. ASSUME NEW p \in PrefixIds, Keeps(p, n)
      PROVE  Held(n) /\ standing[n] = status[p] /\ keeper[n] = owner[p]
  <2>1. Held(n)
    BY <1>1 DEF Held, Keeps
  <2>2. (CHOOSE q \in PrefixIds : Keeps(q, n)) = p
    <3>1. \A q \in PrefixIds : Keeps(q, n) <=> q = p
      BY <1>1 DEF Keeps, UniqueValue
    <3> QED BY <3>1
  <2> QED BY <2>1, <2>2 DEF standing, keeper
<1>2. ASSUME \A p \in PrefixIds : ~Keeps(p, n)
      PROVE  standing[n] = "FREE" /\ keeper[n] = None
  BY <1>2 DEF Keeps, Held, standing, keeper
<1> QED BY <1>1, <1>2

\* What the registry sees of a name after a step.
LEMMA MappingNext ==
  UniqueValue' =>
    \A n \in Names :
      /\ \A p \in PrefixIds :
           Keeps(p, n)' => standing'[n] = status'[p] /\ keeper'[n] = owner'[p]
      /\ (\A p \in PrefixIds : ~Keeps(p, n)') => standing'[n] = "FREE" /\ keeper'[n] = None
<1> SUFFICES ASSUME UniqueValue', NEW n \in Names
             PROVE  /\ \A p \in PrefixIds :
                         Keeps(p, n)' => standing'[n] = status'[p] /\ keeper'[n] = owner'[p]
                    /\ (\A p \in PrefixIds : ~Keeps(p, n)') =>
                         standing'[n] = "FREE" /\ keeper'[n] = None
  OBVIOUS
<1>1. ASSUME NEW p \in PrefixIds, Keeps(p, n)'
      PROVE  standing'[n] = status'[p] /\ keeper'[n] = owner'[p]
  <2>1. Held(n)'
    BY <1>1 DEF Held, Keeps
  <2>2. (CHOOSE q \in PrefixIds : Keeps(q, n)') = p
    <3>1. \A q \in PrefixIds : Keeps(q, n)' <=> q = p
      BY <1>1 DEF Keeps, UniqueValue
    <3> QED BY <3>1
  <2> QED BY <2>1, <2>2 DEF standing, keeper
<1>2. ASSUME \A p \in PrefixIds : ~Keeps(p, n)'
      PROVE  standing'[n] = "FREE" /\ keeper'[n] = None
  BY <1>2 DEF Keeps, Held, standing, keeper
<1> QED BY <1>1, <1>2

\* Values that every row keeps as before have the standing they had.
LEMMA SameView ==
  ASSUME UniqueValue, UniqueValue', NEW n \in Names,
         \A p \in PrefixIds : Keeps(p, n)' = Keeps(p, n),
         \A p \in PrefixIds : Keeps(p, n) => status'[p] = status[p] /\ owner'[p] = owner[p]
  PROVE  standing'[n] = standing[n] /\ keeper'[n] = keeper[n]
<1>1. CASE \E p \in PrefixIds : Keeps(p, n)
  BY <1>1, Mapping, MappingNext
<1>2. CASE \A p \in PrefixIds : ~Keeps(p, n)
  BY <1>2, Mapping, MappingNext
<1> QED BY <1>1, <1>2

\* The other rows keep what they kept: a rejected row that is deleted kept nothing.
OthersKeep(p) ==
  \A q \in PrefixIds \ {p} :
    /\ owner'[q] = owner[q] /\ value'[q] = value[q]
    /\ \/ status'[q] = status[q]
       \/ status[q] = "REJECTED" /\ status'[q] = "DELETED"

\* When only row p changes, only the value it holds changes its standing.
LEMMA OneRow ==
  ASSUME UniqueValue, UniqueValue', NEW p \in PrefixIds, NEW n, OthersKeep(p),
         value'[p] = n, status[p] \in Holding => value[p] = n
  PROVE  \A m \in Names \ {n} : standing'[m] = standing[m] /\ keeper'[m] = keeper[m]
<1> SUFFICES ASSUME NEW m \in Names \ {n}
             PROVE  standing'[m] = standing[m] /\ keeper'[m] = keeper[m]
  OBVIOUS
<1>1. ASSUME NEW q \in PrefixIds
      PROVE  /\ Keeps(q, m)' = Keeps(q, m)
             /\ Keeps(q, m) => status'[q] = status[q] /\ owner'[q] = owner[q]
  <2>1. CASE q = p
    BY <2>1 DEF Keeps
  <2>2. CASE q # p
    BY <2>2 DEF OthersKeep, Keeps, Holding
  <2> QED BY <2>1, <2>2
<1> QED BY <1>1, SameView

\* What the registry sees is a function of the names.
LEMMA OnNames ==
  /\ standing = [m \in Names |-> standing[m]] /\ standing' = [m \in Names |-> standing'[m]]
  /\ keeper = [m \in Names |-> keeper[m]] /\ keeper' = [m \in Names |-> keeper'[m]]
<1>1. standing = [m \in Names |-> standing[m]] /\ standing' = [m \in Names |-> standing'[m]]
  BY DEF standing
<1>2. keeper = [m \in Names |-> keeper[m]] /\ keeper' = [m \in Names |-> keeper'[m]]
  BY DEF keeper
<1> QED BY <1>1, <1>2

\* When what is seen of one name changes, the registry moves that name.
LEMMA MoveStep ==
  ASSUME NEW n \in Names, NEW to, NEW o,
         \A m \in Names \ {n} : standing'[m] = standing[m] /\ keeper'[m] = keeper[m],
         standing'[n] = to, keeper'[n] = o
  PROVE  Registry!Move(n, to, o)
<1>1. standing' = [standing EXCEPT ![n] = to]
  BY OnNames
<1>2. keeper' = [keeper EXCEPT ![n] = o]
  BY OnNames
<1> QED BY <1>1, <1>2 DEF Registry!Move

\* When what is seen of no name changes, the registry stutters.
LEMMA StutterStep ==
  ASSUME \A m \in Names : standing'[m] = standing[m] /\ keeper'[m] = keeper[m]
  PROVE  UNCHANGED Registry!vars
<1>1. standing' = standing /\ keeper' = keeper
  BY OnNames
<1> QED BY <1>1 DEF Registry!vars

-----------------------------------------------------------------------------
(***************************************************************************)
(* Steps                                                                   *)
(***************************************************************************)
LEMMA InsertClaims ==
  ASSUME TypeOK, UniqueValue, UniqueValue', ClaimantInv, NEW r \in Requests, PrefixInsert(r)
  PROVE  Registry!Next \/ UNCHANGED Registry!vars
<1> DEFINE n == req[r].name
<1>1. PICK p \in PrefixIds :
        /\ status[p] = "UNUSED" /\ status'[p] = InitialStatus
        /\ value'[p] = n /\ owner'[p] = req[r].org
        /\ ~Held(n)
        /\ primary' = primary
        /\ \A q \in PrefixIds \ {p} :
             /\ owner'[q] = owner[q] /\ value'[q] = value[q]
             /\ \/ status'[q] = status[q]
                \/ status[q] = "REJECTED" /\ status'[q] = "DELETED"
  BY InsertRows
<1>2. \A m \in Names \ {n} : standing'[m] = standing[m] /\ keeper'[m] = keeper[m]
  BY <1>1, OneRow DEF OthersKeep, Holding
<1>3. CASE n \in Names
  <2>1. standing[n] = "FREE"
    BY <1>1, <1>3 DEF standing
  <2>2. InitialStatus \in Holding
    BY DEF InitialStatus, Holding
  <2>3. standing'[n] = InitialStatus /\ keeper'[n] = req[r].org
    BY <1>1, <1>3, <2>2, MappingNext DEF Keeps
  <2>4. req[r].org \in Orgs
    BY DEF PrefixInsert, ClaimantInv
  <2>5. Registry!Move(n, InitialStatus, req[r].org)
    BY <1>2, <1>3, <2>3, MoveStep
  <2>6. Registry!Claim(n, req[r].org)
    BY <2>1, <2>5 DEF Registry!Claim, InitialStatus
  <2> QED BY <1>3, <2>4, <2>6 DEF Registry!Next
<1>4. CASE n \notin Names
  BY <1>2, <1>4, StutterStep
<1> QED BY <1>3, <1>4

\* Deleting a prefix withdraws its name, or leaves the registry as it is.
LEMMA DeleteWithdraws ==
  ASSUME TypeOK, UniqueValue, UniqueValue', NEW r \in Requests, DeleteWrite(r)
  PROVE  Registry!Next \/ UNCHANGED Registry!vars
<1>1. CASE UNCHANGED <<status, primary>>
  <2>1. UNCHANGED <<status, owner, value>>
    BY <1>1, DeleteRows
  <2> QED BY <2>1 DEF Registry!vars, standing, keeper, Held, Keeps
<1>2. ASSUME NEW p \in PrefixIds,
             status[p] \in RowStatuses, status[p] # "REVOKED", status'[p] = "DELETED",
             \A q \in PrefixIds \ {p} : status'[q] = status[q]
      PROVE  Registry!Next \/ UNCHANGED Registry!vars
  <2>0. PICK n : n = value[p]
    OBVIOUS
  <2>1. owner' = owner /\ value' = value
    BY DeleteRows
  <2>2. \A m \in Names \ {n} : standing'[m] = standing[m] /\ keeper'[m] = keeper[m]
    BY <1>2, <2>0, <2>1, OneRow DEF OthersKeep
  <2>3. CASE n \in Names /\ status[p] \in Holding
    <3>1. standing[n] = status[p]
      BY <2>0, <2>3, Mapping DEF Keeps
    <3>2. \A q \in PrefixIds : ~Keeps(q, n)'
      BY <1>2, <2>0, <2>1, <2>3 DEF Keeps, UniqueValue, Holding
    <3>3. standing'[n] = "FREE" /\ keeper'[n] = None
      BY <2>3, <3>2, MappingNext
    <3>4. Registry!Move(n, "FREE", None)
      BY <2>2, <2>3, <3>3, MoveStep
    <3>5. Registry!Withdraw(n)
      BY <1>2, <2>3, <3>1, <3>4 DEF Registry!Withdraw, Holding
    <3> QED BY <2>3, <3>5 DEF Registry!Next
  <2>4. CASE ~(n \in Names /\ status[p] \in Holding)
    <3>1. ASSUME NEW m \in Names
          PROVE  standing'[m] = standing[m] /\ keeper'[m] = keeper[m]
      <4>1. ASSUME NEW q \in PrefixIds
            PROVE  /\ Keeps(q, m)' = Keeps(q, m)
                   /\ Keeps(q, m) => status'[q] = status[q] /\ owner'[q] = owner[q]
        BY <1>2, <2>0, <2>1, <2>4 DEF Keeps, Holding
      <4> QED BY <4>1, SameView
    <3> QED BY <3>1, StutterStep
  <2> QED BY <2>3, <2>4
<1> QED BY <1>1, <1>2, DeleteRows

\* What the operator decides of a prefix is a move of its name.
LEMMA OperatorDecides ==
  ASSUME TypeOK, UniqueValue, UniqueValue', NEW p \in PrefixIds, Operator(p)
  PROVE  Registry!Next \/ UNCHANGED Registry!vars
<1>0. PICK n : n = value[p]
  OBVIOUS
<1>1. /\ owner' = owner /\ value' = value
      /\ \A q \in PrefixIds \ {p} : status'[q] = status[q]
  BY OperatorRows
<1>2. \A m \in Names \ {n} : standing'[m] = standing[m] /\ keeper'[m] = keeper[m]
  BY <1>0, <1>1, OneRow DEF OthersKeep
<1>3. CASE n \notin Names
  BY <1>2, <1>3, StutterStep
<1>4. CASE n \in Names
  <2>1. status[p] \in Holding
    BY DEF Operator, ApprovePrefix, RejectPrefix, RevokePrefix, ReleasePrefix, Decide, Holding
  <2>2. standing[n] = status[p] /\ keeper[n] = owner[p]
    BY <1>0, <1>4, <2>1, Mapping DEF Keeps
  <2>3. CASE status'[p] \in Holding
    <3>1. Registry!Move(n, status'[p], keeper[n])
      BY <1>0, <1>1, <1>2, <1>4, <2>2, <2>3, MappingNext, MoveStep DEF Keeps
    <3>2. \/ status[p] = "PENDING" /\ status'[p] = "APPROVED"
          \/ status[p] = "APPROVED" /\ status'[p] = "REVOKED"
      BY <2>3 DEF Operator, ApprovePrefix, RejectPrefix, RevokePrefix, ReleasePrefix, Decide,
                  Remove, TypeOK, Holding
    <3>3. Registry!Approve(n) \/ Registry!Revoke(n)
      BY <2>2, <3>1, <3>2 DEF Registry!Approve, Registry!Revoke
    <3> QED BY <1>4, <3>3 DEF Registry!Next
  <2>4. CASE status'[p] \notin Holding
    <3>1. \A q \in PrefixIds : ~Keeps(q, n)'
      BY <1>0, <1>1, <2>1, <2>4 DEF Keeps, UniqueValue
    <3>2. Registry!Move(n, "FREE", None)
      BY <1>2, <1>4, <3>1, MappingNext, MoveStep
    <3>3. status[p] = "PENDING" \/ status[p] = "REVOKED"
      BY <2>4 DEF Operator, ApprovePrefix, RejectPrefix, RevokePrefix, ReleasePrefix, Decide,
                  TypeOK, Holding
    <3>4. Registry!Reject(n) \/ Registry!Release(n)
      BY <2>2, <3>2, <3>3 DEF Registry!Reject, Registry!Release
    <3> QED BY <1>4, <3>4 DEF Registry!Next
  <2> QED BY <2>3, <2>4
<1> QED BY <1>3, <1>4

\* Each request, transaction and decision is a step of the registry or invisible to it.
THEOREM RegistryRefined == Spec => ImplementsRegistry
<1>1. Init => Registry!Init
  BY DEF Init, Registry!Init, standing, keeper, Held, Holding
<1>2. TypeOK /\ RowInv /\ RowInv' /\ ClaimantInv /\ [Next]_vars => [Registry!Next]_Registry!vars
  <2> SUFFICES ASSUME TypeOK, UniqueValue, UniqueValue', ClaimantInv, [Next]_vars
               PROVE  Registry!Next \/ UNCHANGED Registry!vars
    BY DEF RowInv
  <2>1. CASE UNCHANGED <<status, owner, value>>
    BY <2>1 DEF Registry!vars, standing, keeper, Held, Keeps
  <2>2. ASSUME NEW r \in Requests, PrefixRequest(r), ~PrefixInsert(r), ~DeleteWrite(r)
        PROVE  UNCHANGED <<status, owner, value>>
    BY <2>2 DEF PrefixRequest, PrefixCount, PrefixLookup, PrefixCheckCode, PrimaryRead,
                PrimarySwap, DeleteRead, prefixVars
  <2> QED
    BY <2>1, <2>2, InsertClaims, DeleteWithdraws, OperatorDecides, RowsKept
    DEF Next, vars, prefixVars
<1> QED BY <1>1, <1>2, TypeCorrect, RowInvHolds, ClaimantInvHolds, PTL
   DEF Spec, ImplementsRegistry, Registry!Spec
=============================================================================
