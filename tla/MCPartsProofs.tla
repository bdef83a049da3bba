---------------------------- MODULE MCPartsProofs ----------------------------
(***************************************************************************)
(* Proofs about BrowserSession and Listings, for any accounts, orgs, tabs, *)
(* calls, rows and sizes of pages; and that MCParts, whose components are  *)
(* these and the ones of LimiterProofs and PartsProofs, runs each of them  *)
(* as its own specification has it, and keeps what each of them promises.  *)
(***************************************************************************)
EXTENDS MCParts, LimiterProofs, PartsProofs

-----------------------------------------------------------------------------
(***************************************************************************)
(* BrowserSession.  As long as nothing has raced the user, a refresh in    *)
(* flight is for the session that the user has asked for.                  *)
(***************************************************************************)
CallRow == [at : {"idle", "sent", "awaiting", "resent"}, kind : Kinds,
            pair : Pairs \cup {Nothing}, scope : Scopes \cup {Nothing}]

\* A call, and what is asked of a switch.
CallOK(t, l) ==
  /\ requests[t][l].kind = "switch" => requests[t][l].scope \in Scopes
  /\ requests[t][l].at = "awaiting" => refreshing[t] # Nothing

BrowserInv ==
  /\ stored \in Pairs \cup {Nothing}
  /\ refreshing \in [Tabs -> Pairs \cup {Nothing}]
  /\ requests \in [Tabs -> [Lines -> CallRow]]
  /\ \A t \in Tabs, l \in Lines : CallOK(t, l)
  /\ ~raced => \A t \in Tabs : refreshing[t] \in {Nothing, intent}
  /\ SessionIsTheUsers

\* No call is under way in an empty line.
LEMMA NoRequestIsCall ==
  /\ NoRequest \in CallRow /\ NoRequest.at = "idle" /\ NoRequest.kind = "plain"
  /\ Nothing \notin Pairs
BY BrowserSessionAssumption DEF NoRequest, CallRow, Kinds, Pairs

\* The browser starts without a session.
LEMMA BrowserStart ==
  BrowserInit => BrowserInv
BY NoRequestIsCall DEF BrowserInit, BrowserInv, CallOK, SessionIsTheUsers

\* A step that changes the call of one line.
LEMMA OneCall ==
  ASSUME BrowserInv, NEW t \in Tabs, NEW l \in Lines, NEW call \in CallRow,
         requests' = [requests EXCEPT ![t][l] = call],
         call.kind = "switch" => call.scope \in Scopes,
         call.at = "awaiting" => refreshing'[t] # Nothing,
         \A u \in Tabs : refreshing[u] # Nothing => refreshing'[u] # Nothing
  PROVE  /\ requests' \in [Tabs -> [Lines -> CallRow]]
         /\ \A u \in Tabs, m \in Lines : CallOK(u, m)'
<1>1. requests \in [Tabs -> [Lines -> CallRow]] /\ \A u \in Tabs, m \in Lines : CallOK(u, m)
  BY DEF BrowserInv
<1>2. PICK line : line = [requests[t] EXCEPT ![l] = call]
  OBVIOUS
<1>3. /\ line \in [Lines -> CallRow] /\ line[l] = call
      /\ \A m \in Lines \ {l} : line[m] = requests[t][m]
  BY <1>1, <1>2
<1>4. requests' = [requests EXCEPT ![t] = line]
  BY <1>1, <1>2
<1>5. /\ requests' \in [Tabs -> [Lines -> CallRow]] /\ requests'[t] = line
      /\ \A u \in Tabs \ {t} : requests'[u] = requests[u]
  BY <1>1, <1>3, <1>4
<1>6. ASSUME NEW u \in Tabs, NEW m \in Lines
      PROVE  CallOK(u, m)'
  <2>1. (requests'[u][m] = call /\ u = t) \/ requests'[u][m] = requests[u][m]
    BY <1>3, <1>5
  <2> QED BY <1>1, <2>1 DEF CallOK
<1> QED BY <1>5, <1>6

\* A call that ends.
LEMMA DoneKeeps ==
  ASSUME BrowserInv, NEW t \in Tabs, NEW l \in Lines, Done(t, l), refreshing' = refreshing
  PROVE  /\ requests' \in [Tabs -> [Lines -> CallRow]]
         /\ \A u \in Tabs, m \in Lines : CallOK(u, m)'
BY NoRequestIsCall, OneCall DEF Done

\* The user signs in or out.
LEMMA AskedKeeps ==
  ASSUME BrowserInv, NEW pair \in Pairs \cup {Nothing}, stored' = pair, Asked(pair),
         UNCHANGED <<requests, refreshing>>
  PROVE  BrowserInv'
<1>1. intent' = pair /\ (~raced' => \A u \in Tabs : refreshing[u] = Nothing)
  BY DEF Asked, OthersInFlight
<1> QED BY <1>1 DEF BrowserInv, CallOK, SessionIsTheUsers

\* A call is sent, or the page is loaded again.
LEMMA SendKeeps ==
  ASSUME BrowserInv, NEW t \in Tabs,
         \/ Reload(t)
         \/ \E l \in Lines : \/ Send(t, l, "plain", Nothing)
                           \/ \E s \in Scopes : Send(t, l, "switch", s)
  PROVE  BrowserInv'
<1>1. ASSUME NEW l \in Lines, NEW kind \in {"plain", "switch"}, NEW s \in Scopes \cup {Nothing},
             kind = "switch" => s \in Scopes, Send(t, l, kind, s)
      PROVE  BrowserInv'
  <2>1. PICK call : call = [at |-> "sent", kind |-> kind, pair |-> stored, scope |-> s]
    OBVIOUS
  <2>2. call \in CallRow /\ call.at = "sent" /\ call.kind = kind /\ call.scope = s
    BY <2>1 DEF BrowserInv, CallRow, Kinds
  <2>3. requests' = [requests EXCEPT ![t][l] = call]
        /\ UNCHANGED <<stored, refreshing, intent, raced>>
    BY <1>1, <2>1 DEF Send
  <2>4. /\ requests' \in [Tabs -> [Lines -> CallRow]]
        /\ \A u \in Tabs, m \in Lines : CallOK(u, m)'
    BY <1>1, <2>2, <2>3, OneCall
  <2> QED BY <2>3, <2>4 DEF BrowserInv, SessionIsTheUsers
<1>2. CASE Reload(t)
  <2>1. PICK l \in Lines : requests' = [requests EXCEPT ![t] =
                [m \in Lines |-> IF m = l THEN [at |-> "sent", kind |-> "boot", pair |-> stored,
                                                scope |-> Nothing]
                                          ELSE NoRequest]]
    BY <1>2 DEF Reload
  <2>2. PICK call : call = [at |-> "sent", kind |-> "boot", pair |-> stored, scope |-> Nothing]
    OBVIOUS
  <2>3. call \in CallRow /\ call.at = "sent" /\ call.kind = "boot"
    BY <2>2 DEF BrowserInv, CallRow, Kinds
  <2>4. PICK line : line = [m \in Lines |-> IF m = l THEN call ELSE NoRequest]
    OBVIOUS
  <2>5. requests' = [requests EXCEPT ![t] = line]
    BY <2>1, <2>2, <2>4
  <2>6. line \in [Lines -> CallRow]
        /\ \A m \in Lines : line[m].at # "awaiting" /\ line[m].kind # "switch"
    BY <2>3, <2>4, NoRequestIsCall
  <2>7. /\ requests' \in [Tabs -> [Lines -> CallRow]] /\ requests'[t] = line
        /\ \A u \in Tabs \ {t} : requests'[u] = requests[u]
    BY <2>5, <2>6 DEF BrowserInv
  <2>8. /\ refreshing' = [refreshing EXCEPT ![t] = Nothing]
        /\ UNCHANGED <<stored, intent, raced>>
    BY <1>2 DEF Reload
  <2>9. /\ refreshing' \in [Tabs -> Pairs \cup {Nothing}] /\ refreshing'[t] = Nothing
        /\ \A u \in Tabs \ {t} : refreshing'[u] = refreshing[u]
    BY <2>8 DEF BrowserInv
  <2>10. \A u \in Tabs, m \in Lines : CallOK(u, m)'
    BY <2>6, <2>7, <2>9 DEF BrowserInv, CallOK
  <2> QED BY <2>7, <2>8, <2>9, <2>10 DEF BrowserInv, SessionIsTheUsers
<1> QED BY <1>1, <1>2

\* A call succeeds, fails, or is refused.
LEMMA CallKeeps ==
  ASSUME BrowserInv, NEW t \in Tabs, NEW l \in Lines,
         Succeed(t, l) \/ Fail(t, l) \/ Unauthorized(t, l) \/ UnauthorizedAgain(t, l)
  PROVE  BrowserInv'
<1>1. PICK call : call = requests[t][l]
  OBVIOUS
<1>2. call \in CallRow /\ CallOK(t, l)
  BY <1>1 DEF BrowserInv
<1>3. CASE Succeed(t, l)
  <2>1. /\ call.pair # Nothing /\ Done(t, l) /\ refreshing' = refreshing
    BY <1>1, <1>3 DEF Succeed
  <2>2. CASE UNCHANGED <<stored, intent, raced>>
    BY <2>1, <2>2, DoneKeeps DEF BrowserInv, SessionIsTheUsers
  <2>3. CASE call.kind = "switch" /\ ~UNCHANGED <<stored, intent, raced>>
    <3>1. PICK pair : pair = <<call.pair[1], call.scope>>
      OBVIOUS
    <3>2. pair \in Pairs
      BY <1>1, <1>2, <2>1, <2>3, <3>1 DEF CallRow, CallOK, Pairs
    <3>3. /\ stored' = pair
          /\ intent' = IF raced THEN intent ELSE pair
          /\ raced' = (raced \/ OthersInFlight(t, l))
      BY <1>1, <1>3, <2>3, <3>1 DEF Succeed
    <3>4. ~raced' => ~raced /\ \A u \in Tabs : refreshing[u] = Nothing
      BY <3>3 DEF OthersInFlight
    <3> QED BY <2>1, <3>2, <3>3, <3>4, DoneKeeps DEF BrowserInv, SessionIsTheUsers
  <2> QED BY <1>1, <1>3, <2>2, <2>3 DEF Succeed
<1>4. CASE Fail(t, l) \/ UnauthorizedAgain(t, l)
  <2>1. stored' \in {stored, Nothing} /\ Done(t, l) /\ UNCHANGED <<refreshing, intent, raced>>
    BY <1>4 DEF Fail, UnauthorizedAgain, ClearOnBoot
  <2> QED BY <2>1, DoneKeeps DEF BrowserInv, SessionIsTheUsers
<1>5. CASE Unauthorized(t, l)
  <2>1. UNCHANGED <<stored, intent, raced>>
    BY <1>5 DEF Unauthorized
  <2>2. CASE stored = Nothing
    <3>1. Done(t, l) /\ refreshing' = refreshing
      BY <1>5, <2>2 DEF Unauthorized, RefreshAsStored
    <3> QED BY <2>1, <3>1, DoneKeeps DEF BrowserInv, SessionIsTheUsers
  <2>3. CASE stored # Nothing
    <3>1. PICK next : next = [call EXCEPT !.at = "awaiting"]
      OBVIOUS
    <3>2. /\ next \in CallRow /\ next.at = "awaiting" /\ next.kind = call.kind
          /\ next.scope = call.scope
      BY <1>2, <3>1 DEF CallRow
    <3>3. /\ requests' = [requests EXCEPT ![t][l].at = "awaiting"]
          /\ refreshing' = IF refreshing[t] # Nothing THEN refreshing
                           ELSE [refreshing EXCEPT ![t] = stored]
      BY <1>5, <2>3 DEF Unauthorized, RefreshAsStored
    <3>4. requests' = [requests EXCEPT ![t][l] = next]
      BY <1>1, <3>1, <3>3
    <3>5. /\ refreshing' \in [Tabs -> Pairs \cup {Nothing}] /\ refreshing'[t] # Nothing
          /\ \A u \in Tabs : refreshing'[u] # refreshing[u] => u = t /\ refreshing'[u] = stored
      BY <2>3, <3>3 DEF BrowserInv
    <3>6. \A u \in Tabs : refreshing[u] # Nothing => refreshing'[u] # Nothing
      BY <3>5
    <3>7. /\ requests' \in [Tabs -> [Lines -> CallRow]]
          /\ \A u \in Tabs, m \in Lines : CallOK(u, m)'
      BY <1>1, <1>2, <3>2, <3>4, <3>5, <3>6, OneCall DEF CallOK
    <3>8. ~raced' => \A u \in Tabs : refreshing'[u] \in {Nothing, intent'}
      BY <2>1, <2>3, <3>5 DEF BrowserInv, SessionIsTheUsers
    <3> QED BY <2>1, <3>5, <3>7, <3>8 DEF BrowserInv, SessionIsTheUsers
  <2> QED BY <2>2, <2>3
<1> QED BY <1>3, <1>4, <1>5

\* A refresh ends.
LEMMA RefreshKeeps ==
  ASSUME BrowserInv, NEW t \in Tabs,
         \/ RefreshRefused(t) \/ RefreshUnreachable(t)
         \/ \E s \in Scopes : RefreshSucceeds(t, s)
  PROVE  BrowserInv'
<1>1. /\ requests \in [Tabs -> [Lines -> CallRow]]
      /\ \A u \in Tabs, m \in Lines : CallOK(u, m)
  BY DEF BrowserInv
<1>2. ASSUME RefreshEnds(t)
      PROVE  /\ refreshing' \in [Tabs -> Pairs \cup {Nothing}] /\ refreshing'[t] = Nothing
             /\ \A u \in Tabs \ {t} : refreshing'[u] = refreshing[u]
  BY <1>2 DEF RefreshEnds, BrowserInv
<1>3. ASSUME NEW line \in [Lines -> CallRow], requests' = [requests EXCEPT ![t] = line],
             RefreshEnds(t),
             \A m \in Lines : /\ line[m].at # "awaiting"
                              /\ line[m].kind = "switch" => line[m].scope \in Scopes
      PROVE  /\ requests' \in [Tabs -> [Lines -> CallRow]]
             /\ \A u \in Tabs, m \in Lines : CallOK(u, m)'
  <2>1. /\ requests' \in [Tabs -> [Lines -> CallRow]] /\ requests'[t] = line
        /\ \A u \in Tabs \ {t} : requests'[u] = requests[u]
    BY <1>1, <1>3
  <2>2. ASSUME NEW u \in Tabs, NEW m \in Lines
        PROVE  CallOK(u, m)'
    <3>1. CASE u = t
      BY <1>3, <2>1, <3>1 DEF CallOK
    <3>2. CASE u # t
      BY <1>1, <1>2, <1>3, <2>1, <3>2 DEF CallOK
    <3> QED BY <3>1, <3>2
  <2> QED BY <2>1, <2>2
<1>4. CASE RefreshRefused(t) \/ RefreshUnreachable(t)
  <2>1. /\ stored' \in {stored, Nothing} /\ GiveUpWaiting(t) /\ RefreshEnds(t)
        /\ UNCHANGED <<intent, raced>>
    BY <1>4 DEF RefreshRefused, RefreshUnreachable
  <2>2. PICK line : line = [l \in Lines |-> IF l \in Awaiting(t) THEN NoRequest ELSE requests[t][l]]
    OBVIOUS
  <2>3. requests' = [requests EXCEPT ![t] = line]
    BY <2>1, <2>2 DEF GiveUpWaiting
  <2>4. /\ line \in [Lines -> CallRow]
        /\ \A m \in Lines : /\ line[m].at # "awaiting"
                            /\ line[m].kind = "switch" => line[m].scope \in Scopes
    BY <1>1, <2>2, NoRequestIsCall DEF Awaiting, CallOK
  <2>5. /\ requests' \in [Tabs -> [Lines -> CallRow]]
        /\ \A u \in Tabs, m \in Lines : CallOK(u, m)'
    BY <1>3, <2>1, <2>3, <2>4
  <2> QED BY <1>2, <2>1, <2>5 DEF BrowserInv, SessionIsTheUsers
<1>5. ASSUME NEW s \in Scopes, RefreshSucceeds(t, s)
      PROVE  BrowserInv'
  <2>1. PICK pair : pair = <<refreshing[t][1], s>>
    OBVIOUS
  <2>2. /\ refreshing[t] # Nothing /\ stored' = pair /\ RefreshEnds(t)
        /\ intent' = IF ~raced /\ refreshing[t] = intent THEN pair ELSE intent
        /\ raced' = \/ raced
                    \/ pair # refreshing[t] /\ (\E u \in Tabs \ {t} : refreshing[u] # Nothing)
    BY <1>5, <2>1 DEF RefreshSucceeds
  <2>3. pair \in Pairs
    BY <2>1, <2>2 DEF BrowserInv, Pairs
  <2>4. PICK line :
          line = [l \in Lines |-> IF l \in Awaiting(t)
                                   THEN [requests[t][l] EXCEPT !.at = "resent", !.pair = pair]
                                   ELSE requests[t][l]]
    OBVIOUS
  <2>5. requests' = [requests EXCEPT ![t] = line]
    BY <1>5, <2>1, <2>4 DEF RefreshSucceeds
  <2>6. ASSUME NEW m \in Lines
        PROVE  /\ line[m] \in CallRow /\ line[m].at # "awaiting"
               /\ line[m].kind = "switch" => line[m].scope \in Scopes
    <3>1. requests[t][m] \in CallRow /\ CallOK(t, m)
      BY <1>1
    <3>2. CASE m \in Awaiting(t)
      <4>1. line[m] = [requests[t][m] EXCEPT !.at = "resent", !.pair = pair]
        BY <2>4, <3>2
      <4> QED BY <2>3, <3>1, <4>1 DEF CallRow, CallOK
    <3>3. CASE m \notin Awaiting(t)
      BY <2>4, <3>1, <3>3 DEF Awaiting, CallOK
    <3> QED BY <3>2, <3>3
  <2>7. line \in [Lines -> CallRow]
    BY <2>4, <2>6
  <2>8. /\ requests' \in [Tabs -> [Lines -> CallRow]]
        /\ \A u \in Tabs, m \in Lines : CallOK(u, m)'
    BY <1>3, <2>2, <2>5, <2>6, <2>7
  <2>9. ~raced' => ~raced /\ refreshing[t] = intent /\ intent' = pair
    BY <2>2 DEF BrowserInv
  <2>10. ~raced' => \A u \in Tabs : refreshing'[u] \in {Nothing, intent'}
    BY <1>2, <2>2, <2>9 DEF BrowserInv
  <2> QED BY <1>2, <2>2, <2>3, <2>8, <2>9, <2>10 DEF BrowserInv, SessionIsTheUsers
<1> QED BY <1>4, <1>5

\* No step breaks the invariant.
LEMMA BrowserKept ==
  BrowserInv /\ [BrowserNext]_browserVars => BrowserInv'
<1> SUFFICES ASSUME BrowserInv, [BrowserNext]_browserVars
             PROVE  BrowserInv'
  OBVIOUS
<1>1. CASE SignOut
  BY <1>1, AskedKeeps DEF SignOut
<1>2. ASSUME NEW pair \in Pairs, SignIn(pair)
      PROVE  BrowserInv'
  BY <1>2, AskedKeeps DEF SignIn
<1>3. CASE UNCHANGED browserVars
  BY <1>3 DEF browserVars, BrowserInv, CallOK, SessionIsTheUsers
<1> QED BY <1>1, <1>2, <1>3, SendKeeps, CallKeeps, RefreshKeeps DEF BrowserNext

\* The strengthened invariant holds in every state.
THEOREM BrowserInvariant == BrowserSpec => []BrowserInv
BY BrowserStart, BrowserKept, PTL DEF BrowserSpec

\* The browser never comes back to a session that the user has left, for any number of
\* tabs and calls, but for a refresh, a switch or a repeated call that was in flight.
THEOREM SessionIsTheUsersHolds == BrowserSpec => []SessionIsTheUsers
<1>1. BrowserInv => SessionIsTheUsers
  BY DEF BrowserInv
<1> QED BY <1>1, BrowserInvariant, PTL

\* What is stored is a pair, or nothing; a call waits only for a refresh under way.
LEMMA BrowserTypes == BrowserInv => BrowserTypeOK
BY DEF BrowserInv, CallOK, CallRow, BrowserTypeOK

-----------------------------------------------------------------------------
(***************************************************************************)
(* Listings.  The place of a row is the number of matching rows that come  *)
(* before it.  What a walk has missed of the places of its pages so far    *)
(* are rows that moved up into them, one for each row that left.           *)
(***************************************************************************)
Ahead(M, i) == IF listing = "prefixes" THEN {j \in M : j < i} ELSE {j \in M : j > i}

Place(M, i) == Cardinality(Ahead(M, i))

Missed(b) == {i \in walk.stayed \ walk.shown : Place(Matching, i) < b}

MemberRow == [of : Nat, role : {"OWNER", "MEMBER"}]

DetailRow == [count : Nat, owned : BOOLEAN]

DetailSets == {<<>>} \cup UNION {[R -> DetailRow] : R \in SUBSET Nat}

WalkRow == [at : {"idle", "listed", "counted", "membered", "answered"}, page : Nat,
            rows : SUBSET Nat, total : Nat, details : DetailSets, met : BOOLEAN,
            shown : SUBSET Nat, stayed : SUBSET Nat, left : Nat]

TablesInv ==
  /\ listing \in Growing \cup Changing
  /\ matches \in Seq(BOOLEAN) /\ Len(matches) <= MaxRows
  /\ members \in Seq(MemberRow) /\ Len(members) <= MaxJoins
  /\ \A k \in 1 .. Len(members) : members[k].of \in 1 .. Len(matches)

DetailsOK ==
  \/ walk.details = <<>> /\ walk.at # "membered"
  \/ /\ walk.details \in [walk.rows -> DetailRow]
     /\ \A i \in walk.rows : walk.details[i].count <= MaxJoins

WalkTypes ==
  /\ walk \in WalkRow
  /\ walk.at = "idle" => walk = NoWalk
  /\ walk.at # "idle" => walk.page >= 1
  /\ walk.stayed \subseteq Matching
  /\ walk.rows \subseteq walk.shown /\ walk.shown \subseteq 1 .. Len(matches)
  /\ Cardinality(walk.rows) <= PageSize
  /\ walk.total <= MaxRows /\ walk.left <= MaxLeaves
  /\ DetailsOK

MissedInv ==
  /\ Cardinality(Missed(walk.page * PageSize)) <= walk.left
  /\ walk.at \in {"counted", "membered", "answered"} /\ LastPage =>
       Cardinality(walk.stayed \ walk.shown) <= walk.left

OwnersInv ==
  listing = "orgs" /\ ~walk.met =>
    /\ walk.at = "membered" =>
         \A i \in walk.rows : OwnersOf(i) # {} => walk.details[i].count > 0
    /\ walk.at = "answered" =>
         \A i \in walk.rows : walk.details[i].owned => walk.details[i].count > 0

ListingsInv == TablesInv /\ WalkTypes /\ MissedInv /\ OwnersInv

\* Sets of rows are finite.
LEMMA SomeRows ==
  ASSUME NEW n \in Nat, NEW S, S \subseteq 1 .. n
  PROVE  IsFiniteSet(S) /\ Cardinality(S) \in Nat /\ Cardinality(S) <= n
<1>1. IsFiniteSet(1 .. n) /\ Cardinality(1 .. n) = n
  <2>1. IsFiniteSet(1 .. n) /\ Cardinality(1 .. n) = IF 1 > n THEN 0 ELSE n - 1 + 1
    BY FS_Interval
  <2> QED BY <2>1
<1>2. IsFiniteSet(S) /\ Cardinality(S) <= n
  BY <1>1, FS_Subset
<1> QED BY <1>2, FS_CardinalityType

\* A larger set of rows has no fewer.
LEMMA MoreRows ==
  ASSUME NEW n \in Nat, NEW S, NEW T, S \subseteq T, T \subseteq 1 .. n
  PROVE  /\ Cardinality(S) <= Cardinality(T)
         /\ Cardinality(S) \in Nat /\ Cardinality(T) \in Nat
         /\ S # T => Cardinality(S) < Cardinality(T)
<1>1. IsFiniteSet(T) /\ Cardinality(T) \in Nat /\ Cardinality(S) \in Nat
  BY SomeRows
<1>2. Cardinality(S) <= Cardinality(T) /\ (Cardinality(T) = Cardinality(S) => T = S)
  BY <1>1, FS_Subset
<1> QED BY <1>1, <1>2

\* A set of rows and one more.
LEMMA OneMoreRow ==
  ASSUME NEW n \in Nat, NEW S, S \subseteq 1 .. n, NEW x, NEW T, T \subseteq S \cup {x}
  PROVE  Cardinality(T) \in Nat /\ Cardinality(T) <= Cardinality(S) + 1
<1>1. IsFiniteSet(S) /\ Cardinality(S) \in Nat
  BY SomeRows
<1>2. IsFiniteSet(S \cup {x})
      /\ Cardinality(S \cup {x}) = IF x \in S THEN Cardinality(S) ELSE Cardinality(S) + 1
  BY <1>1, FS_AddElement
<1>3. IsFiniteSet(T) /\ Cardinality(T) <= Cardinality(S \cup {x})
  BY <1>2, FS_Subset
<1> QED BY <1>1, <1>2, <1>3, FS_CardinalityType

\* Of two rows one comes before the other, and has the smaller place; so a place is
\* that of one row, and all places are below the number of rows.
LEMMA Places ==
  ASSUME NEW n \in Nat, NEW M, M \subseteq 1 .. n, NEW i \in M
  PROVE  /\ Ahead(M, i) \subseteq 1 .. n /\ Place(M, i) \in Nat
         /\ Place(M, i) < Cardinality(M)
         /\ \A k \in M : Place(M, k) = Place(M, i) => k = i
<1>1. \A k \in M : Ahead(M, k) \subseteq M /\ Ahead(M, k) \subseteq 1 .. n /\ k \notin Ahead(M, k)
  <2>1. \A k \in M : Ahead(M, k) \subseteq M
    BY DEF Ahead
  <2>2. \A k \in M : ~(k < k)
    OBVIOUS
  <2>3. \A k \in M : k \notin Ahead(M, k)
    BY <2>2 DEF Ahead
  <2> QED BY <2>1, <2>3
<1>2. ASSUME NEW k \in M
      PROVE  Place(M, k) \in Nat /\ Place(M, k) < Cardinality(M)
  <2>1. Ahead(M, k) # M /\ Ahead(M, k) \subseteq M
    BY <1>1, <1>2
  <2> QED BY <2>1, MoreRows DEF Place
<1>3. ASSUME NEW j \in M, NEW k \in M, j \in Ahead(M, k)
      PROVE  Place(M, j) < Place(M, k)
  <2>1. j \in Int /\ k \in Int
    BY <1>3
  <2>2. Ahead(M, j) \subseteq Ahead(M, k)
    <3>1. CASE listing = "prefixes"
      <4>1. j < k
        BY <1>3, <3>1 DEF Ahead
      <4>2. \A m \in M : m < j => m < k
        BY <2>1, <4>1
      <4> QED BY <3>1, <4>2 DEF Ahead
    <3>2. CASE listing # "prefixes"
      <4>1. j > k
        BY <1>3, <3>2 DEF Ahead
      <4>2. \A m \in M : m > j => m > k
        BY <2>1, <4>1
      <4> QED BY <3>2, <4>2 DEF Ahead
    <3> QED BY <3>1, <3>2
  <2>3. Ahead(M, j) # Ahead(M, k)
    BY <1>1, <1>3
  <2> QED BY <1>1, <2>2, <2>3, MoreRows DEF Place
<1>4. ASSUME NEW k \in M, k # i
      PROVE  k \in Ahead(M, i) \/ i \in Ahead(M, k)
  <2>1. k < i \/ i < k
    BY <1>4
  <2> QED BY <2>1 DEF Ahead
<1>5. ASSUME NEW k \in M, k # i
      PROVE  Place(M, k) # Place(M, i)
  <2>1. Place(M, k) < Place(M, i) \/ Place(M, i) < Place(M, k)
    BY <1>3, <1>4, <1>5
  <2> QED BY <1>2, <2>1
<1> QED BY <1>1, <1>2, <1>5

\* A row that is added, or matches anew, does not move another up.
LEMMA PlaceGrows ==
  ASSUME NEW n \in Nat, NEW M, NEW N, M \subseteq N, N \subseteq 1 .. n, NEW i
  PROVE  Place(M, i) <= Place(N, i) /\ Place(M, i) \in Nat /\ Place(N, i) \in Nat
<1>1. Ahead(M, i) \subseteq Ahead(N, i)
  BY DEF Ahead
<1>2. Ahead(N, i) \subseteq 1 .. n
  BY DEF Ahead
<1> QED BY <1>1, <1>2, MoreRows DEF Place

\* A row that leaves moves each of the others up by at most one place.
LEMMA PlaceShrinks ==
  ASSUME NEW n \in Nat, NEW M, M \subseteq 1 .. n, NEW x, NEW i
  PROVE  Place(M, i) <= Place(M \ {x}, i) + 1 /\ Place(M, i) \in Nat /\ Place(M \ {x}, i) \in Nat
<1>1. PICK S : S = Ahead(M \ {x}, i)
  OBVIOUS
<1>2. S \subseteq 1 .. n /\ Ahead(M, i) \subseteq S \cup {x}
  BY <1>1 DEF Ahead
<1>3. Cardinality(Ahead(M, i)) \in Nat /\ Cardinality(Ahead(M, i)) <= Cardinality(S) + 1
  BY <1>2, OneMoreRow
<1>4. Cardinality(S) \in Nat
  BY <1>2, SomeRows
<1> QED BY <1>1, <1>3, <1>4 DEF Place

\* The bounds of a page.
LEMMA PageEnds ==
  ASSUME NEW p \in Nat
  PROVE  /\ Offset(p + 1) = p * PageSize /\ Offset(p) + PageSize = p * PageSize
         /\ Offset(1) = 0 /\ p * PageSize \in Nat /\ PageSize \in Nat \ {0}
<1>1. PageSize \in Nat \ {0}
  BY ListingsAssumption
<1>2. (p + 1) - 1 = p /\ (1 - 1) * PageSize = 0 /\ p * PageSize \in Nat
  BY <1>1
<1>3. (p - 1) * PageSize + PageSize = p * PageSize
  BY <1>1
<1> QED BY <1>1, <1>2, <1>3 DEF Offset

\* What a query shows.
PageRows(p) ==
  {i \in Matching : Place(Matching, i) \in Offset(p) .. Offset(p) + PageSize - 1}

\* A page that is asked for has the rows of its places among those that match.
LEMMA AskedRows ==
  ASSUME NEW p, AskPage(p)
  PROVE  ShowPage(p, PageRows(p))
<1>1. CASE listing = "prefixes"
  <2>1. PrefixesPage(p)
    BY <1>1 DEF AskPage, UsersPage, OrgsPage, ReportsPage, LinksPage
  <2>2. OldestFirst(p) = PageRows(p)
    BY <1>1 DEF OldestFirst, OnPage, PageRows, Place, Ahead
  <2> QED BY <2>1, <2>2 DEF PrefixesPage
<1>2. CASE listing # "prefixes"
  <2>1. ShowPage(p, NewestFirst(p))
    BY <1>2 DEF AskPage, UsersPage, OrgsPage, ReportsPage, LinksPage, PrefixesPage
  <2>2. NewestFirst(p) = PageRows(p)
    BY <1>2 DEF NewestFirst, OnPage, PageRows, Place, Ahead
  <2> QED BY <2>1, <2>2
<1> QED BY <1>1, <1>2

\* A page has at most PageSize rows: their places are all different.
LEMMA PageIsFull ==
  ASSUME NEW n \in Nat, Matching \subseteq 1 .. n, NEW p \in Nat
  PROVE  /\ PageRows(p) \subseteq Matching /\ Cardinality(PageRows(p)) \in Nat
         /\ Cardinality(PageRows(p)) <= PageSize
<1>1. PICK a, b : a = Offset(p) /\ b = Offset(p) + PageSize - 1
  OBVIOUS
<1>2. PageSize \in Nat \ {0} /\ a \in Int /\ b = a + PageSize - 1 /\ b \in Int
  BY <1>1, ListingsAssumption DEF Offset
<1>3. PICK f : f = [i \in PageRows(p) |-> Place(Matching, i)]
  OBVIOUS
<1>4. PageRows(p) \subseteq Matching
  BY DEF PageRows
<1>5. f \in Injection(PageRows(p), a .. b)
  <2>1. f \in [PageRows(p) -> a .. b]
    BY <1>1, <1>3 DEF PageRows
  <2>2. \A i, k \in PageRows(p) : f[i] = f[k] => i = k
    BY <1>3, <1>4, Places
  <2> QED BY <2>1, <2>2 DEF Injection, IsInjective
<1>6. IsFiniteSet(a .. b) /\ Cardinality(a .. b) = PageSize
  <2>1. IsFiniteSet(a .. b) /\ Cardinality(a .. b) = IF a > b THEN 0 ELSE b - a + 1
    BY <1>2, FS_Interval
  <2> QED BY <1>2, <2>1
<1>7. Cardinality(PageRows(p)) <= PageSize
  BY <1>5, <1>6, FS_Injection
<1> QED BY <1>4, <1>7, SomeRows

\* What the invariant says of the tables and of the constants.
LEMMA ListingsTypes ==
  ASSUME ListingsInv
  PROVE  /\ Len(matches) \in Nat /\ DOMAIN matches = 1 .. Len(matches)
         /\ Matching \subseteq 1 .. Len(matches) /\ Len(matches) <= MaxRows
         /\ Len(members) \in Nat /\ DOMAIN members = 1 .. Len(members)
         /\ PageSize \in Nat \ {0} /\ MaxRows \in Nat /\ MaxLeaves \in Nat /\ MaxJoins \in Nat
         /\ walk \in WalkRow /\ walk.page \in Nat /\ walk.left \in Nat
         /\ walk.stayed \subseteq Matching
BY ListingsAssumption DEF ListingsInv, TablesInv, WalkTypes, WalkRow, Matching

\* Nothing has been read yet.
LEMMA DetailsNone ==
  /\ <<>> \in DetailSets
  /\ \A R \in SUBSET Nat : \A d \in [R -> DetailRow] : d \in DetailSets
BY DEF DetailSets

\* A walk begins, and ends, with nothing shown.
LEMMA NoWalkIs ==
  /\ NoWalk \in WalkRow /\ NoWalk.at = "idle" /\ NoWalk.page = 0 /\ NoWalk.rows = {}
  /\ NoWalk.total = 0 /\ NoWalk.details = <<>> /\ NoWalk.met = FALSE /\ NoWalk.shown = {}
  /\ NoWalk.stayed = {} /\ NoWalk.left = 0
BY DetailsNone DEF NoWalk, WalkRow

\* Without a walk nothing is missed.
LEMMA NoWalkKeeps ==
  ASSUME TablesInv, walk = NoWalk
  PROVE  ListingsInv
<1>1. Cardinality({}) = 0
  BY FS_EmptySet
<1>2. WalkTypes
  <2>1. 0 <= PageSize /\ 0 <= MaxRows /\ 0 <= MaxLeaves
    BY ListingsAssumption
  <2> QED BY <1>1, <2>1, NoWalkIs DEF WalkTypes, DetailsOK
<1>3. MissedInv
  <2>1. Missed(walk.page * PageSize) = {} /\ walk.left = 0 /\ walk.at = "idle"
    BY NoWalkIs DEF Missed
  <2>2. Cardinality(Missed(walk.page * PageSize)) = 0
    BY <1>1, <2>1
  <2> QED BY <2>1, <2>2 DEF MissedInv
<1>4. OwnersInv
  BY NoWalkIs DEF OwnersInv
<1> QED BY <1>2, <1>3, <1>4 DEF ListingsInv

\* Before the first listing nothing has been missed.
LEMMA ListingsStart ==
  ListingsInit => ListingsInv
<1> SUFFICES ASSUME ListingsInit
             PROVE  ListingsInv
  OBVIOUS
<1>1. <<>> \in Seq(BOOLEAN) /\ <<>> \in Seq(MemberRow) /\ Len(<<>>) = 0
  OBVIOUS
<1>2. TablesInv
  BY <1>1, ListingsAssumption DEF ListingsInit, TablesInv
<1> QED BY <1>2, NoWalkKeeps DEF ListingsInit

\* Rows are added or match anew: those that the walk has missed have not moved up.
LEMMA TableGrows ==
  ASSUME ListingsInv, TablesInv', UNCHANGED <<listing, members, walk>>,
         Matching \subseteq Matching', Len(matches) <= Len(matches')
  PROVE  ListingsInv'
<1>1. PICK n \in Nat : n = Len(matches')
  BY DEF TablesInv
<1>2. Matching' \subseteq 1 .. n
  BY <1>1 DEF TablesInv, Matching
<1>3. WalkTypes'
  <2>1. walk.shown \subseteq 1 .. Len(matches')
    BY ListingsTypes, <1>1 DEF ListingsInv, WalkTypes
  <2> QED BY <2>1 DEF ListingsInv, WalkTypes, DetailsOK
<1>4. MissedInv'
  <2>1. PICK b, S, T : /\ b = walk.page * PageSize
                       /\ S = {i \in walk.stayed \ walk.shown : Place(Matching, i) < b}
                       /\ T = {i \in walk.stayed \ walk.shown : Place(Matching', i) < b}
    OBVIOUS
  <2>2. b \in Nat
    BY <2>1, ListingsTypes, PageEnds
  <2>3. T \subseteq S
    <3> SUFFICES ASSUME NEW i \in walk.stayed \ walk.shown, Place(Matching', i) < b
                 PROVE  Place(Matching, i) < b
      BY <2>1
    <3>1. /\ Place(Matching, i) <= Place(Matching', i)
          /\ Place(Matching, i) \in Nat /\ Place(Matching', i) \in Nat
      BY <1>2, PlaceGrows
    <3> QED BY <2>2, <3>1
  <2>4. Cardinality(T) <= Cardinality(S) /\ Cardinality(S) \in Nat /\ Cardinality(T) \in Nat
    <3>1. S \subseteq 1 .. Len(matches) /\ Len(matches) \in Nat
      BY <2>1, ListingsTypes
    <3> QED BY <2>3, <3>1, MoreRows
  <2>5. Cardinality(S) <= walk.left
    BY <2>1 DEF ListingsInv, MissedInv, Missed
  <2>6. Missed(walk.page * PageSize)' = T
    BY <2>1 DEF Missed, Place, Ahead
  <2>7. Cardinality(T) <= walk.left
    BY <2>4, <2>5, ListingsTypes
  <2> QED BY <2>6, <2>7 DEF ListingsInv, MissedInv, LastPage
<1>5. OwnersInv'
  BY DEF ListingsInv, OwnersInv, OwnersOf, MembershipsOf
<1> QED BY <1>3, <1>4, <1>5 DEF ListingsInv

\* A row is added.
LEMMA RowKeeps ==
  ASSUME ListingsInv, NEW m \in BOOLEAN, Row(m)
  PROVE  ListingsInv'
<1>1. PICK n \in Nat : n = Len(matches)
  BY ListingsTypes
<1>2. PICK k : k = n + 1
  OBVIOUS
<1>3. /\ matches \in Seq(BOOLEAN) /\ n < MaxRows /\ matches' = Append(matches, m)
      /\ UNCHANGED <<listing, members, walk>>
  BY <1>1 DEF Row, ListingsInv, TablesInv
<1>4. /\ matches' \in Seq(BOOLEAN) /\ Len(matches') = k
      /\ \A i \in 1 .. n : matches'[i] = matches[i]
  BY <1>1, <1>2, <1>3
<1>5. k <= MaxRows /\ k \in Nat /\ 1 .. n \subseteq 1 .. k /\ n <= k
  BY <1>1, <1>2, <1>3, ListingsTypes
<1>6. TablesInv'
  BY <1>1, <1>3, <1>4, <1>5 DEF ListingsInv, TablesInv
<1>7. Matching \subseteq Matching'
  BY <1>1, <1>3, <1>4, <1>5 DEF Matching
<1> QED BY <1>1, <1>3, <1>4, <1>5, <1>6, <1>7, TableGrows

\* A row leaves the listing during a walk: at most one of those that the walk has yet
\* to show moves up into the pages before.
LEMMA RowLeaves ==
  ASSUME ListingsInv, TablesInv', NEW x \in Matching, Matching' = Matching \ {x},
         Len(matches') = Len(matches), UNCHANGED <<listing, members>>,
         Underway, walk.left < MaxLeaves,
         walk' = [walk EXCEPT !.left = @ + 1, !.stayed = @ \ {x}]
  PROVE  ListingsInv'
<1>1. PICK n \in Nat : n = Len(matches)
  BY ListingsTypes
<1>2. Matching \subseteq 1 .. n
  BY <1>1, ListingsTypes
<1>3. PICK left, after, stayed, rest :
        /\ left = walk.left /\ after = left + 1
        /\ stayed = walk.stayed /\ rest = stayed \ {x}
  OBVIOUS
<1>4. left \in Nat /\ after \in Nat /\ after <= MaxLeaves /\ stayed \subseteq Matching
  BY <1>3, ListingsTypes
<1>5. rest \subseteq Matching' /\ rest \in SUBSET Nat
  BY <1>2, <1>3, <1>4
<1>6. walk' = [walk EXCEPT !.left = after, !.stayed = rest]
  BY <1>3, ListingsTypes DEF WalkRow
<1>7. /\ walk' \in WalkRow /\ walk'.left = after /\ walk'.stayed = rest
      /\ walk'.at = walk.at /\ walk'.page = walk.page /\ walk'.rows = walk.rows
      /\ walk'.total = walk.total /\ walk'.details = walk.details /\ walk'.met = walk.met
      /\ walk'.shown = walk.shown
  BY <1>4, <1>5, <1>6, ListingsTypes DEF WalkRow
<1>8. WalkTypes'
  <2>1. walk.at # "idle"
    BY DEF Underway
  <2> QED BY <1>4, <1>5, <1>7, <2>1 DEF ListingsInv, WalkTypes, DetailsOK
<1>9. MissedInv'
  <2>1. PICK b, S, T : /\ b = walk.page * PageSize
                       /\ S = {i \in stayed \ walk.shown : Place(Matching, i) < b}
                       /\ T = {i \in rest \ walk.shown : Place(Matching \ {x}, i) < b}
    OBVIOUS
  <2>2. b \in Nat
    BY <2>1, ListingsTypes, PageEnds
  <2>3. Cardinality(S) <= left /\ S \subseteq 1 .. n
    BY <1>2, <1>3, <1>4, <2>1 DEF ListingsInv, MissedInv, Missed
  <2>4. ASSUME NEW i \in T
        PROVE  i \in Matching /\ (i \in S \/ Place(Matching, i) = b)
    <3>1. i \in Matching /\ i \in stayed \ walk.shown /\ Place(Matching \ {x}, i) < b
      BY <1>3, <1>4, <2>1
    <3>2. /\ Place(Matching, i) <= Place(Matching \ {x}, i) + 1
          /\ Place(Matching, i) \in Nat /\ Place(Matching \ {x}, i) \in Nat
      BY <1>2, PlaceShrinks
    <3>3. Place(Matching, i) < b \/ Place(Matching, i) = b
      BY <2>2, <3>1, <3>2
    <3> QED BY <2>1, <3>1, <3>3
  <2>5. \E y : T \subseteq S \cup {y}
    <3>1. CASE T \subseteq S
      BY <3>1
    <3>2. CASE ~(T \subseteq S)
      <4>1. PICK y \in T : y \notin S
        BY <3>2
      <4>2. y \in Matching /\ Place(Matching, y) = b
        BY <2>4, <4>1
      <4>3. ASSUME NEW i \in T, i \notin S
            PROVE  i = y
        BY <1>2, <2>4, <4>2, <4>3, Places
      <4> QED BY <4>3
    <3> QED BY <3>1, <3>2
  <2>6. Cardinality(T) <= after
    <3>1. PICK y : T \subseteq S \cup {y}
      BY <2>5
    <3>2. Cardinality(T) \in Nat /\ Cardinality(T) <= Cardinality(S) + 1
      BY <2>3, <3>1, OneMoreRow
    <3>3. Cardinality(S) \in Nat
      BY <2>3, SomeRows
    <3> QED BY <1>3, <1>4, <2>3, <3>2, <3>3
  <2>7. Missed(walk.page * PageSize)' = T
    BY <1>7, <2>1 DEF Missed, Place, Ahead
  <2>8. ASSUME walk.at \in {"counted", "membered", "answered"}, LastPage
        PROVE  Cardinality(rest \ walk.shown) <= after
    <3>1. Cardinality(stayed \ walk.shown) <= left
      BY <1>3, <2>8 DEF ListingsInv, MissedInv
    <3>2. rest \ walk.shown \subseteq stayed \ walk.shown /\ stayed \ walk.shown \subseteq 1 .. n
      BY <1>2, <1>3, <1>4
    <3>3. /\ Cardinality(rest \ walk.shown) <= Cardinality(stayed \ walk.shown)
          /\ Cardinality(rest \ walk.shown) \in Nat /\ Cardinality(stayed \ walk.shown) \in Nat
      BY <3>2, MoreRows
    <3> QED BY <1>3, <1>4, <3>1, <3>3
  <2> QED BY <1>7, <2>6, <2>7, <2>8 DEF MissedInv, LastPage
<1>10. OwnersInv'
  BY <1>7 DEF ListingsInv, OwnersInv, OwnersOf, MembershipsOf
<1> QED BY <1>8, <1>9, <1>10 DEF ListingsInv

\* A row changes.
LEMMA ChangeKeeps ==
  ASSUME ListingsInv, NEW x \in DOMAIN matches, ChangeRow(x)
  PROVE  ListingsInv'
<1>1. /\ matches' = [matches EXCEPT ![x] = ~matches[x]] /\ UNCHANGED <<listing, members>>
      /\ matches \in Seq(BOOLEAN) /\ x \in 1 .. Len(matches) /\ Len(matches) <= MaxRows
  BY ListingsTypes DEF ChangeRow, ListingsInv, TablesInv
<1>2. /\ matches' \in Seq(BOOLEAN) /\ Len(matches') = Len(matches)
      /\ \A i \in 1 .. Len(matches) : matches'[i] = IF i = x THEN ~matches[x] ELSE matches[i]
  BY <1>1
<1>3. TablesInv'
  BY <1>1, <1>2 DEF ListingsInv, TablesInv
<1>4. DOMAIN matches' = DOMAIN matches /\ DOMAIN matches = 1 .. Len(matches)
  BY <1>1, ListingsTypes
<1>5. CASE ~matches[x]
  <2>1. walk' = walk
    BY <1>5 DEF ChangeRow
  <2>2. Matching \subseteq Matching'
    BY <1>2, <1>4, <1>5 DEF Matching
  <2>3. Len(matches) <= Len(matches')
    BY <1>2, ListingsTypes
  <2> QED BY <1>1, <1>3, <2>1, <2>2, <2>3, TableGrows
<1>6. CASE matches[x] /\ ~Underway
  <2>1. walk' = walk /\ walk = NoWalk
    BY <1>6 DEF ChangeRow, Underway, ListingsInv, WalkTypes
  <2>2. walk' = NoWalk
    BY <2>1
  <2>3. (TablesInv /\ walk = NoWalk => ListingsInv)'
    BY NoWalkKeeps, PTL
  <2> QED BY <1>3, <2>2, <2>3
<1>7. CASE matches[x] /\ Underway
  <2>1. walk.left < MaxLeaves /\ walk' = [walk EXCEPT !.left = @ + 1, !.stayed = @ \ {x}]
    BY <1>7 DEF ChangeRow
  <2>2. x \in Matching /\ Matching' = Matching \ {x}
    BY <1>2, <1>4, <1>7 DEF Matching
  <2> QED BY <1>1, <1>2, <1>3, <1>7, <2>1, <2>2, RowLeaves
<1> QED BY <1>5, <1>6, <1>7

\* Somebody joins: after the counts of the page, then it is noted.
LEMMA JoinKeeps ==
  ASSUME ListingsInv, NEW i \in DOMAIN matches, NEW role \in {"OWNER", "MEMBER"}, JoinOrg(i, role)
  PROVE  ListingsInv'
<1>1. PICK n \in Nat : n = Len(members)
  BY ListingsTypes
<1>2. PICK k : k = n + 1
  OBVIOUS
<1>3. PICK R : R = MemberRow
  OBVIOUS
<1>4. PICK m \in R : m = [of |-> i, role |-> role]
  <2>1. i \in Nat
    BY ListingsTypes
  <2> QED BY <1>3, <2>1 DEF MemberRow
<1>5. /\ members \in Seq(R) /\ n < MaxJoins /\ members' = Append(members, m)
      /\ UNCHANGED <<listing, matches>>
  BY <1>1, <1>3, <1>4 DEF JoinOrg, ListingsInv, TablesInv
<1>6. /\ members' \in Seq(R) /\ Len(members') = k /\ members'[k] = m
      /\ \A j \in 1 .. n : members'[j] = members[j]
  BY <1>1, <1>2, <1>5
<1>7. k <= MaxJoins /\ k \in Nat /\ \A j \in 1 .. k : j \in 1 .. n \/ j = k
  BY <1>1, <1>2, <1>5, ListingsTypes
<1>8. TablesInv'
  <2>1. \A j \in 1 .. k : members'[j].of \in 1 .. Len(matches)
    <3>1. \A j \in 1 .. n : members[j].of \in 1 .. Len(matches)
      BY <1>1 DEF ListingsInv, TablesInv
    <3>2. m.of \in 1 .. Len(matches)
      BY <1>4, ListingsTypes
    <3> QED BY <1>6, <1>7, <3>1, <3>2
  <2>2. members' \in Seq(MemberRow) /\ Len(members') <= MaxJoins
    BY <1>3, <1>6, <1>7
  <2> QED BY <1>5, <1>6, <2>1, <2>2 DEF ListingsInv, TablesInv
<1>9. PICK met : met = (walk.met \/ walk.at = "membered")
  OBVIOUS
<1>10. /\ walk' \in WalkRow /\ (walk'.met <=> walk.met \/ walk.at = "membered")
       /\ walk'.at = walk.at /\ walk'.page = walk.page /\ walk'.rows = walk.rows
       /\ walk'.total = walk.total /\ walk'.details = walk.details /\ walk'.left = walk.left
       /\ walk'.shown = walk.shown /\ walk'.stayed = walk.stayed
  <2>1. walk' = [walk EXCEPT !.met = walk.met \/ walk.at = "membered"]
    BY DEF JoinOrg
  <2> QED BY <2>1, ListingsTypes DEF WalkRow
<1>11. CASE walk = NoWalk
  <2>1. walk' = NoWalk
    BY <1>11, NoWalkIs DEF JoinOrg, NoWalk
  <2>2. (TablesInv /\ walk = NoWalk => ListingsInv)'
    BY NoWalkKeeps, PTL
  <2> QED BY <1>8, <2>1, <2>2
<1>12. CASE walk # NoWalk
  <2>1. WalkTypes'
    BY <1>5, <1>10, <1>12 DEF ListingsInv, WalkTypes, DetailsOK, Matching
  <2>2. MissedInv'
    <3>1. Missed(walk.page * PageSize)' = Missed(walk.page * PageSize)
      BY <1>5, <1>10 DEF Missed, Place, Ahead, Matching
    <3> QED BY <1>10, <3>1 DEF ListingsInv, MissedInv, LastPage
  <2>3. OwnersInv'
    BY <1>5, <1>10 DEF ListingsInv, OwnersInv
  <2> QED BY <1>8, <2>1, <2>2, <2>3 DEF ListingsInv
<1> QED BY <1>11, <1>12

\* A sequence without one of its elements.
Without(s, k) == SubSeq(s, 1, k - 1) \o SubSeq(s, k + 1, Len(s))

\* What is left of a sequence when one of its elements has gone.
LEMMA OneRemoved ==
  ASSUME NEW R, NEW s \in Seq(R), NEW k \in 1 .. Len(s)
  PROVE  /\ Without(s, k) \in Seq(R) /\ Len(Without(s, k)) <= Len(s)
         /\ \A j \in 1 .. Len(Without(s, k)) : \E i \in 1 .. Len(s) : Without(s, k)[j] = s[i]
<1>0. PICK t : t = Without(s, k)
  OBVIOUS
<1>1. PICK n \in Nat : n = Len(s)
  OBVIOUS
<1>2. PICK a, b : a = k - 1 /\ b = k + 1
  OBVIOUS
<1>3. k \in 1 .. n /\ a \in Nat /\ b \in Nat /\ a <= n /\ b = a + 2 /\ a + 1 <= n
  BY <1>1, <1>2
<1>4. PICK u, v : u = SubSeq(s, 1, a) /\ v = SubSeq(s, b, n)
  OBVIOUS
<1>5. PICK d \in Nat : d = n - a - 1
  <2>1. a \in Nat /\ a + 1 <= n /\ n \in Nat
    BY <1>3
  <2>2. n - a - 1 \in Nat
    BY <2>1
  <2> QED BY <2>2
<1>6. u \in Seq(R) /\ Len(u) = a /\ \A j \in 1 .. a : u[j] = s[j]
  BY <1>1, <1>3, <1>4
<1>7. v \in Seq(R) /\ Len(v) = d /\ \A j \in 1 .. d : v[j] = s[b + j - 1]
  <2>1. v \in Seq(R)
    BY <1>1, <1>3, <1>4
  <2>2. Len(v) = IF b <= n THEN n - b + 1 ELSE 0
    BY <1>1, <1>3, <1>4
  <2>3. Len(v) = d
    BY <1>1, <1>3, <1>5, <2>2
  <2>4. \A j \in 1 .. d : v[j] = s[b + j - 1]
    BY <1>1, <1>3, <1>4, <1>5, <2>3
  <2> QED BY <2>1, <2>3, <2>4
<1>8. t = u \o v
  BY <1>0, <1>1, <1>2, <1>4 DEF Without
<1>9. /\ t \in Seq(R) /\ Len(t) = a + d
      /\ \A j \in 1 .. (a + d) : t[j] = IF j <= a THEN u[j] ELSE v[j - a]
  <2>1. /\ u \o v \in Seq(R) /\ Len(u \o v) = Len(u) + Len(v)
        /\ \A j \in 1 .. Len(u) + Len(v) : (u \o v)[j] = IF j <= Len(u) THEN u[j] ELSE v[j - Len(u)]
    BY <1>6, <1>7, ConcatProperties
  <2> QED BY <1>6, <1>7, <1>8, <2>1
<1>10. ASSUME NEW j \in 1 .. (a + d)
       PROVE  \E i \in 1 .. n : t[j] = s[i]
  <2>1. CASE j <= a
    <3>1. j \in 1 .. a /\ j \in 1 .. n
      BY <1>1, <1>3, <1>5, <2>1
    <3> QED BY <1>6, <1>9, <2>1, <3>1
  <2>2. CASE ~(j <= a)
    <3>1. PICK e \in 1 .. d : e = j - a
      BY <1>3, <1>5, <2>2
    <3>2. PICK i \in 1 .. n : i = b + e - 1
      BY <1>1, <1>3, <1>5, <3>1
    <3>3. t[j] = v[e] /\ v[e] = s[i]
      BY <1>7, <1>9, <2>2, <3>1, <3>2
    <3> QED BY <3>3
  <2> QED BY <2>1, <2>2
<1>11. a + d <= n
  BY <1>3, <1>5
<1> QED BY <1>0, <1>1, <1>9, <1>10, <1>11

\* A member leaves: nobody becomes an owner by it.
LEMMA LeaveKeeps ==
  ASSUME ListingsInv, NEW k \in DOMAIN members, LeaveOrg(k)
  PROVE  ListingsInv'
<1>1. PICK R : R = MemberRow
  OBVIOUS
<1>2. /\ members \in Seq(R) /\ Len(members) <= MaxJoins /\ k \in 1 .. Len(members)
      /\ members' = Without(members, k)
      /\ UNCHANGED <<listing, matches, walk>>
  BY <1>1, ListingsTypes DEF LeaveOrg, Without, ListingsInv, TablesInv
<1>3. /\ members' \in Seq(R) /\ Len(members') <= Len(members)
      /\ \A j \in 1 .. Len(members') : \E i \in 1 .. Len(members) : members'[j] = members[i]
  BY <1>2, OneRemoved
<1>4. TablesInv'
  <2>1. Len(members') <= MaxJoins
    <3>1. Len(members') \in Nat /\ Len(members) \in Nat
      BY <1>2, <1>3
    <3> QED BY <1>2, <1>3, <3>1, ListingsTypes
  <2>2. \A j \in 1 .. Len(members') : members'[j].of \in 1 .. Len(matches)
    BY <1>3 DEF ListingsInv, TablesInv
  <2> QED BY <1>1, <1>2, <1>3, <2>1, <2>2 DEF ListingsInv, TablesInv
<1>5. WalkTypes'
  BY <1>2 DEF ListingsInv, WalkTypes, DetailsOK, Matching
<1>6. MissedInv'
  BY <1>2 DEF ListingsInv, MissedInv, LastPage, Missed, Place, Ahead, Matching
<1>7. OwnersInv'
  <2>1. DOMAIN members' = 1 .. Len(members') /\ DOMAIN members = 1 .. Len(members)
    BY <1>2, <1>3
  <2>2. ASSUME NEW i, OwnersOf(i)' # {}
        PROVE  OwnersOf(i) # {}
    <3>1. PICK j \in 1 .. Len(members') : members'[j].of = i /\ members'[j].role = "OWNER"
      BY <2>1, <2>2 DEF OwnersOf, MembershipsOf
    <3> QED BY <1>3, <2>1, <3>1 DEF OwnersOf, MembershipsOf
  <2> QED BY <1>2, <2>2 DEF ListingsInv, OwnersInv
<1> QED BY <1>4, <1>5, <1>6, <1>7 DEF ListingsInv

\* A page is shown: of the rows with a place below its end the walk has missed none
\* that it had not missed before.
LEMMA PageKeeps ==
  ASSUME ListingsInv, NEW p \in Nat, ShowPage(p, PageRows(p)),
         \/ p = 1 /\ walk.at = "idle"
         \/ p = walk.page + 1 /\ walk.at = "answered"
  PROVE  ListingsInv'
<1>1. PICK n \in Nat : n = Len(matches)
  BY ListingsTypes
<1>2. PICK rows : rows = PageRows(p)
  OBVIOUS
<1>3. Matching \subseteq 1 .. n /\ rows \subseteq Matching /\ Cardinality(rows) <= PageSize
  BY <1>1, <1>2, ListingsTypes, PageIsFull
<1>4. PICK shown, stayed : /\ shown = walk.shown \cup rows
                           /\ stayed = IF p = 1 THEN Matching ELSE walk.stayed
  OBVIOUS
<1>5. /\ rows \in SUBSET Nat /\ shown \in SUBSET Nat /\ stayed \in SUBSET Nat
      /\ shown \subseteq 1 .. n /\ stayed \subseteq Matching
  <2>1. walk.shown \subseteq 1 .. n /\ walk.stayed \subseteq Matching
    BY <1>1 DEF ListingsInv, WalkTypes
  <2>2. 1 .. n \subseteq Nat
    OBVIOUS
  <2>3. shown \subseteq 1 .. n /\ stayed \subseteq Matching /\ rows \subseteq 1 .. n
    BY <1>3, <1>4, <2>1
  <2> QED BY <1>3, <2>2, <2>3
<1>6. /\ walk' = [walk EXCEPT !.at = "listed", !.page = p, !.rows = rows, !.details = <<>>,
                              !.met = FALSE, !.shown = shown, !.stayed = stayed]
      /\ UNCHANGED <<listing, matches, members>>
  BY <1>2, <1>4, ListingsTypes DEF ShowPage, WalkRow
<1>7. /\ walk' \in WalkRow /\ walk'.at = "listed" /\ walk'.page = p /\ walk'.rows = rows
      /\ walk'.details = <<>> /\ walk'.shown = shown /\ walk'.stayed = stayed
      /\ walk'.total = walk.total /\ walk'.left = walk.left
  BY <1>5, <1>6, DetailsNone, ListingsTypes DEF WalkRow
<1>8. Matching' = Matching /\ TablesInv'
  BY <1>6 DEF Matching, ListingsInv, TablesInv
<1>9. p >= 1
  BY ListingsTypes
<1>10. WalkTypes'
  <2>1. rows \subseteq shown
    BY <1>4
  <2> QED BY <1>1, <1>3, <1>5, <1>6, <1>7, <1>8, <1>9, <2>1 DEF ListingsInv, WalkTypes, DetailsOK
<1>11. PICK T : T = {i \in stayed \ shown : Place(Matching, i) < p * PageSize}
  OBVIOUS
<1>12. Missed(walk.page * PageSize)' = T
  BY <1>6, <1>7, <1>8, <1>11 DEF Missed, Place, Ahead
<1>13. ASSUME NEW i \in T
       PROVE  i \in Matching /\ i \in stayed /\ i \notin walk.shown /\ Place(Matching, i) < Offset(p)
  <2>1. i \in Matching /\ i \in stayed /\ i \notin walk.shown /\ i \notin rows
    BY <1>4, <1>5, <1>11
  <2>2. PICK a, b, c : a = Place(Matching, i) /\ b = Offset(p) /\ c = p * PageSize
    OBVIOUS
  <2>3. a \in Nat /\ b \in Int /\ c = b + PageSize /\ PageSize \in Nat \ {0} /\ a < c
    <3>1. a \in Nat
      BY <1>3, <2>1, <2>2, Places
    <3>2. c = b + PageSize /\ PageSize \in Nat \ {0} /\ c \in Nat
      BY <2>2, PageEnds
    <3>3. b \in Int
      BY <2>2, <3>2 DEF Offset
    <3> QED BY <1>11, <2>2, <3>1, <3>2, <3>3
  <2>4. a \notin b .. b + PageSize - 1
    BY <1>2, <2>1, <2>2 DEF PageRows
  <2>5. a < b
    BY <2>3, <2>4
  <2> QED BY <2>1, <2>2, <2>5
<1>14. Cardinality(T) <= walk.left
  <2>1. CASE p = 1 /\ walk.at = "idle"
    <3>1. ASSUME NEW i \in T
          PROVE  FALSE
      <4>1. Place(Matching, i) < 0 /\ Place(Matching, i) \in Nat
        <5>1. Offset(p) = 0 /\ i \in Matching /\ Place(Matching, i) < Offset(p)
          BY <1>13, <2>1, PageEnds
        <5>2. Place(Matching, i) \in Nat
          BY <1>3, <5>1, Places
        <5> QED BY <5>1, <5>2
      <4> QED BY <4>1
    <3>2. T = {} /\ walk.left = 0
      BY <2>1, <3>1, NoWalkIs DEF ListingsInv, WalkTypes
    <3> QED BY <3>2, FS_EmptySet
  <2>2. CASE p = walk.page + 1 /\ walk.at = "answered"
    <3>1. p # 1 /\ Offset(p) = walk.page * PageSize
      <4>1. walk.page >= 1 /\ walk.page \in Nat
        BY <2>2, ListingsTypes DEF ListingsInv, WalkTypes
      <4> QED BY <2>2, <4>1, PageEnds
    <3>2. PICK S : S = Missed(walk.page * PageSize)
      OBVIOUS
    <3>3. T \subseteq S /\ S \subseteq 1 .. n
      BY <1>3, <1>4, <1>5, <1>13, <3>1, <3>2 DEF Missed
    <3>4. /\ Cardinality(T) <= Cardinality(S) /\ Cardinality(T) \in Nat /\ Cardinality(S) \in Nat
      BY <3>3, MoreRows
    <3>5. Cardinality(S) <= walk.left
      BY <3>2 DEF ListingsInv, MissedInv
    <3> QED BY <3>4, <3>5, ListingsTypes
  <2> QED BY <2>1, <2>2
<1>15. MissedInv'
  BY <1>7, <1>12, <1>14 DEF MissedInv
<1>16. OwnersInv'
  BY <1>7 DEF OwnersInv
<1> QED BY <1>8, <1>10, <1>15, <1>16 DEF ListingsInv

\* A walk begins with its first page.
LEMMA OpenKeeps ==
  ListingsInv /\ OpenListing => ListingsInv'
<1> SUFFICES ASSUME ListingsInv, OpenListing
             PROVE  ListingsInv'
  OBVIOUS
<1>1. ShowPage(1, PageRows(1)) /\ walk.at = "idle"
  BY AskedRows DEF OpenListing
<1> QED BY <1>1, PageKeeps

\* The page is turned.
LEMMA TurnKeeps ==
  ListingsInv /\ TurnPage => ListingsInv'
<1> SUFFICES ASSUME ListingsInv, TurnPage
             PROVE  ListingsInv'
  OBVIOUS
<1>1. PICK p \in Nat : p = walk.page + 1
  BY ListingsTypes
<1>2. ShowPage(p, PageRows(p)) /\ walk.at = "answered"
  BY <1>1, AskedRows DEF TurnPage
<1> QED BY <1>1, <1>2, PageKeeps

\* The total is read: with the last page, the places of all rows are below its end.
LEMMA ReadCountKeeps ==
  ListingsInv /\ ReadCount => ListingsInv'
<1> SUFFICES ASSUME ListingsInv, ReadCount
             PROVE  ListingsInv'
  OBVIOUS
<1>1. PICK n \in Nat : n = Len(matches)
  BY ListingsTypes
<1>2. PICK total, at : /\ total = Cardinality(Matching)
                       /\ at = IF listing \in {"users", "orgs"} THEN "counted" ELSE "answered"
  OBVIOUS
<1>3. Matching \subseteq 1 .. n /\ total \in Nat /\ total <= n /\ n <= MaxRows
  BY <1>1, <1>2, ListingsTypes, SomeRows
<1>4. walk' = [walk EXCEPT !.total = total, !.at = at] /\ walk.at = "listed"
      /\ UNCHANGED <<listing, matches, members>>
  BY <1>2, ListingsTypes DEF ReadCount, WalkRow
<1>5. /\ walk' \in WalkRow /\ walk'.at = at /\ walk'.total = total /\ walk'.page = walk.page
      /\ walk'.rows = walk.rows /\ walk'.details = walk.details /\ walk'.met = walk.met
      /\ walk'.shown = walk.shown /\ walk'.stayed = walk.stayed /\ walk'.left = walk.left
      /\ at \in {"counted", "answered"}
  BY <1>2, <1>3, <1>4, ListingsTypes DEF WalkRow
<1>6. Matching' = Matching /\ TablesInv'
  BY <1>4 DEF Matching, ListingsInv, TablesInv
<1>7. WalkTypes'
  <2>1. total <= MaxRows
    BY <1>3, ListingsTypes
  <2> QED BY <1>4, <1>5, <1>6, <2>1 DEF ListingsInv, WalkTypes, DetailsOK
<1>8. MissedInv'
  <2>1. PICK b, S : b = walk.page * PageSize /\ S = Missed(b)
    OBVIOUS
  <2>2. Cardinality(S) <= walk.left /\ b \in Nat
    BY <2>1, ListingsTypes, PageEnds DEF ListingsInv, MissedInv
  <2>3. Missed(walk.page * PageSize)' = S
    BY <1>4, <1>5, <1>6, <2>1 DEF Missed, Place, Ahead
  <2>4. ASSUME LastPage'
        PROVE  Cardinality(walk.stayed \ walk.shown) <= walk.left
    <3>1. b >= total
      BY <1>5, <2>1, <2>4 DEF LastPage
    <3>2. ASSUME NEW i \in walk.stayed \ walk.shown
          PROVE  i \in S
      <4>1. i \in Matching
        BY ListingsTypes
      <4>2. Place(Matching, i) \in Nat /\ Place(Matching, i) < total
        BY <1>2, <1>3, <4>1, Places
      <4>3. Place(Matching, i) < b
        BY <1>3, <2>2, <3>1, <4>2
      <4> QED BY <2>1, <4>3 DEF Missed
    <3>3. walk.stayed \ walk.shown = S
      BY <2>1, <3>2 DEF Missed
    <3> QED BY <2>2, <3>3
  <2> QED BY <1>5, <2>1, <2>2, <2>3, <2>4 DEF MissedInv
<1>9. OwnersInv'
  <2>1. walk'.at # "membered"
    BY <1>5
  <2>2. CASE listing = "orgs"
    BY <1>2, <1>4, <1>5, <2>2 DEF OwnersInv
  <2>3. CASE listing # "orgs"
    BY <1>4, <2>3 DEF OwnersInv
  <2> QED BY <2>2, <2>3
<1> QED BY <1>6, <1>7, <1>8, <1>9 DEF ListingsInv

\* What is counted of the rows of a page.
LEMMA Counts ==
  ASSUME ListingsInv
  PROVE  /\ GroupedCounts \in [walk.rows -> DetailRow] /\ GroupedCounts \in DetailSets
         /\ \A i \in walk.rows : /\ GroupedCounts[i].count <= MaxJoins
                                 /\ ~GroupedCounts[i].owned
                                 /\ OwnersOf(i) # {} => GroupedCounts[i].count > 0
<1>1. PICK n \in Nat : n = Len(members)
  BY ListingsTypes
<1>2. ASSUME NEW i
      PROVE  /\ Cardinality(MembershipsOf(i)) \in Nat /\ Cardinality(MembershipsOf(i)) <= MaxJoins
             /\ OwnersOf(i) # {} => Cardinality(MembershipsOf(i)) > 0
  <2>1. PICK S : S = MembershipsOf(i)
    OBVIOUS
  <2>2. S \subseteq 1 .. n /\ n <= MaxJoins
    BY <1>1, <2>1, ListingsTypes DEF MembershipsOf, ListingsInv, TablesInv
  <2>3. IsFiniteSet(S) /\ Cardinality(S) \in Nat /\ Cardinality(S) <= n
    BY <2>2, SomeRows
  <2>4. Cardinality(S) = 0 => S = {}
    BY <2>3, FS_EmptySet
  <2>5. OwnersOf(i) # {} => S # {}
    BY <2>1 DEF OwnersOf
  <2>6. Cardinality(S) <= MaxJoins
    BY <1>1, <2>2, <2>3, ListingsTypes
  <2>7. S # {} => Cardinality(S) > 0
    BY <2>3, <2>4
  <2> QED BY <2>1, <2>3, <2>5, <2>6, <2>7
<1>3. \A i \in walk.rows : /\ GroupedCounts[i].count = Cardinality(MembershipsOf(i))
                           /\ GroupedCounts[i].owned = FALSE
  BY DEF GroupedCounts
<1>4. GroupedCounts \in [walk.rows -> DetailRow]
  BY <1>2 DEF GroupedCounts, DetailRow
<1>5. walk.rows \in SUBSET Nat
  BY ListingsTypes DEF WalkRow
<1> QED BY <1>2, <1>3, <1>4, <1>5, DetailsNone

\* Of the rows of a page something is read: nothing else of the walk changes.
LEMMA DetailsKeep ==
  ASSUME ListingsInv, NEW at \in {"membered", "answered"}, NEW details,
         details \in [walk.rows -> DetailRow],
         \A i \in walk.rows : details[i].count <= MaxJoins,
         walk.at \in {"counted", "membered"},
         UNCHANGED <<listing, matches, members>>,
         \/ walk' = [walk EXCEPT !.at = at, !.details = details]
         \/ walk' = [walk EXCEPT !.at = at, !.met = FALSE, !.details = details]
  PROVE  /\ TablesInv' /\ WalkTypes' /\ MissedInv'
         /\ walk'.at = at /\ walk'.details = details /\ walk'.rows = walk.rows
         /\ walk' = [walk EXCEPT !.at = at, !.details = details] => walk'.met = walk.met
<1>1. details \in DetailSets
  <2>1. walk.rows \in SUBSET Nat
    BY ListingsTypes DEF WalkRow
  <2> QED BY <2>1, DetailsNone
<1>2. /\ walk' \in WalkRow /\ walk'.at = at /\ walk'.total = walk.total /\ walk'.page = walk.page
      /\ walk'.rows = walk.rows /\ walk'.details = details
      /\ walk'.shown = walk.shown /\ walk'.stayed = walk.stayed /\ walk'.left = walk.left
      /\ walk' = [walk EXCEPT !.at = at, !.details = details] => walk'.met = walk.met
  <2>1. CASE walk' = [walk EXCEPT !.at = at, !.details = details]
    BY <1>1, <2>1, ListingsTypes DEF WalkRow
  <2>2. CASE walk' = [walk EXCEPT !.at = at, !.met = FALSE, !.details = details]
    <3>1. /\ walk' \in WalkRow /\ walk'.at = at /\ walk'.total = walk.total
          /\ walk'.page = walk.page /\ walk'.rows = walk.rows /\ walk'.details = details
          /\ walk'.shown = walk.shown /\ walk'.stayed = walk.stayed /\ walk'.left = walk.left
      BY <1>1, <2>2, ListingsTypes DEF WalkRow
    <3>2. walk' = [walk EXCEPT !.at = at, !.details = details] => walk'.met = walk.met
      BY ListingsTypes DEF WalkRow
    <3> QED BY <3>1, <3>2
  <2> QED BY <2>1, <2>2
<1>3. Matching' = Matching /\ TablesInv'
  BY DEF Matching, ListingsInv, TablesInv
<1>4. WalkTypes'
  BY <1>2, <1>3 DEF ListingsInv, WalkTypes, DetailsOK
<1>5. MissedInv'
  <2>1. Missed(walk.page * PageSize)' = Missed(walk.page * PageSize)
    BY <1>2, <1>3 DEF Missed, Place, Ahead
  <2> QED BY <1>2, <2>1 DEF ListingsInv, MissedInv, LastPage
<1> QED BY <1>2, <1>3, <1>4, <1>5

\* The orgs of the users of a page are counted.
LEMMA UserOrgsKeep ==
  ListingsInv /\ ReadUserOrgs => ListingsInv'
<1> SUFFICES ASSUME ListingsInv, ReadUserOrgs
             PROVE  ListingsInv'
  OBVIOUS
<1>1. PICK details : details = GroupedCounts
  OBVIOUS
<1>2. /\ details \in [walk.rows -> DetailRow]
      /\ \A i \in walk.rows : details[i].count <= MaxJoins
  BY <1>1, Counts
<1>3. /\ walk' = [walk EXCEPT !.at = "answered", !.details = details]
      /\ walk.at \in {"counted", "membered"} /\ UNCHANGED <<listing, matches, members>>
      /\ listing = "users"
  BY <1>1 DEF ReadUserOrgs
<1>4. TablesInv' /\ WalkTypes' /\ MissedInv'
  BY <1>2, <1>3, DetailsKeep
<1>5. OwnersInv'
  BY <1>3 DEF OwnersInv
<1> QED BY <1>4, <1>5 DEF ListingsInv

\* The members of the orgs of a page are counted: an org with an owner has some.
LEMMA OrgCountsKeep ==
  ListingsInv /\ ReadOrgCounts => ListingsInv'
<1> SUFFICES ASSUME ListingsInv, ReadOrgCounts
             PROVE  ListingsInv'
  OBVIOUS
<1>1. PICK details : details = GroupedCounts
  OBVIOUS
<1>2. /\ details \in [walk.rows -> DetailRow]
      /\ \A i \in walk.rows : details[i].count <= MaxJoins
      /\ \A i \in walk.rows : OwnersOf(i) # {} => details[i].count > 0
  BY <1>1, Counts
<1>3. /\ walk' = [walk EXCEPT !.at = "membered", !.met = FALSE, !.details = details]
      /\ walk.at \in {"counted", "membered"} /\ UNCHANGED <<listing, matches, members>>
  BY <1>1 DEF ReadOrgCounts
<1>4. /\ TablesInv' /\ WalkTypes' /\ MissedInv'
      /\ walk'.at = "membered" /\ walk'.details = details /\ walk'.rows = walk.rows
  BY <1>2, <1>3, DetailsKeep
<1>5. OwnersInv'
  BY <1>2, <1>3, <1>4 DEF OwnersInv, OwnersOf, MembershipsOf
<1> QED BY <1>4, <1>5 DEF ListingsInv

\* The owners of the orgs of a page are read: members left at most since the count.
LEMMA OrgOwnersKeep ==
  ListingsInv /\ ReadOrgOwners => ListingsInv'
<1> SUFFICES ASSUME ListingsInv, ReadOrgOwners
             PROVE  ListingsInv'
  OBVIOUS
<1>1. PICK details :
        details = [i \in walk.rows |-> [walk.details[i] EXCEPT !.owned = OwnersOf(i) # {}]]
  OBVIOUS
<1>2. /\ walk' = [walk EXCEPT !.at = "answered", !.details = details]
      /\ walk.at = "membered" /\ UNCHANGED <<listing, matches, members>>
  BY <1>1 DEF ReadOrgOwners
<1>3. /\ walk.details \in [walk.rows -> DetailRow]
      /\ \A i \in walk.rows : walk.details[i].count <= MaxJoins
  BY <1>2 DEF ListingsInv, WalkTypes, DetailsOK
<1>4. ASSUME NEW i \in walk.rows
      PROVE  /\ details[i] \in DetailRow /\ details[i].count = walk.details[i].count
             /\ details[i].owned <=> OwnersOf(i) # {}
  <2>1. PICK owned \in BOOLEAN : owned <=> OwnersOf(i) # {}
    OBVIOUS
  <2>2. details[i] = [walk.details[i] EXCEPT !.owned = owned]
    BY <1>1, <2>1
  <2> QED BY <1>3, <2>1, <2>2 DEF DetailRow
<1>5. /\ details \in [walk.rows -> DetailRow]
      /\ \A i \in walk.rows : details[i].count <= MaxJoins
  BY <1>1, <1>3, <1>4
<1>6. /\ TablesInv' /\ WalkTypes' /\ MissedInv'
      /\ walk'.at = "answered" /\ walk'.details = details /\ walk'.rows = walk.rows
      /\ walk'.met = walk.met
  <2>1. walk.at \in {"counted", "membered"}
    BY <1>2
  <2> QED BY <1>2, <1>5, <2>1, DetailsKeep
<1>7. OwnersInv'
  <2>1. ASSUME listing = "orgs", ~walk.met, NEW i \in walk.rows, details[i].owned
        PROVE  details[i].count > 0
    BY <1>2, <1>4, <2>1 DEF ListingsInv, OwnersInv
  <2> QED BY <1>2, <1>6, <2>1 DEF OwnersInv
<1> QED BY <1>6, <1>7 DEF ListingsInv

\* Every step of the tables and of the walk keeps the invariant.
LEMMA ListingsKept ==
  ListingsInv /\ [ListingsNext]_listingsVars => ListingsInv'
<1> SUFFICES ASSUME ListingsInv, [ListingsNext]_listingsVars
             PROVE  ListingsInv'
  OBVIOUS
<1>1. CASE AddRow
  BY <1>1, RowKeeps DEF AddRow
<1>2. CASE FileReport
  BY <1>2, RowKeeps DEF FileReport
<1>3. ASSUME NEW i \in DOMAIN matches, ChangeRow(i)
      PROVE  ListingsInv'
  BY <1>3, ChangeKeeps
<1>4. ASSUME NEW i \in DOMAIN matches, NEW role \in {"OWNER", "MEMBER"}, JoinOrg(i, role)
      PROVE  ListingsInv'
  BY <1>4, JoinKeeps
<1>5. ASSUME NEW k \in DOMAIN members, LeaveOrg(k)
      PROVE  ListingsInv'
  BY <1>5, LeaveKeeps
<1>6. CASE CloseListing
  <2>1. TablesInv' /\ walk' = NoWalk
    BY <1>6 DEF CloseListing, ListingsInv, TablesInv
  <2>2. (TablesInv /\ walk = NoWalk => ListingsInv)'
    BY NoWalkKeeps, PTL
  <2> QED BY <2>1, <2>2
<1>7. CASE UNCHANGED listingsVars
  BY <1>7 DEF listingsVars, ListingsInv, TablesInv, WalkTypes, MissedInv, OwnersInv, DetailsOK,
              Matching, Missed, Place, Ahead, LastPage, OwnersOf, MembershipsOf
<1> QED BY <1>1, <1>2, <1>3, <1>4, <1>5, <1>6, <1>7, OpenKeeps, TurnKeeps, ReadCountKeeps,
           UserOrgsKeep, OrgCountsKeep, OrgOwnersKeep DEF ListingsNext

\* However rows, members and the reader's pages interleave, the walk misses of the
\* places of its pages no more rows than have left the listing.
THEOREM ListingsInvariant == ListingsSpec => []ListingsInv
<1>1. ListingsInv /\ [ListingsNext]_listingsVars => ListingsInv'
  BY ListingsKept
<1> QED BY <1>1, ListingsStart, PTL DEF ListingsSpec

\* A walk through AdminService's or LinkService.List's pages shows every row that was
\* there throughout, but for one per row that left, and an org's counts and owner agree.
THEOREM PagesTellTheTableHolds == ListingsSpec => []PagesTellTheTable
<1>1. ListingsInv => PagesTellTheTable
  BY DEF ListingsInv, MissedInv, OwnersInv, PagesTellTheTable
<1> QED BY <1>1, ListingsInvariant, PTL

\* The invariant gives the types of the tables and of the walk.
LEMMA ListingsTyped ==
  ListingsInv => ListingsTypeOK
<1> SUFFICES ASSUME ListingsInv
             PROVE  ListingsTypeOK
  OBVIOUS
<1>1. /\ listing \in Growing \cup Changing
      /\ matches \in Seq(BOOLEAN) /\ Len(matches) <= MaxRows /\ Len(members) <= MaxJoins
  BY DEF ListingsInv, TablesInv
<1>2. members \in Seq([of : DOMAIN matches, role : {"OWNER", "MEMBER"}])
  <2>1. PICK R, Q : R = MemberRow /\ Q = [of : DOMAIN matches, role : {"OWNER", "MEMBER"}]
    OBVIOUS
  <2>2. \A r \in R : r.of \in DOMAIN matches => r \in Q
    BY <2>1 DEF MemberRow
  <2>3. members \in Seq(R) /\ \A k \in 1 .. Len(members) : members[k].of \in DOMAIN matches
    BY <2>1, ListingsTypes DEF ListingsInv, TablesInv
  <2>4. \A k \in 1 .. Len(members) : members[k] \in Q
    BY <2>2, <2>3
  <2>5. members = [k \in 1 .. Len(members) |-> members[k]] /\ Len(members) \in Nat
    BY <2>3
  <2>6. members \in [1 .. Len(members) -> Q]
    BY <2>4, <2>5
  <2>7. \A n \in Nat : \A s \in [1 .. n -> Q] : s \in Seq(Q)
    OBVIOUS
  <2>8. members \in Seq(Q)
    BY <2>5, <2>6, <2>7
  <2> QED BY <2>1, <2>8
<1>3. /\ walk.at \in {"idle", "listed", "counted", "membered", "answered"}
      /\ walk.page \in Nat /\ walk.total \in 0 .. MaxRows
      /\ walk.rows \subseteq walk.shown /\ walk.shown \subseteq DOMAIN matches
      /\ walk.stayed \subseteq DOMAIN matches
      /\ Cardinality(walk.rows) <= PageSize
      /\ walk.left \in 0 .. MaxLeaves /\ walk.met \in BOOLEAN
  BY ListingsTypes DEF ListingsInv, WalkTypes, WalkRow, Matching
<1>4. walk.details # <<>> => walk.details \in [walk.rows -> [count : 0 .. MaxJoins, owned : BOOLEAN]]
  <2>1. PICK P : P = [count : 0 .. MaxJoins, owned : BOOLEAN]
    OBVIOUS
  <2>2. \A d \in DetailRow : d.count <= MaxJoins => d \in P
    BY <2>1, ListingsTypes DEF DetailRow
  <2> QED BY <2>1, <2>2 DEF ListingsInv, WalkTypes, DetailsOK
<1> QED BY <1>1, <1>2, <1>3, <1>4 DEF ListingsTypeOK

-----------------------------------------------------------------------------
(***************************************************************************)
(* The composition.  A behaviour of it is, of the component that it runs,  *)
(* a behaviour of that component's specification: so what is proved of a   *)
(* component holds in the composition that TLC checks.                     *)
(***************************************************************************)
\* A behaviour begins as one of the component that it runs.
LEMMA StartsAreTheirs ==
  Init =>
    /\ machine = "window" => WindowInit
    /\ machine = "throttle" => ThrottleInit
    /\ machine = "keys" => now = 0 /\ CacheInit
    /\ machine = "access" => now = 0 /\ AccessInit
    /\ machine = "browser" => BrowserInit
    /\ machine = "serving" => now = 0 /\ ServingInit
    /\ machine = "answers" => AnswersInit
    /\ machine = "analytics" => now = 0 /\ AnalyticsInit
    /\ machine = "listings" => ListingsInit
    /\ machine = "directory" => now = 0 /\ DirectoryInit
    /\ machine = "short" => ShortInit
BY DEF Init

\* A step is one of the component that runs, and the same one runs on.
LEMMA StepsAreTheirs ==
  [Next]_partsVars =>
    /\ machine' = machine
    /\ machine = "window" => [WindowNext]_windowVars
    /\ machine = "throttle" => [ThrottleNext]_throttleVars
    /\ machine = "keys" => [CacheNext]_cacheVars
    /\ machine = "access" => [AccessNext]_accessVars
    /\ machine = "browser" => [BrowserNext]_browserVars
    /\ machine = "serving" => [ServingNext]_servingVars
    /\ machine = "answers" => [AnswersNext]_answersVars
    /\ machine = "analytics" => [AnalyticsNext]_analyticsVars
    /\ machine = "listings" => [ListingsNext]_listingsVars
    /\ machine = "directory" => [DirectoryNext]_directoryVars
    /\ machine = "short" => [ShortNext]_shortVars
<1> SUFFICES ASSUME [Next]_partsVars
             PROVE  /\ machine' = machine
                    /\ machine = "window" => [WindowNext]_windowVars
                    /\ machine = "throttle" => [ThrottleNext]_throttleVars
                    /\ machine = "keys" => [CacheNext]_cacheVars
                    /\ machine = "access" => [AccessNext]_accessVars
                    /\ machine = "browser" => [BrowserNext]_browserVars
                    /\ machine = "serving" => [ServingNext]_servingVars
                    /\ machine = "answers" => [AnswersNext]_answersVars
                    /\ machine = "analytics" => [AnalyticsNext]_analyticsVars
                    /\ machine = "listings" => [ListingsNext]_listingsVars
                    /\ machine = "directory" => [DirectoryNext]_directoryVars
                    /\ machine = "short" => [ShortNext]_shortVars
  OBVIOUS
<1>1. CASE Next
  BY <1>1 DEF Next
<1>2. CASE UNCHANGED partsVars
  BY <1>2 DEF partsVars, limiters, sessions, readers, windowOwn, throttleOwn, cacheOwn, accessOwn,
              windowVars, throttleVars, cacheVars, accessVars, servingVars, analyticsVars,
              directoryVars
<1> QED BY <1>1, <1>2

\* Every behaviour of the composition is one of the component that it runs.
THEOREM ComponentsRun ==
  Spec =>
    /\ machine = "window" => WindowSpec
    /\ machine = "throttle" => ThrottleSpec
    /\ machine = "keys" => CacheSpec
    /\ machine = "access" => AccessSpec
    /\ machine = "browser" => BrowserSpec
    /\ machine = "serving" => ServingSpec
    /\ machine = "answers" => AnswersSpec
    /\ machine = "analytics" => AnalyticsSpec
    /\ machine = "listings" => ListingsSpec
    /\ machine = "directory" => DirectorySpec
    /\ machine = "short" => ShortSpec
<1>1. Spec => (machine = "window" => WindowSpec)
  <2>1. machine = "window" /\ [Next]_partsVars => (machine = "window")' /\ [WindowNext]_windowVars
    BY StepsAreTheirs
  <2>2. Init /\ machine = "window" => WindowInit
    BY StartsAreTheirs
  <2> QED BY <2>1, <2>2, PTL DEF Spec, WindowSpec
<1>2. Spec => (machine = "throttle" => ThrottleSpec)
  <2>1. machine = "throttle" /\ [Next]_partsVars => (machine = "throttle")' /\ [ThrottleNext]_throttleVars
    BY StepsAreTheirs
  <2>2. Init /\ machine = "throttle" => ThrottleInit
    BY StartsAreTheirs
  <2> QED BY <2>1, <2>2, PTL DEF Spec, ThrottleSpec
<1>3. Spec => (machine = "keys" => CacheSpec)
  <2>1. machine = "keys" /\ [Next]_partsVars => (machine = "keys")' /\ [CacheNext]_cacheVars
    BY StepsAreTheirs
  <2>2. Init /\ machine = "keys" => now = 0 /\ CacheInit
    BY StartsAreTheirs
  <2> QED BY <2>1, <2>2, PTL DEF Spec, CacheSpec
<1>4. Spec => (machine = "access" => AccessSpec)
  <2>1. machine = "access" /\ [Next]_partsVars => (machine = "access")' /\ [AccessNext]_accessVars
    BY StepsAreTheirs
  <2>2. Init /\ machine = "access" => now = 0 /\ AccessInit
    BY StartsAreTheirs
  <2> QED BY <2>1, <2>2, PTL DEF Spec, AccessSpec
<1>5. Spec => (machine = "browser" => BrowserSpec)
  <2>1. machine = "browser" /\ [Next]_partsVars => (machine = "browser")' /\ [BrowserNext]_browserVars
    BY StepsAreTheirs
  <2>2. Init /\ machine = "browser" => BrowserInit
    BY StartsAreTheirs
  <2> QED BY <2>1, <2>2, PTL DEF Spec, BrowserSpec
<1>6. Spec => (machine = "serving" => ServingSpec)
  <2>1. machine = "serving" /\ [Next]_partsVars => (machine = "serving")' /\ [ServingNext]_servingVars
    BY StepsAreTheirs
  <2>2. Init /\ machine = "serving" => now = 0 /\ ServingInit
    BY StartsAreTheirs
  <2> QED BY <2>1, <2>2, PTL DEF Spec, ServingSpec
<1>7. Spec => (machine = "answers" => AnswersSpec)
  <2>1. machine = "answers" /\ [Next]_partsVars => (machine = "answers")' /\ [AnswersNext]_answersVars
    BY StepsAreTheirs
  <2>2. Init /\ machine = "answers" => AnswersInit
    BY StartsAreTheirs
  <2> QED BY <2>1, <2>2, PTL DEF Spec, AnswersSpec
<1>8. Spec => (machine = "analytics" => AnalyticsSpec)
  <2>1. machine = "analytics" /\ [Next]_partsVars => (machine = "analytics")' /\ [AnalyticsNext]_analyticsVars
    BY StepsAreTheirs
  <2>2. Init /\ machine = "analytics" => now = 0 /\ AnalyticsInit
    BY StartsAreTheirs
  <2> QED BY <2>1, <2>2, PTL DEF Spec, AnalyticsSpec
<1>9. Spec => (machine = "listings" => ListingsSpec)
  <2>1. machine = "listings" /\ [Next]_partsVars => (machine = "listings")' /\ [ListingsNext]_listingsVars
    BY StepsAreTheirs
  <2>2. Init /\ machine = "listings" => ListingsInit
    BY StartsAreTheirs
  <2> QED BY <2>1, <2>2, PTL DEF Spec, ListingsSpec
<1>10. Spec => (machine = "directory" => DirectorySpec)
  <2>1. machine = "directory" /\ [Next]_partsVars => (machine = "directory")' /\ [DirectoryNext]_directoryVars
    BY StepsAreTheirs
  <2>2. Init /\ machine = "directory" => now = 0 /\ DirectoryInit
    BY StartsAreTheirs
  <2> QED BY <2>1, <2>2, PTL DEF Spec, DirectorySpec
<1>11. Spec => (machine = "short" => ShortSpec)
  <2>1. machine = "short" /\ [Next]_partsVars => (machine = "short")' /\ [ShortNext]_shortVars
    BY StepsAreTheirs
  <2>2. Init /\ machine = "short" => ShortInit
    BY StartsAreTheirs
  <2> QED BY <2>1, <2>2, PTL DEF Spec, ShortSpec
<1> QED BY <1>1, <1>2, <1>3, <1>4, <1>5, <1>6, <1>7, <1>8, <1>9, <1>10, <1>11

\* Each component's state is well typed in the composition.
THEOREM PartsTypeCorrect == Spec => []TypeOK
<1>1. Spec => [](machine = "window" => WindowTypeOK)
  <2>1. Spec => (machine = "window" => WindowSpec)
    BY ComponentsRun
  <2>2. [Next]_partsVars => machine' = machine
    BY StepsAreTheirs
  <2>3. ~(machine = "window") /\ [Next]_partsVars => (~(machine = "window"))'
    BY <2>2
  <2> QED BY <2>1, <2>3, WindowTypeCorrect, PTL DEF Spec
<1>2. Spec => [](machine = "throttle" => ThrottleTypeOK)
  <2>1. Spec => (machine = "throttle" => ThrottleSpec)
    BY ComponentsRun
  <2>2. [Next]_partsVars => machine' = machine
    BY StepsAreTheirs
  <2>3. ~(machine = "throttle") /\ [Next]_partsVars => (~(machine = "throttle"))'
    BY <2>2
  <2> QED BY <2>1, <2>3, ThrottleTypeCorrect, PTL DEF Spec
<1>3. Spec => [](machine = "keys" => CacheTypeOK)
  <2>1. Spec => (machine = "keys" => CacheSpec)
    BY ComponentsRun
  <2>2. [Next]_partsVars => machine' = machine
    BY StepsAreTheirs
  <2>3. ~(machine = "keys") /\ [Next]_partsVars => (~(machine = "keys"))'
    BY <2>2
  <2>4. CacheInv => CacheTypeOK
    BY DEF CacheInv
  <2> QED BY <2>1, <2>3, <2>4, CacheInvariant, PTL DEF Spec
<1>4. Spec => [](machine = "access" => AccessTypeOK)
  <2>1. Spec => (machine = "access" => AccessSpec)
    BY ComponentsRun
  <2>2. [Next]_partsVars => machine' = machine
    BY StepsAreTheirs
  <2>3. ~(machine = "access") /\ [Next]_partsVars => (~(machine = "access"))'
    BY <2>2
  <2> QED BY <2>1, <2>3, AccessTypeCorrect, PTL DEF Spec
<1>5. Spec => [](machine = "browser" => BrowserTypeOK)
  <2>1. Spec => (machine = "browser" => BrowserSpec)
    BY ComponentsRun
  <2>2. [Next]_partsVars => machine' = machine
    BY StepsAreTheirs
  <2>3. ~(machine = "browser") /\ [Next]_partsVars => (~(machine = "browser"))'
    BY <2>2
  <2>4. BrowserInv => BrowserTypeOK
    BY BrowserTypes
  <2> QED BY <2>1, <2>3, <2>4, BrowserInvariant, PTL DEF Spec
<1>6. Spec => [](machine = "serving" => ServingTypeOK)
  <2>1. Spec => (machine = "serving" => ServingSpec)
    BY ComponentsRun
  <2>2. [Next]_partsVars => machine' = machine
    BY StepsAreTheirs
  <2>3. ~(machine = "serving") /\ [Next]_partsVars => (~(machine = "serving"))'
    BY <2>2
  <2> QED BY <2>1, <2>3, ServingTypeCorrect, PTL DEF Spec
<1>7. Spec => [](machine = "answers" => AnswersTypeOK)
  <2>1. Spec => (machine = "answers" => AnswersSpec)
    BY ComponentsRun
  <2>2. [Next]_partsVars => machine' = machine
    BY StepsAreTheirs
  <2>3. ~(machine = "answers") /\ [Next]_partsVars => (~(machine = "answers"))'
    BY <2>2
  <2> QED BY <2>1, <2>3, AnswersTypeCorrect, PTL DEF Spec
<1>8. Spec => [](machine = "analytics" => AnalyticsTypeOK)
  <2>1. Spec => (machine = "analytics" => AnalyticsSpec)
    BY ComponentsRun
  <2>2. [Next]_partsVars => machine' = machine
    BY StepsAreTheirs
  <2>3. ~(machine = "analytics") /\ [Next]_partsVars => (~(machine = "analytics"))'
    BY <2>2
  <2> QED BY <2>1, <2>3, AnalyticsTypeCorrect, PTL DEF Spec
<1>9. Spec => [](machine = "listings" => ListingsTypeOK)
  <2>1. Spec => (machine = "listings" => ListingsSpec)
    BY ComponentsRun
  <2>2. [Next]_partsVars => machine' = machine
    BY StepsAreTheirs
  <2>3. ~(machine = "listings") /\ [Next]_partsVars => (~(machine = "listings"))'
    BY <2>2
  <2>4. ListingsInv => ListingsTypeOK
    BY ListingsTyped
  <2> QED BY <2>1, <2>3, <2>4, ListingsInvariant, PTL DEF Spec
<1>10. Spec => [](machine = "directory" => DirectoryTypeOK)
  <2>1. Spec => (machine = "directory" => DirectorySpec)
    BY ComponentsRun
  <2>2. [Next]_partsVars => machine' = machine
    BY StepsAreTheirs
  <2>3. ~(machine = "directory") /\ [Next]_partsVars => (~(machine = "directory"))'
    BY <2>2
  <2> QED BY <2>1, <2>3, DirectoryTypeCorrect, PTL DEF Spec
<1>11. Spec => [](machine = "short" => ShortTypeOK)
  <2>1. Spec => (machine = "short" => ShortSpec)
    BY ComponentsRun
  <2>2. [Next]_partsVars => machine' = machine
    BY StepsAreTheirs
  <2>3. ~(machine = "short") /\ [Next]_partsVars => (~(machine = "short"))'
    BY <2>2
  <2>4. ShortInv => ShortTypeOK
    BY DEF ShortInv
  <2> QED BY <2>1, <2>3, <2>4, ShortInvariant, PTL DEF Spec
<1>12. /\ machine = "window" => WindowTypeOK
       /\ machine = "throttle" => ThrottleTypeOK
       /\ machine = "keys" => CacheTypeOK
       /\ machine = "access" => AccessTypeOK
       /\ machine = "browser" => BrowserTypeOK
       /\ machine = "serving" => ServingTypeOK
       /\ machine = "answers" => AnswersTypeOK
       /\ machine = "analytics" => AnalyticsTypeOK
       /\ machine = "listings" => ListingsTypeOK
       /\ machine = "directory" => DirectoryTypeOK
       /\ machine = "short" => ShortTypeOK
       => TypeOK
  BY DEF TypeOK
<1> QED BY <1>1, <1>2, <1>3, <1>4, <1>5, <1>6, <1>7, <1>8, <1>9, <1>10, <1>11, <1>12, PTL

\* Whatever has been idle for two windows is gone from the maps of the limiter that runs.
THEOREM PartsIdleForgotten == Spec => []IdleForgotten
<1>1. Spec => [](machine = "window" => IdleKeysForgotten)
  <2>1. Spec => (machine = "window" => WindowSpec)
    BY ComponentsRun
  <2>2. [Next]_partsVars => machine' = machine
    BY StepsAreTheirs
  <2>3. ~(machine = "window") /\ [Next]_partsVars => (~(machine = "window"))'
    BY <2>2
  <2> QED BY <2>1, <2>3, IdleKeysForgottenHolds, PTL DEF Spec
<1>2. Spec => [](machine = "throttle" => IdleClientsForgotten)
  <2>1. Spec => (machine = "throttle" => ThrottleSpec)
    BY ComponentsRun
  <2>2. [Next]_partsVars => machine' = machine
    BY StepsAreTheirs
  <2>3. ~(machine = "throttle") /\ [Next]_partsVars => (~(machine = "throttle"))'
    BY <2>2
  <2> QED BY <2>1, <2>3, IdleClientsForgottenHolds, PTL DEF Spec
<1>3. /\ machine = "window" => IdleKeysForgotten
      /\ machine = "throttle" => IdleClientsForgotten
      => IdleForgotten
  BY DEF IdleForgotten
<1> QED BY <1>1, <1>2, <1>3, PTL

\* In the composition each component keeps the promise that its own module states, for any
\* number of keys, accounts, orgs, visits, links and rows.
THEOREM PartsCorrect ==
  Spec =>
    [](/\ machine = "window" => WindowIsExact
       /\ machine = "throttle" => ThrottleIsFair
       /\ machine = "keys" => KeysFollowProvider
       /\ machine = "access" => AccessIsGranted
       /\ machine = "browser" => SessionIsTheUsers
       /\ machine = "serving" => PartialRulesFallBack /\ VisitsAccounted
       /\ machine = "answers" => AnswersMatchVisitors
       /\ machine = "analytics" => ReportsAreSound
       /\ machine = "listings" => PagesTellTheTable
       /\ machine = "directory" => AccountsAreSound
       /\ machine = "short" => ShortURLsAgree)
<1>1. Spec => [](machine = "window" => WindowIsExact)
  <2>1. Spec => (machine = "window" => WindowSpec)
    BY ComponentsRun
  <2>2. [Next]_partsVars => machine' = machine
    BY StepsAreTheirs
  <2>3. ~(machine = "window") /\ [Next]_partsVars => (~(machine = "window"))'
    BY <2>2
  <2> QED BY <2>1, <2>3, WindowIsExactHolds, PTL DEF Spec
<1>2. Spec => [](machine = "throttle" => ThrottleIsFair)
  <2>1. Spec => (machine = "throttle" => ThrottleSpec)
    BY ComponentsRun
  <2>2. [Next]_partsVars => machine' = machine
    BY StepsAreTheirs
  <2>3. ~(machine = "throttle") /\ [Next]_partsVars => (~(machine = "throttle"))'
    BY <2>2
  <2> QED BY <2>1, <2>3, ThrottleIsFairHolds, PTL DEF Spec
<1>3. Spec => [](machine = "keys" => KeysFollowProvider)
  <2>1. Spec => (machine = "keys" => CacheSpec)
    BY ComponentsRun
  <2>2. [Next]_partsVars => machine' = machine
    BY StepsAreTheirs
  <2>3. ~(machine = "keys") /\ [Next]_partsVars => (~(machine = "keys"))'
    BY <2>2
  <2> QED BY <2>1, <2>3, KeysAreFollowed, PTL DEF Spec
<1>4. Spec => [](machine = "access" => AccessIsGranted)
  <2>1. Spec => (machine = "access" => AccessSpec)
    BY ComponentsRun
  <2>2. [Next]_partsVars => machine' = machine
    BY StepsAreTheirs
  <2>3. ~(machine = "access") /\ [Next]_partsVars => (~(machine = "access"))'
    BY <2>2
  <2> QED BY <2>1, <2>3, AccessGranted, PTL DEF Spec
<1>5. Spec => [](machine = "browser" => SessionIsTheUsers)
  <2>1. Spec => (machine = "browser" => BrowserSpec)
    BY ComponentsRun
  <2>2. [Next]_partsVars => machine' = machine
    BY StepsAreTheirs
  <2>3. ~(machine = "browser") /\ [Next]_partsVars => (~(machine = "browser"))'
    BY <2>2
  <2> QED BY <2>1, <2>3, SessionIsTheUsersHolds, PTL DEF Spec
<1>6. Spec => [](machine = "serving" => PartialRulesFallBack /\ VisitsAccounted)
  <2>1. Spec => (machine = "serving" => ServingSpec)
    BY ComponentsRun
  <2>2. [Next]_partsVars => machine' = machine
    BY StepsAreTheirs
  <2>3. ~(machine = "serving") /\ [Next]_partsVars => (~(machine = "serving"))'
    BY <2>2
  <2> QED BY <2>1, <2>3, PartialRules, VisitsAreAccounted, PTL DEF Spec
<1>7. Spec => [](machine = "answers" => AnswersMatchVisitors)
  <2>1. Spec => (machine = "answers" => AnswersSpec)
    BY ComponentsRun
  <2>2. [Next]_partsVars => machine' = machine
    BY StepsAreTheirs
  <2>3. ~(machine = "answers") /\ [Next]_partsVars => (~(machine = "answers"))'
    BY <2>2
  <2> QED BY <2>1, <2>3, AnswersMatch, PTL DEF Spec
<1>8. Spec => [](machine = "analytics" => ReportsAreSound)
  <2>1. Spec => (machine = "analytics" => AnalyticsSpec)
    BY ComponentsRun
  <2>2. [Next]_partsVars => machine' = machine
    BY StepsAreTheirs
  <2>3. ~(machine = "analytics") /\ [Next]_partsVars => (~(machine = "analytics"))'
    BY <2>2
  <2> QED BY <2>1, <2>3, ReportsSound, PTL DEF Spec
<1>9. Spec => [](machine = "listings" => PagesTellTheTable)
  <2>1. Spec => (machine = "listings" => ListingsSpec)
    BY ComponentsRun
  <2>2. [Next]_partsVars => machine' = machine
    BY StepsAreTheirs
  <2>3. ~(machine = "listings") /\ [Next]_partsVars => (~(machine = "listings"))'
    BY <2>2
  <2> QED BY <2>1, <2>3, PagesTellTheTableHolds, PTL DEF Spec
<1>10. Spec => [](machine = "directory" => AccountsAreSound)
  <2>1. Spec => (machine = "directory" => DirectorySpec)
    BY ComponentsRun
  <2>2. [Next]_partsVars => machine' = machine
    BY StepsAreTheirs
  <2>3. ~(machine = "directory") /\ [Next]_partsVars => (~(machine = "directory"))'
    BY <2>2
  <2> QED BY <2>1, <2>3, AccountsSound, PTL DEF Spec
<1>11. Spec => [](machine = "short" => ShortURLsAgree)
  <2>1. Spec => (machine = "short" => ShortSpec)
    BY ComponentsRun
  <2>2. [Next]_partsVars => machine' = machine
    BY StepsAreTheirs
  <2>3. ~(machine = "short") /\ [Next]_partsVars => (~(machine = "short"))'
    BY <2>2
  <2> QED BY <2>1, <2>3, ShortAgree, PTL DEF Spec
<1> QED BY <1>1, <1>2, <1>3, <1>4, <1>5, <1>6, <1>7, <1>8, <1>9, <1>10, <1>11, PTL
=============================================================================
