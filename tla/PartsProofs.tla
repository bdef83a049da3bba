----------------------------- MODULE PartsProofs -----------------------------
(***************************************************************************)
(* Proofs about KeyCache, Access, Serving, Directory, Analytics, Answers   *)
(* and ShortURLs: for any keys, orgs, tokens, callers, visitors, addresses *)
(* and links, any durations and limits, and however long the clock runs.   *)
(***************************************************************************)
EXTENDS KeyCache, Access, Serving, Directory, Analytics, Answers, ShortURLs,
        FiniteSetTheorems, SequenceTheorems, WellFoundedInduction, TLAPS

-----------------------------------------------------------------------------
(***************************************************************************)
(* KeyCache.  What is cached was published when it was fetched, and what   *)
(* is published but not cached has been published since.                   *)
(***************************************************************************)
CacheInv ==
  /\ CacheTypeOK
  /\ publishedTo \in [Kids -> Int] /\ publishedFrom \in [Kids -> Int]
  /\ accepted \subseteq Kids /\ unknown \subseteq Kids
  /\ \A k \in Kids : publishedTo[k] <= now /\ publishedFrom[k] <= now
  /\ \A k \in published : publishedTo[k] = now
  /\ \A k \in cached : publishedTo[k] >= fetchedAt
  /\ \A k \in published \ cached : cached # {} => publishedFrom[k] >= fetchedAt
  /\ WithdrawnKeysExpire
  /\ RotatedKeysAreFound

\* Types of the invariant's parts.
LEMMA CacheTypes ==
  ASSUME CacheInv
  PROVE  /\ now \in Int /\ fetchedAt \in Int /\ now >= 0 /\ fetchedAt <= now
         /\ publishedTo \in [Kids -> Int] /\ publishedFrom \in [Kids -> Int]
         /\ CacheTTL \in Int /\ Refetch \in Int /\ Refetch >= 1 /\ CacheTTL > Refetch
BY KeyCacheAssumption DEF CacheInv, CacheTypeOK

\* At the start the keys are cached as they are published.
LEMMA CacheStart ==
  now = 0 /\ CacheInit => CacheInv
BY KeyCacheAssumption
DEF CacheInit, CacheInv, CacheTypeOK, WithdrawnKeysExpire, RotatedKeysAreFound

\* The provider's rotation of its keys.
LEMMA RotateKeeps ==
  ASSUME CacheInv, NEW keys \in SUBSET Kids, Rotate(keys)
  PROVE  CacheInv'
<1>0. /\ now \in Int /\ fetchedAt \in Int /\ fetchedAt <= now
      /\ publishedTo \in [Kids -> Int] /\ publishedFrom \in [Kids -> Int]
      /\ CacheTTL \in Int /\ Refetch \in Int /\ Refetch >= 1 /\ CacheTTL > Refetch
  BY CacheTypes
<1>1. /\ published' = keys
      /\ UNCHANGED <<now, cached, fetchedAt, accepted, unknown>>
      /\ \A k \in Kids : publishedTo'[k] = IF k \in keys THEN now ELSE publishedTo[k]
      /\ \A k \in Kids :
           publishedFrom'[k] = IF k \in keys \ published THEN now ELSE publishedFrom[k]
      /\ publishedTo' \in [Kids -> Int] /\ publishedFrom' \in [Kids -> Int]
  BY <1>0 DEF Rotate
<1>2. CacheTypeOK'
  BY <1>1 DEF CacheInv, CacheTypeOK
<1>3. \A k \in Kids : publishedTo'[k] >= publishedTo[k]
  BY <1>0, <1>1 DEF CacheInv
<1>4. WithdrawnKeysExpire'
  BY <1>0, <1>1 DEF CacheInv, WithdrawnKeysExpire
<1>5. RotatedKeysAreFound'
  <2> SUFFICES ASSUME NEW k \in unknown, k \in keys
               PROVE  now - publishedFrom'[k] <= Refetch
    BY <1>1 DEF RotatedKeysAreFound
  <2>1. k \in Kids
    BY DEF CacheInv
  <2> QED BY <1>0, <1>1, <2>1 DEF CacheInv, RotatedKeysAreFound
<1>6. \A k \in cached : publishedTo'[k] >= fetchedAt
  BY <1>0, <1>1, <1>3 DEF CacheInv, CacheTypeOK
<1> QED BY <1>0, <1>1, <1>2, <1>4, <1>5, <1>6 DEF CacheInv

\* A lookup of a kid: in the cache, too soon after a fetch, by a fetch, or by one that fails.
LEMMA LookupKeeps ==
  ASSUME CacheInv, NEW kid \in Kids,
         LookupCached(kid) \/ LookupTooSoon(kid) \/ LookupFetch(kid) \/ LookupFetchFails(kid)
  PROVE  CacheInv'
<1>0. /\ now \in Int /\ fetchedAt \in Int /\ now >= 0 /\ fetchedAt <= now
      /\ publishedTo \in [Kids -> Int] /\ publishedFrom \in [Kids -> Int]
      /\ CacheTTL \in Int /\ Refetch \in Int /\ Refetch >= 1 /\ CacheTTL > Refetch
  BY CacheTypes
<1>1. UNCHANGED <<now, published, publishedTo, publishedFrom>>
  BY DEF LookupCached, LookupTooSoon, LookupFetch, LookupFetchFails
<1>2. CASE LookupFetchFails(kid)
  <2>1. UNCHANGED cacheVars
    BY <1>2 DEF LookupFetchFails, cacheVars
  <2> QED BY <2>1
          DEF cacheVars, CacheInv, CacheTypeOK, WithdrawnKeysExpire, RotatedKeysAreFound
<1>3. CASE LookupFetch(kid)
  <2>1. /\ cached' = published /\ published # {} /\ fetchedAt' = now /\ Answer(kid)
        /\ published \subseteq Kids
    BY <1>3 DEF LookupFetch, CacheInv, CacheTypeOK
  <2>2. accepted' \subseteq accepted \cup {kid} /\ unknown' \subseteq unknown \cup {kid}
    BY <2>1 DEF Answer
  <2>3. kid \in accepted' \ accepted => kid \in published
    BY <2>1 DEF Answer
  <2>4. kid \in unknown' \ unknown => kid \notin published
    BY <2>1 DEF Answer
  <2>5. CacheTypeOK'
    BY <1>0, <1>1, <2>1 DEF CacheInv, CacheTypeOK
  <2>6. WithdrawnKeysExpire'
    BY <1>0, <1>1, <2>2, <2>3 DEF CacheInv, WithdrawnKeysExpire
  <2>7. RotatedKeysAreFound'
    BY <1>1, <2>2, <2>4 DEF CacheInv, RotatedKeysAreFound
  <2>8. accepted' \subseteq Kids /\ unknown' \subseteq Kids
    BY <2>2 DEF CacheInv
  <2> QED BY <1>0, <1>1, <2>1, <2>5, <2>6, <2>7, <2>8 DEF CacheInv
<1>4. CASE LookupCached(kid) \/ LookupTooSoon(kid)
  <2>1. UNCHANGED <<cached, fetchedAt>> /\ Answer(kid)
    BY <1>4 DEF LookupCached, LookupTooSoon
  <2>2. accepted' \subseteq accepted \cup {kid} /\ unknown' \subseteq unknown \cup {kid}
    BY <2>1 DEF Answer
  <2>3. kid \in accepted' \ accepted => kid \in cached /\ now - fetchedAt < CacheTTL
    BY <1>0, <1>4, <2>1
    DEF Answer, LookupCached, LookupTooSoon, CachedFresh, FetchDue
  <2>4. kid \in unknown' \ unknown => kid \notin cached /\ cached # {} /\ now - fetchedAt <= Refetch
    BY <1>0, <1>4, <2>1
    DEF Answer, LookupCached, LookupTooSoon, CachedFresh, FetchDue
  <2>5. CacheTypeOK'
    BY <1>1, <2>1 DEF CacheInv, CacheTypeOK
  <2>6. WithdrawnKeysExpire'
    <3>1. kid \in accepted' \ accepted => now - publishedTo[kid] < CacheTTL
      BY <1>0, <2>3 DEF CacheInv
    <3> QED BY <1>1, <2>2, <3>1 DEF CacheInv, WithdrawnKeysExpire
  <2>7. RotatedKeysAreFound'
    <3>1. kid \in unknown' \ unknown => kid \notin published \/ now - publishedFrom[kid] <= Refetch
      BY <1>0, <2>4 DEF CacheInv
    <3> QED BY <1>1, <2>2, <3>1 DEF CacheInv, RotatedKeysAreFound
  <2>8. accepted' \subseteq Kids /\ unknown' \subseteq Kids
    BY <2>2 DEF CacheInv
  <2> QED BY <1>1, <2>1, <2>5, <2>6, <2>7, <2>8 DEF CacheInv
<1> QED BY <1>2, <1>3, <1>4

\* The passing of time.
LEMMA CacheTickKeeps ==
  ASSUME CacheInv, CacheTick
  PROVE  CacheInv'
<1>0. /\ now \in Int /\ fetchedAt \in Int /\ now >= 0 /\ fetchedAt <= now
      /\ publishedTo \in [Kids -> Int] /\ publishedFrom \in [Kids -> Int]
      /\ CacheTTL \in Int /\ Refetch \in Int /\ Refetch >= 1 /\ CacheTTL > Refetch
  BY CacheTypes
<1>1. /\ now' = now + 1 /\ now < CacheHorizon /\ accepted' = {} /\ unknown' = {}
      /\ UNCHANGED <<published, cached, fetchedAt, publishedFrom>>
      /\ \A k \in Kids : publishedTo'[k] = IF k \in published THEN now + 1 ELSE publishedTo[k]
      /\ publishedTo' \in [Kids -> Int]
  BY <1>0 DEF CacheTick, Advance
<1>2. CacheTypeOK'
  BY <1>0, <1>1, KeyCacheAssumption DEF CacheInv, CacheTypeOK
<1>3. published \subseteq Kids /\ cached \subseteq Kids
  BY DEF CacheInv, CacheTypeOK
<1>4. \A k \in Kids : publishedTo'[k] >= publishedTo[k]
  BY <1>0, <1>1 DEF CacheInv
<1>5. \A k \in cached : publishedTo'[k] >= fetchedAt
  BY <1>0, <1>1, <1>3, <1>4 DEF CacheInv
<1> QED BY <1>0, <1>1, <1>2, <1>3, <1>5
        DEF CacheInv, WithdrawnKeysExpire, RotatedKeysAreFound

\* What is cached is as it was published when it was fetched (jwksCache.key).
THEOREM CacheInvariant == CacheSpec => []CacheInv
<1>1. CacheInv /\ [CacheNext]_cacheVars => CacheInv'
  <2> SUFFICES ASSUME CacheInv, [CacheNext]_cacheVars
               PROVE  CacheInv'
    OBVIOUS
  <2>1. CASE UNCHANGED cacheVars
    BY <2>1 DEF cacheVars, CacheInv, CacheTypeOK, WithdrawnKeysExpire, RotatedKeysAreFound
  <2> QED BY <2>1, RotateKeeps, LookupKeeps, CacheTickKeeps DEF CacheNext
<1> QED BY <1>1, CacheStart, PTL DEF CacheSpec

\* No token signed with a key withdrawn for the lifetime of the cache is accepted,
\* whatever fetches fail (jwksCache.key and fetchLocked).
THEOREM WithdrawnExpire == CacheSpec => []WithdrawnKeysExpire
<1>1. CacheInv => WithdrawnKeysExpire
  BY DEF CacheInv
<1> QED BY <1>1, CacheInvariant, PTL

\* A key published for longer than the cooldown is refused only when a fetch fails.
THEOREM RotatedFound == CacheSpec => []RotatedKeysAreFound
<1>1. CacheInv => RotatedKeysAreFound
  BY DEF CacheInv
<1> QED BY <1>1, CacheInvariant, PTL

\* Withdrawal and rotation reach the cache.
THEOREM KeysAreFollowed == CacheSpec => []KeysFollowProvider
<1>1. WithdrawnKeysExpire /\ RotatedKeysAreFound => KeysFollowProvider
  BY DEF KeysFollowProvider
<1> QED BY <1>1, WithdrawnExpire, RotatedFound, PTL

-----------------------------------------------------------------------------
(***************************************************************************)
(* Access.  An access token outlives the last instant at which its scope   *)
(* was read by its lifetime at most.                                       *)
(***************************************************************************)
\* A request presents one API key or none.
KeySets == {{}} \cup {{k} : k \in ApiKeys}

Call == [at : CallSteps, org : AccessOrgs \cup {NoOrg}, key : KeySets, token : BOOLEAN]

AccessTypes ==
  /\ now \in Int /\ enabledTo \in Int /\ unchecked \in Int
  /\ memberTo \in [AccessOrgs -> Int]
  /\ joined \subseteq AccessOrgs /\ served \subseteq AccessOrgs
  /\ \A t \in issued : t.org \in AccessOrgs \cup {NoOrg} /\ t.exp \in Int
  /\ calls \in [Callers -> Call]
  /\ keyOrg \in [ApiKeys -> AccessOrgs \cup {NoOrg}]
  /\ keyStatus \in [ApiKeys -> {"UNUSED", "ENABLED", "DISABLED"}]

\* Memberships, the account and unchecked pairs as of now.
AsOfNow ==
  /\ \A o \in AccessOrgs : memberTo[o] <= now
  /\ \A o \in joined : memberTo[o] = now
  /\ enabledTo <= now /\ unchecked <= now
  /\ enabled => enabledTo = now

\* An access token was issued, within its lifetime, while its org had the user as a
\* member, and on a login, on a switch of org or for an account that was enabled.
TokensAreBounded ==
  \A t \in issued : t.typ = "access" =>
    /\ t.org # NoOrg => t.exp <= memberTo[t.org] + AccessTTL
    /\ t.exp <= enabledTo + AccessTTL \/ t.exp <= unchecked + AccessTTL

\* What a refresh or a switch of org has read was true at this instant.
RefreshesAreFresh ==
  \A c \in Callers :
    /\ calls[c].at \in {"refreshing", "switching"} /\ calls[c].org # NoOrg =>
         memberTo[calls[c].org] = now
    /\ calls[c].at = "refreshing" => enabledTo = now

KeysHaveOrgs == \A k \in ApiKeys : keyStatus[k] # "UNUSED" => keyOrg[k] # NoOrg

AccessInv ==
  /\ AccessTypes
  /\ AsOfNow
  /\ TokensAreBounded
  /\ RefreshesAreFresh
  /\ KeysHaveOrgs
  /\ KeyedWorkIsTheKeys
  /\ AccessEnds

\* What is assumed of the durations and of the absence of an org.
LEMMA AccessConstants ==
  /\ AccessTTL \in Int /\ AccessTTL >= 1 /\ RefreshTTL \in Int /\ NoOrg \notin AccessOrgs
BY AccessAssumption

\* The absence of a call is a record of one.
LEMMA NoCallIsCall ==
  NoCall \in Call
BY DEF NoCall, Call, CallSteps, KeySets

\* At the start nobody has joined and nothing has been issued.
LEMMA AccessStart ==
  now = 0 /\ AccessInit => AccessInv
<1> SUFFICES ASSUME now = 0, AccessInit
             PROVE  AccessInv
  OBVIOUS
<1>1. AccessTypes
  BY NoCallIsCall, AccessConstants DEF AccessInit, AccessTypes
<1>2. AsOfNow /\ TokensAreBounded /\ KeysHaveOrgs /\ AccessEnds
  BY AccessAssumption
  DEF AccessInit, AsOfNow, TokensAreBounded, KeysHaveOrgs, AccessEnds,
      AccessEndsWithMembership, AccessEndsWithAccount
<1>3. RefreshesAreFresh /\ KeyedWorkIsTheKeys
  BY DEF AccessInit, NoCall, RefreshesAreFresh, KeyedWorkIsTheKeys
<1> QED BY <1>1, <1>2, <1>3 DEF AccessInv

\* A request enters, leaves or starts its work in its own slot.
LEMMA CallSlots ==
  ASSUME AccessTypes, NEW c \in Callers
  PROVE  /\ \A at \in CallSteps, org \in AccessOrgs \cup {NoOrg}, key \in KeySets,
               token \in BOOLEAN :
              EnterCall(c, at, org, key, token) =>
                /\ calls' \in [Callers -> Call]
                /\ \A b \in Callers \ {c} : calls'[b] = calls[b]
                /\ calls'[c] = [at |-> at, org |-> org, key |-> key, token |-> token]
         /\ Leave(c) =>
              /\ calls' \in [Callers -> Call]
              /\ \A b \in Callers \ {c} : calls'[b] = calls[b]
              /\ calls'[c] = NoCall
<1>1. ASSUME NEW at \in CallSteps, NEW org \in AccessOrgs \cup {NoOrg},
             NEW key \in KeySets, NEW token \in BOOLEAN
      PROVE  [at |-> at, org |-> org, key |-> key, token |-> token] \in Call
  BY DEF Call
<1> QED BY <1>1, NoCallIsCall DEF EnterCall, Leave, AccessTypes

\* A pair issued for the org of a membership that holds now, or for none, on a login
\* or for an enabled account.
LEMMA IssueIsBounded ==
  ASSUME AccessTypes, TokensAreBounded, NEW org \in AccessOrgs \cup {NoOrg}, IssuePair(org),
         memberTo' = memberTo, enabledTo' = enabledTo, unchecked' \in Int,
         unchecked <= unchecked',
         org # NoOrg => memberTo[org] = now,
         enabledTo = now \/ unchecked' = now
  PROVE  /\ TokensAreBounded'
         /\ \A t \in issued' : t.org \in AccessOrgs \cup {NoOrg} /\ t.exp \in Int
<1>0. AccessTTL \in Int /\ RefreshTTL \in Int /\ now \in Int
  BY AccessConstants DEF AccessTypes
<1>1. ASSUME NEW t \in issued
      PROVE  /\ t.org \in AccessOrgs \cup {NoOrg} /\ t.exp \in Int
             /\ t.typ = "access" =>
                  /\ t.org # NoOrg => t.exp <= memberTo[t.org] + AccessTTL
                  /\ t.exp <= enabledTo + AccessTTL \/ t.exp <= unchecked' + AccessTTL
  BY <1>0, <1>1 DEF AccessTypes, TokensAreBounded
<1>2. ASSUME NEW t \in {Token("access", AccessTTL, org), Token("refresh", RefreshTTL, org)}
      PROVE  /\ t.org \in AccessOrgs \cup {NoOrg} /\ t.exp \in Int
             /\ t.typ = "access" =>
                  /\ t.org # NoOrg => t.exp <= memberTo[t.org] + AccessTTL
                  /\ t.exp <= enabledTo + AccessTTL \/ t.exp <= unchecked' + AccessTTL
  BY <1>0, <1>2 DEF Token, AccessTypes
<1>3. issued' = issued \cup {Token("access", AccessTTL, org), Token("refresh", RefreshTTL, org)}
  BY DEF IssuePair
<1> QED BY <1>1, <1>2, <1>3 DEF TokensAreBounded

\* Serving a request with an access token (Middleware).
LEMMA ServeKeeps ==
  ASSUME AccessInv, NEW t \in issued, ServeToken(t)
  PROVE  AccessInv'
<1>0. AccessTypes /\ TokensAreBounded /\ AccessTTL \in Int
  BY AccessConstants DEF AccessInv
<1>1. /\ t.typ = "access" /\ now < t.exp /\ t.org \in AccessOrgs
      /\ served' = served \cup {t.org}
      /\ UNCHANGED <<now, joined, enabled, issued, memberTo, enabledTo, unchecked,
                     keyStatus, keyOrg, calls>>
  BY <1>0 DEF ServeToken, Parse, AccessTypes, tokenState
<1>2. now - memberTo[t.org] < AccessTTL
  BY <1>0, <1>1, AccessConstants DEF TokensAreBounded, AccessTypes
<1>3. now - enabledTo < AccessTTL \/ now - unchecked < AccessTTL
  BY <1>0, <1>1 DEF TokensAreBounded, AccessTypes
<1>4. AccessEnds'
  BY <1>1, <1>2, <1>3 DEF AccessInv, AccessEnds, AccessEndsWithMembership, AccessEndsWithAccount
<1>5. AccessTypes'
  BY <1>0, <1>1 DEF AccessTypes
<1> QED BY <1>1, <1>4, <1>5
        DEF AccessInv, AsOfNow, TokensAreBounded, RefreshesAreFresh, KeysHaveOrgs,
            KeyedWorkIsTheKeys

\* A step that changes no more than the requests.
LEMMA CallStepKeeps ==
  ASSUME AccessInv, UNCHANGED <<tokenState, keyStatus, keyOrg, served>>,
         calls' \in [Callers -> Call], NEW c \in Callers,
         \A b \in Callers \ {c} : calls'[b] = calls[b],
         calls'[c].at \in {"refreshing", "switching"} /\ calls'[c].org # NoOrg =>
           memberTo[calls'[c].org] = now,
         calls'[c].at = "refreshing" => enabledTo = now,
         calls'[c].at = "working" =>
           /\ \A k \in calls'[c].key : keyStatus[k] # "UNUSED" /\ calls'[c].org = keyOrg[k]
           /\ calls'[c].org # NoOrg
  PROVE  AccessInv'
<1>1. AccessTypes' /\ AsOfNow' /\ TokensAreBounded' /\ KeysHaveOrgs' /\ AccessEnds'
  BY DEF AccessInv, AccessTypes, AsOfNow, TokensAreBounded, KeysHaveOrgs, AccessEnds,
         AccessEndsWithMembership, AccessEndsWithAccount, tokenState
<1>2. RefreshesAreFresh'
  <2> SUFFICES ASSUME NEW b \in Callers
               PROVE  /\ calls'[b].at \in {"refreshing", "switching"} /\ calls'[b].org # NoOrg =>
                           memberTo[calls'[b].org] = now
                      /\ calls'[b].at = "refreshing" => enabledTo = now
    BY DEF RefreshesAreFresh, tokenState
  <2> QED BY DEF AccessInv, RefreshesAreFresh
<1>3. KeyedWorkIsTheKeys'
  <2> SUFFICES ASSUME NEW b \in Callers, calls'[b].at = "working"
               PROVE  /\ \A k \in calls'[b].key :
                           keyStatus[k] # "UNUSED" /\ calls'[b].org = keyOrg[k]
                      /\ calls'[b].org # NoOrg
    BY DEF KeyedWorkIsTheKeys
  <2> QED BY DEF AccessInv, KeyedWorkIsTheKeys
<1> QED BY <1>1, <1>2, <1>3 DEF AccessInv

\* The calls with an API key: at the handler, at the lookup of the key and at the work.
LEMMA KeyedKeeps ==
  ASSUME AccessInv, NEW c \in Callers,
         \/ \E k \in ApiKeys, token \in BOOLEAN : ShortenKeyed(c, k, token)
         \/ Authenticate(c) \/ WorkDone(c)
  PROVE  AccessInv'
<1>0. AccessTypes
  BY DEF AccessInv
<1>1. ASSUME NEW k \in ApiKeys, NEW token \in BOOLEAN, ShortenKeyed(c, k, token)
      PROVE  AccessInv'
  <2>1. /\ EnterCall(c, "keyed", NoOrg, {k}, token)
        /\ UNCHANGED <<tokenState, keyStatus, keyOrg, served>>
    BY <1>1 DEF ShortenKeyed
  <2>2. "keyed" \in CallSteps /\ NoOrg \in AccessOrgs \cup {NoOrg} /\ {k} \in KeySets
    BY DEF CallSteps, KeySets
  <2>3. /\ calls' \in [Callers -> Call] /\ \A b \in Callers \ {c} : calls'[b] = calls[b]
        /\ calls'[c] = [at |-> "keyed", org |-> NoOrg, key |-> {k}, token |-> token]
    BY <1>0, <2>1, <2>2, CallSlots
  <2> QED BY <2>1, <2>3, CallStepKeeps
<1>2. ASSUME Authenticate(c)
      PROVE  AccessInv'
  <2>1. UNCHANGED <<tokenState, keyStatus, keyOrg, served>> /\ calls[c] \in Call
    BY <1>0, <1>2 DEF Authenticate, AccessTypes
  <2>2. PICK k \in calls[c].key :
          \/ Authentic(k) /\ calls' = [calls EXCEPT ![c].at = "working", ![c].org = keyOrg[k]]
          \/ ~Authentic(k) /\ Reject(c)
    BY <1>2 DEF Authenticate
  <2>3. CASE Leave(c)
    <3>1. /\ calls' \in [Callers -> Call] /\ \A b \in Callers \ {c} : calls'[b] = calls[b]
          /\ calls'[c].at = "idle"
      BY <1>0, <2>3, CallSlots DEF NoCall
    <3> QED BY <2>1, <3>1, CallStepKeeps
  <2>4. CASE Authentic(k) /\ calls' = [calls EXCEPT ![c].at = "working", ![c].org = keyOrg[k]]
    <3> DEFINE call == [calls[c] EXCEPT !.at = "working", !.org = keyOrg[k]]
    <3>1. k \in ApiKeys /\ keyStatus[k] # "UNUSED" /\ keyOrg[k] # NoOrg
          /\ keyOrg[k] \in AccessOrgs \cup {NoOrg}
      BY <1>0, <2>1, <2>2, <2>4 DEF Call, KeySets, Authentic, AccessInv, AccessTypes, KeysHaveOrgs
    <3>2. call \in Call /\ call.at = "working" /\ call.org = keyOrg[k] /\ call.key = calls[c].key
      BY <2>1, <3>1 DEF Call, CallSteps
    <3>3. calls' = [calls EXCEPT ![c] = call]
      BY <2>4
    <3> HIDE DEF call
    <3>4. /\ calls' \in [Callers -> Call] /\ \A b \in Callers \ {c} : calls'[b] = calls[b]
          /\ calls'[c] = call
      BY <1>0, <3>2, <3>3 DEF AccessTypes
    <3>5. calls[c].key = {k}
      BY <2>1, <2>2 DEF Call, KeySets
    <3> QED BY <2>1, <3>1, <3>2, <3>4, <3>5, CallStepKeeps
  <2> QED BY <2>2, <2>3, <2>4 DEF Reject
<1>3. ASSUME WorkDone(c)
      PROVE  AccessInv'
  <2>1. /\ calls' \in [Callers -> Call] /\ \A b \in Callers \ {c} : calls'[b] = calls[b]
        /\ calls'[c].at = "idle"
    BY <1>0, <1>3, CallSlots DEF WorkDone, NoCall
  <2> QED BY <1>3, <2>1, CallStepKeeps DEF WorkDone
<1> QED BY <1>1, <1>2, <1>3

\* Logging in issues a pair of tokens.
LEMMA LoginKeeps ==
  ASSUME AccessInv, NEW org \in AccessOrgs \cup {NoOrg}, Login(org)
  PROVE  AccessInv'
<1>0. AccessTypes /\ AsOfNow /\ TokensAreBounded
  BY DEF AccessInv
<1>1. /\ org \in joined \cup {NoOrg} /\ IssuePair(org) /\ unchecked' = now
      /\ UNCHANGED <<now, joined, enabled, keyStatus, keyOrg, calls, memberTo, enabledTo, served>>
  BY DEF Login
<1>2. org # NoOrg => memberTo[org] = now
  BY <1>0, <1>1 DEF AsOfNow
<1>3. unchecked' \in Int /\ unchecked <= unchecked'
  BY <1>0, <1>1 DEF AsOfNow, AccessTypes
<1>4. /\ TokensAreBounded'
      /\ \A t \in issued' : t.org \in AccessOrgs \cup {NoOrg} /\ t.exp \in Int
  BY <1>0, <1>1, <1>2, <1>3, IssueIsBounded
<1>5. AccessTypes'
  BY <1>0, <1>1, <1>3, <1>4 DEF AccessTypes
<1>6. AsOfNow'
  BY <1>0, <1>1 DEF AsOfNow, AccessTypes
<1>7. AccessEnds'
  <2>1. 0 < AccessTTL /\ now - unchecked' = 0
    BY <1>0, <1>1, AccessConstants DEF AccessTypes
  <2> QED BY <1>1, <2>1
          DEF AccessInv, AccessEnds, AccessEndsWithMembership, AccessEndsWithAccount
<1>8. RefreshesAreFresh' /\ KeysHaveOrgs' /\ KeyedWorkIsTheKeys'
  BY <1>1 DEF AccessInv, RefreshesAreFresh, KeysHaveOrgs, KeyedWorkIsTheKeys
<1> QED BY <1>4, <1>5, <1>6, <1>7, <1>8 DEF AccessInv

\* Reading what a refresh or a switch of org depends on.
LEMMA RefreshReadKeeps ==
  ASSUME AccessInv, NEW c \in Callers, NEW t \in issued,
         RefreshRead(c, t) \/ \E o \in AccessOrgs : SwitchOrgRead(c, t, o)
  PROVE  AccessInv'
<1>0. AccessTypes /\ AsOfNow
  BY DEF AccessInv
<1>1. ASSUME NEW at \in {"refreshing", "switching"}, NEW org \in joined \cup {NoOrg},
             at = "refreshing" => enabled,
             EnterCall(c, at, org, {}, FALSE), UNCHANGED <<tokenState, keyStatus, keyOrg, served>>
      PROVE  AccessInv'
  <2>1. /\ org \in AccessOrgs \cup {NoOrg} /\ (org # NoOrg => memberTo[org] = now)
        /\ at = "refreshing" => enabledTo = now
    BY <1>0, <1>1 DEF AccessTypes, AsOfNow
  <2>2. at \in CallSteps /\ {} \in KeySets /\ FALSE \in BOOLEAN
    BY DEF CallSteps, KeySets
  <2>3. /\ calls' \in [Callers -> Call] /\ \A b \in Callers \ {c} : calls'[b] = calls[b]
        /\ calls'[c] = [at |-> at, org |-> org, key |-> {}, token |-> FALSE]
    BY <1>0, <1>1, <2>1, <2>2, CallSlots
  <2> QED BY <1>1, <2>1, <2>3, CallStepKeeps
<1>2. CASE RefreshRead(c, t)
  <2>1. PICK org \in RefreshedScope(t.org) : EnterCall(c, "refreshing", org, {}, FALSE)
    BY <1>2 DEF RefreshRead
  <2>2. org \in joined \cup {NoOrg}
    BY <2>1 DEF RefreshedScope
  <2> QED BY <1>1, <1>2, <2>1, <2>2 DEF RefreshRead
<1>3. CASE \E o \in AccessOrgs : SwitchOrgRead(c, t, o)
  BY <1>1, <1>3 DEF SwitchOrgRead
<1> QED BY <1>2, <1>3

\* Issuing the pair of tokens for what has been read.
LEMMA RefreshIssueKeeps ==
  ASSUME AccessInv, NEW c \in Callers, RefreshIssue(c) \/ SwitchOrgIssue(c)
  PROVE  AccessInv'
<1>0. AccessTypes /\ AsOfNow /\ TokensAreBounded
  BY DEF AccessInv
<1> DEFINE org == calls[c].org
<1>1. /\ calls[c].at \in {"refreshing", "switching"} /\ IssuePair(org) /\ Leave(c)
      /\ UNCHANGED <<now, joined, enabled, keyStatus, keyOrg, memberTo, enabledTo, served>>
      /\ unchecked' = now \/ (unchecked' = unchecked /\ calls[c].at = "refreshing")
  BY DEF RefreshIssue, SwitchOrgIssue
<1>2. /\ org \in AccessOrgs \cup {NoOrg} /\ (org # NoOrg => memberTo[org] = now)
      /\ enabledTo = now \/ unchecked' = now
  BY <1>0, <1>1 DEF AccessInv, RefreshesAreFresh, AccessTypes, Call
<1>3. unchecked' \in Int /\ unchecked <= unchecked' /\ unchecked' <= now
  BY <1>0, <1>1 DEF AccessTypes, AsOfNow
<1>4. /\ calls' \in [Callers -> Call] /\ \A b \in Callers \ {c} : calls'[b] = calls[b]
      /\ calls'[c] = NoCall
  BY <1>0, <1>1, CallSlots
<1> HIDE DEF org
<1>5. /\ TokensAreBounded'
      /\ \A t \in issued' : t.org \in AccessOrgs \cup {NoOrg} /\ t.exp \in Int
  BY <1>0, <1>1, <1>2, <1>3, IssueIsBounded
<1>6. AccessTypes' /\ AsOfNow'
  BY <1>0, <1>1, <1>3, <1>4, <1>5 DEF AccessTypes, AsOfNow
<1>7. RefreshesAreFresh'
  BY <1>1, <1>4 DEF AccessInv, RefreshesAreFresh, NoCall
<1>8. KeyedWorkIsTheKeys' /\ KeysHaveOrgs'
  BY <1>1, <1>4 DEF AccessInv, KeyedWorkIsTheKeys, KeysHaveOrgs, NoCall
<1>9. AccessEnds'
  <2>1. AccessEndsWithMembership'
    BY <1>1 DEF AccessInv, AccessEnds, AccessEndsWithMembership
  <2>2. now - unchecked < AccessTTL => now - unchecked' < AccessTTL
    BY <1>0, <1>1, AccessConstants DEF AccessTypes
  <2>3. AccessEndsWithAccount'
    BY <1>1, <2>2 DEF AccessInv, AccessEnds, AccessEndsWithAccount
  <2> QED BY <2>1, <2>3 DEF AccessEnds
<1> QED BY <1>5, <1>6, <1>7, <1>8, <1>9 DEF AccessInv

\* Creating and disabling API keys.
LEMMA KeyChangeKeeps ==
  ASSUME AccessInv, NEW k \in ApiKeys,
         DisableKey(k) \/ \E o \in AccessOrgs : CreateKey(k, o)
  PROVE  AccessInv'
<1>0. AccessTypes
  BY DEF AccessInv
<1>1. /\ UNCHANGED <<now, joined, enabled, issued, memberTo, enabledTo, unchecked, calls, served>>
      /\ keyStatus' \in [ApiKeys -> {"UNUSED", "ENABLED", "DISABLED"}]
      /\ keyOrg' \in [ApiKeys -> AccessOrgs \cup {NoOrg}]
      /\ \A l \in ApiKeys : keyStatus[l] # "UNUSED" =>
           keyStatus'[l] # "UNUSED" /\ keyOrg'[l] = keyOrg[l]
      /\ \A l \in ApiKeys : keyStatus[l] = "UNUSED" /\ keyStatus'[l] # "UNUSED" =>
           keyOrg'[l] \in AccessOrgs
  BY <1>0 DEF DisableKey, CreateKey, InsertKey, SetDisabled, tokenState, AccessTypes
<1>2. AccessTypes' /\ AsOfNow' /\ TokensAreBounded' /\ RefreshesAreFresh' /\ AccessEnds'
  BY <1>0, <1>1 DEF AccessInv, AccessTypes, AsOfNow, TokensAreBounded, RefreshesAreFresh,
                    AccessEnds, AccessEndsWithMembership, AccessEndsWithAccount
<1>3. KeysHaveOrgs'
  BY <1>0, <1>1, AccessConstants DEF AccessInv, KeysHaveOrgs
<1>4. KeyedWorkIsTheKeys'
  <2>1. \A c \in Callers : calls[c].key \subseteq ApiKeys
    BY <1>0 DEF AccessTypes, Call, KeySets
  <2> QED BY <1>1, <2>1 DEF AccessInv, KeyedWorkIsTheKeys
<1> QED BY <1>2, <1>3, <1>4 DEF AccessInv

\* Taking a membership or the account away leaves the instant until which it was there.
LEMMA RightsChangeKeeps ==
  ASSUME AccessInv,
         (\E orgs \in SUBSET AccessOrgs : ChangeMembership(orgs)) \/ SetAccountStatus
  PROVE  AccessInv'
<1>0. AccessTypes /\ AsOfNow
  BY DEF AccessInv
<1>1. /\ UNCHANGED <<now, issued, keyStatus, keyOrg, calls, unchecked, served>>
      /\ memberTo' \in [AccessOrgs -> Int] /\ joined' \subseteq AccessOrgs
      /\ \A o \in AccessOrgs : memberTo[o] <= memberTo'[o] /\ memberTo'[o] <= now
      /\ \A o \in joined' : memberTo'[o] = now
      /\ enabledTo' \in Int /\ enabledTo <= enabledTo' /\ enabledTo' <= now
      /\ enabled' => enabledTo' = now
  BY <1>0 DEF ChangeMembership, SetAccountStatus, AccessTypes, AsOfNow
<1>2. AccessTypes' /\ AsOfNow'
  BY <1>0, <1>1 DEF AccessTypes, AsOfNow
<1>3. KeysHaveOrgs' /\ KeyedWorkIsTheKeys'
  BY <1>1 DEF AccessInv, KeysHaveOrgs, KeyedWorkIsTheKeys
<1>4. TokensAreBounded'
  <2> SUFFICES ASSUME NEW t \in issued, t.typ = "access"
               PROVE  /\ t.org # NoOrg => t.exp <= memberTo'[t.org] + AccessTTL
                      /\ t.exp <= enabledTo' + AccessTTL \/ t.exp <= unchecked + AccessTTL
    BY <1>1 DEF TokensAreBounded
  <2>1. /\ t.org \in AccessOrgs \cup {NoOrg} /\ t.exp \in Int
        /\ t.org # NoOrg => t.exp <= memberTo[t.org] + AccessTTL
        /\ t.exp <= enabledTo + AccessTTL \/ t.exp <= unchecked + AccessTTL
    BY <1>0 DEF AccessInv, AccessTypes, TokensAreBounded
  <2> QED BY <1>0, <1>1, <2>1, AccessConstants DEF AccessTypes
<1>5. RefreshesAreFresh'
  <2>1. \A c \in Callers : calls[c].org \in AccessOrgs \cup {NoOrg}
    BY <1>0 DEF AccessTypes, Call
  <2>2. /\ \A o \in AccessOrgs : memberTo[o] = now => memberTo'[o] = now
        /\ enabledTo = now => enabledTo' = now
    BY <1>0, <1>1 DEF AccessTypes
  <2> QED BY <1>1, <2>1, <2>2 DEF AccessInv, RefreshesAreFresh
<1>6. AccessEnds'
  <2>1. \A o \in AccessOrgs : now - memberTo[o] < AccessTTL => now - memberTo'[o] < AccessTTL
    BY <1>0, <1>1, AccessConstants DEF AccessTypes
  <2>2. now - enabledTo < AccessTTL => now - enabledTo' < AccessTTL
    <3>1. /\ now \in Int /\ enabledTo \in Int /\ enabledTo' \in Int /\ AccessTTL \in Int
          /\ enabledTo <= enabledTo'
      BY <1>0, <1>1, AccessConstants DEF AccessTypes
    <3>2. \A a, b, c, d \in Int : a <= b /\ c - a < d => c - b < d
      OBVIOUS
    <3> QED BY <3>1, <3>2
  <2>3. served \subseteq AccessOrgs /\ served' = served /\ now' = now /\ unchecked' = unchecked
    BY <1>0, <1>1 DEF AccessTypes
  <2>4. AccessEndsWithMembership'
    BY <2>1, <2>3 DEF AccessInv, AccessEnds, AccessEndsWithMembership
  <2>5. AccessEndsWithAccount'
    BY <2>2, <2>3 DEF AccessInv, AccessEnds, AccessEndsWithAccount
  <2> QED BY <2>4, <2>5 DEF AccessEnds
<1> QED BY <1>2, <1>3, <1>4, <1>5, <1>6 DEF AccessInv

\* The passing of time.
LEMMA AccessTickKeeps ==
  ASSUME AccessInv, AccessTick
  PROVE  AccessInv'
<1>0. AccessTypes /\ AsOfNow
  BY DEF AccessInv
<1>1. /\ \A c \in Callers : calls[c] = NoCall
      /\ now' = now + 1 /\ issued' \subseteq issued /\ served' = {}
      /\ UNCHANGED <<joined, enabled, keyStatus, keyOrg, calls, unchecked>>
      /\ memberTo' \in [AccessOrgs -> Int]
      /\ \A o \in AccessOrgs : memberTo'[o] = IF o \in joined THEN now + 1 ELSE memberTo[o]
      /\ enabledTo' = IF enabled THEN now + 1 ELSE enabledTo
  BY <1>0 DEF AccessTick, Advance, AccessTypes
<1>2. AccessTypes' /\ AsOfNow'
  BY <1>0, <1>1 DEF AccessTypes, AsOfNow
<1>3. KeysHaveOrgs' /\ KeyedWorkIsTheKeys' /\ RefreshesAreFresh' /\ AccessEnds'
  BY <1>1 DEF AccessInv, KeysHaveOrgs, KeyedWorkIsTheKeys, RefreshesAreFresh, NoCall,
              AccessEnds, AccessEndsWithMembership, AccessEndsWithAccount
<1>4. TokensAreBounded'
  <2> SUFFICES ASSUME NEW t \in issued, t.typ = "access"
               PROVE  /\ t.org # NoOrg => t.exp <= memberTo'[t.org] + AccessTTL
                      /\ t.exp <= enabledTo' + AccessTTL \/ t.exp <= unchecked + AccessTTL
    BY <1>1 DEF TokensAreBounded
  <2>1. /\ t.org \in AccessOrgs \cup {NoOrg} /\ t.exp \in Int
        /\ t.org # NoOrg => t.exp <= memberTo[t.org] + AccessTTL
        /\ t.exp <= enabledTo + AccessTTL \/ t.exp <= unchecked + AccessTTL
    BY <1>0 DEF AccessInv, AccessTypes, TokensAreBounded
  <2>2. enabledTo <= enabledTo' /\ \A o \in AccessOrgs : memberTo[o] <= memberTo'[o]
    BY <1>0, <1>1 DEF AccessTypes, AsOfNow
  <2> QED BY <1>0, <1>1, <1>2, <2>1, <2>2, AccessConstants DEF AccessTypes
<1> QED BY <1>2, <1>3, <1>4 DEF AccessInv

\* What is served, issued and under way agrees with the rights as they were.
THEOREM AccessInvariant == AccessSpec => []AccessInv
<1>1. AccessInv /\ [AccessNext]_accessVars => AccessInv'
  <2> SUFFICES ASSUME AccessInv, [AccessNext]_accessVars
               PROVE  AccessInv'
    OBVIOUS
  <2>1. CASE UNCHANGED accessVars
    BY <2>1 DEF accessVars, AccessInv, AccessTypes, AsOfNow, TokensAreBounded,
                RefreshesAreFresh, KeysHaveOrgs, KeyedWorkIsTheKeys, AccessEnds,
                AccessEndsWithMembership, AccessEndsWithAccount
  <2> QED BY <2>1, ServeKeeps, KeyedKeeps, LoginKeeps, RefreshReadKeeps, RefreshIssueKeeps,
             KeyChangeKeeps, RightsChangeKeeps, AccessTickKeeps DEF AccessNext
<1> QED BY <1>1, AccessStart, PTL DEF AccessSpec

\* A removed member is served for less than an access token's lifetime, so is a
\* disabled account that neither logs in nor switches org, and a request that names an
\* API key works for that key's org or not at all (Middleware, TokenIssuer.Parse,
\* AuthService.Refresh, LinkHandler.Shorten, APIKeyService.Authenticate).
THEOREM AccessGranted == AccessSpec => []AccessIsGranted
<1>1. AccessInv => AccessIsGranted
  BY DEF AccessInv, AccessIsGranted
<1> QED BY <1>1, AccessInvariant, PTL

\* The rows, the requests and the tokens are well typed: the bounds of the clock and the
\* kinds of tokens, beside what the invariant says.
THEOREM AccessTypeCorrect == AccessSpec => []AccessTypeOK
<1>1. now = 0 /\ AccessInit => AccessTypeOK
  BY AccessAssumption DEF AccessInit, AccessTypeOK, NoCall, CallSteps
<1>2. AccessInv /\ AccessInv' /\ AccessTypeOK /\ [AccessNext]_accessVars => AccessTypeOK'
  <2> SUFFICES ASSUME AccessInv, AccessInv', AccessTypeOK, [AccessNext]_accessVars
               PROVE  AccessTypeOK'
    OBVIOUS
  <2>1. now' \in 0 .. AccessHorizon
    <3>1. now' = now \/ (now' = now + 1 /\ now < AccessHorizon)
      BY DEF AccessNext, ServeToken, RefreshRead, SwitchOrgRead, ShortenKeyed, Authenticate,
             WorkDone, RefreshIssue, SwitchOrgIssue, Login, DisableKey, CreateKey,
             ChangeMembership, SetAccountStatus, AccessTick, Advance, accessVars, tokenState
    <3> QED BY <3>1, AccessAssumption DEF AccessTypeOK
  <2>2. \A t \in issued' : t.typ \in {"access", "refresh"}
    <3>1. ASSUME NEW org, IssuePair(org)
          PROVE  \A t \in issued' : t.typ \in {"access", "refresh"}
      BY <3>1 DEF AccessTypeOK, IssuePair, Token
    <3>2. CASE issued' \subseteq issued
      BY <3>2 DEF AccessTypeOK
    <3>3. issued' \subseteq issued \/ \E org : IssuePair(org)
      BY DEF AccessNext, ServeToken, RefreshRead, SwitchOrgRead, ShortenKeyed, Authenticate,
             WorkDone, RefreshIssue, SwitchOrgIssue, Login, DisableKey, CreateKey,
             ChangeMembership, SetAccountStatus, AccessTick, accessVars, tokenState
    <3> QED BY <3>1, <3>2, <3>3
  <2> QED BY <2>1, <2>2 DEF AccessInv, AccessTypes, AccessTypeOK, Call
<1> QED BY <1>1, <1>2, AccessInvariant, PTL DEF AccessSpec

-----------------------------------------------------------------------------
(***************************************************************************)
(* Serving.  First, what the loop over the rules finds.                    *)
(***************************************************************************)
LEMMA SomeLeast ==
  ASSUME NEW S, S \subseteq Nat, S # {}
  PROVE  \E x \in S : \A y \in S : x <= y
<1> DEFINE T == {1 .. n : n \in S}
<1>1. T \subseteq FiniteSubsetsOf(Nat) /\ T # {}
  <2>1. ASSUME NEW n \in S
        PROVE  1 .. n \in FiniteSubsetsOf(Nat)
    BY FS_Interval DEF FiniteSubsetsOf
  <2> QED BY <2>1
<1>2. PICK X \in T : \A Y \in T : ~(<<Y, X>> \in StrictSubsetOrdering(Nat))
  <2> HIDE DEF T
  <2> QED BY <1>1, FS_StrictSubsetOrderingWellFounded, WFMin
<1>3. PICK x \in S : X = 1 .. x
  OBVIOUS
<1>4. ASSUME NEW y \in S, y < x
      PROVE  FALSE
  <2>1. 1 .. y \in T /\ 1 .. y \in SUBSET Nat /\ 1 .. x \in SUBSET Nat
    BY <1>3
  <2>2. 1 .. y \subseteq 1 .. x /\ x \in 1 .. x /\ x \notin 1 .. y
    BY <1>4
  <2>3. 1 .. y \subseteq 1 .. x /\ 1 .. y # 1 .. x
    BY <2>2
  <2> QED BY <1>2, <1>3, <2>1, <2>3 DEF StrictSubsetOrdering
<1> QED BY <1>4

RuleLists == Seq(SUBSET Audience)

\* The first rule that matches a visitor is found, or there is none.
LEMMA FirstMatchFinds ==
  ASSUME NEW rs \in RuleLists, NEW a
  PROVE  /\ FirstMatch(rs, a) \in 0 .. Len(rs)
         /\ FirstMatch(rs, a) = 0 => \A i \in 1 .. Len(rs) : a \notin rs[i]
         /\ FirstMatch(rs, a) # 0 =>
              /\ a \in rs[FirstMatch(rs, a)]
              /\ \A i \in 1 .. Len(rs) : a \in rs[i] => FirstMatch(rs, a) <= i
<1> DEFINE matching == {i \in DOMAIN rs : a \in rs[i]}
<1>1. DOMAIN rs = 1 .. Len(rs) /\ Len(rs) \in Nat
  BY DEF RuleLists
<1>2. FirstMatch(rs, a) = IF matching = {} THEN 0
                          ELSE CHOOSE i \in matching : \A j \in matching : i <= j
  BY DEF FirstMatch
<1>3. CASE matching = {}
  BY <1>1, <1>2, <1>3
<1>4. CASE matching # {}
  <2>1. \E i \in matching : \A j \in matching : i <= j
    <3>1. matching \subseteq Nat
      BY <1>1
    <3> HIDE DEF matching
    <3> QED BY <1>4, <3>1, SomeLeast
  <2>2. /\ FirstMatch(rs, a) \in matching
        /\ \A j \in matching : FirstMatch(rs, a) <= j
    BY <1>2, <1>4, <2>1
  <2> QED BY <1>1, <2>2
<1> QED BY <1>3, <1>4

\* Rules that are the first of a list match as that list does, or not yet.
LEMMA FirstMatchOfPrefix ==
  ASSUME NEW rs \in RuleLists, NEW all \in RuleLists, NEW a,
         Len(rs) <= Len(all), \A i \in 1 .. Len(rs) : rs[i] = all[i]
  PROVE  FirstMatch(rs, a) \in {0, FirstMatch(all, a)}
<1>1. Len(rs) \in Nat /\ Len(all) \in Nat
  BY DEF RuleLists
<1>2. /\ FirstMatch(rs, a) \in 0 .. Len(rs)
      /\ FirstMatch(rs, a) # 0 =>
           /\ a \in rs[FirstMatch(rs, a)]
           /\ \A i \in 1 .. Len(rs) : a \in rs[i] => FirstMatch(rs, a) <= i
  BY FirstMatchFinds
<1>3. /\ FirstMatch(all, a) \in 0 .. Len(all)
      /\ FirstMatch(all, a) = 0 => \A i \in 1 .. Len(all) : a \notin all[i]
      /\ FirstMatch(all, a) # 0 =>
           /\ a \in all[FirstMatch(all, a)]
           /\ \A i \in 1 .. Len(all) : a \in all[i] => FirstMatch(all, a) <= i
  BY FirstMatchFinds
<1> DEFINE m == FirstMatch(rs, a)
           n == FirstMatch(all, a)
<1> HIDE DEF m, n
<1>4. ASSUME m # 0
      PROVE  m = n
  <2>1. m \in 1 .. Len(rs) /\ m \in 1 .. Len(all) /\ a \in all[m]
    BY <1>1, <1>2, <1>4 DEF m
  <2>2. n # 0 /\ n <= m /\ n \in 1 .. Len(rs) /\ a \in all[n]
    BY <1>1, <1>3, <2>1 DEF n
  <2>3. m <= n
    BY <1>2, <1>4, <2>2 DEF m
  <2> QED BY <2>1, <2>2, <2>3
<1> QED BY <1>4 DEF m, n

-----------------------------------------------------------------------------
(***************************************************************************)
(* The inductive invariant of Serving, in two parts that share no more     *)
(* than the types: the rules and the counters.                             *)
(***************************************************************************)
LinkRow == [status : {"ABSENT", "ACTIVE", "DISABLED_ABUSE"}, schedule : Schedules, visits : Nat]

VisitRow == [at : {"idle", "read", "routed", "counted"}, who : Audience \cup {"nobody"}, rule : Nat]

ServingTypes ==
  /\ link \in LinkRow
  /\ rules \in RuleLists /\ pending \in RuleLists /\ submitted \in RuleLists
  /\ visit \in [Visits -> VisitRow]
  /\ clicks \in Seq(BOOLEAN)
  /\ drift \in Int

\* Until the owner touches them, the rules are the first of those submitted, and the
\* creating request goes on with the next.
RulesInOrder ==
  /\ link.status = "ABSENT" =>
       rules = <<>> /\ pending = <<>> /\ link.visits = 0 /\ \A v \in Visits : visit[v] = NoVisit
  /\ ~touched =>
       /\ Len(rules) + Len(pending) <= Len(submitted)
       /\ \A i \in 1 .. Len(rules) : rules[i] = submitted[i]
       /\ \A i \in 1 .. Len(pending) : pending[i] = submitted[Len(rules) + i]
  /\ PartialRulesFallBack

ServingInv == ServingTypes /\ RulesInOrder /\ VisitsAccounted

\* At the start there is no link and no visit.
LEMMA ServingStart ==
  now = 0 /\ ServingInit => ServingInv
<1> SUFFICES ASSUME now = 0, ServingInit
             PROVE  ServingInv
  OBVIOUS
<1>1. NoVisit \in VisitRow
  BY DEF NoVisit, VisitRow
<1>2. [from |-> 0, until |-> 1] \in Schedules
  BY ServingAssumption DEF Schedules, Days
<1>3. <<>> \in RuleLists /\ <<>> \in Seq(BOOLEAN) /\ Len(<<>>) = 0
  BY DEF RuleLists
<1>4. ServingTypes
  BY <1>1, <1>2, <1>3 DEF ServingInit, ServingTypes, LinkRow
<1>5. RulesInOrder
  BY <1>3 DEF ServingInit, RulesInOrder, PartialRulesFallBack, NoVisit
<1>6. Counted = {}
  BY DEF ServingInit, Counted, NoVisit
<1>7. VisitsAccounted
  BY <1>3, <1>6, FS_EmptySet DEF ServingInit, VisitsAccounted
<1> QED BY <1>4, <1>5, <1>7 DEF ServingInv

\* The owner's and the operator's steps leave visits and clicks alone.
LEMMA OwnerStepKeeps ==
  ASSUME ServingInv, UNCHANGED <<visit, clicks, drift>>, link'.visits = link.visits
  PROVE  VisitsAccounted'
BY DEF ServingInv, VisitsAccounted, Counted

\* Inserting the row of the link.
LEMMA CreateLinkKeeps ==
  ASSUME ServingInv, NEW s \in Schedules, NEW ms \in Batches, CreateLink(s, ms)
  PROVE  ServingInv'
<1>1. /\ link.status = "ABSENT" /\ rules = <<>> /\ link.visits = 0
      /\ \A v \in Visits : visit[v] = NoVisit
      /\ link' = [status |-> "ACTIVE", schedule |-> s, visits |-> 0]
      /\ pending' = ms /\ submitted' = ms
      /\ UNCHANGED <<now, rules, touched, changes, visit, clicks, drift, begun>>
  BY DEF CreateLink, ServingInv, RulesInOrder, countVars
<1>2. ms \in RuleLists
  <2>1. <<>> \in Seq(SUBSET Audience)
    OBVIOUS
  <2>2. \A m, n \in SUBSET Audience :
          <<m>> \in Seq(SUBSET Audience) /\ <<m, n>> \in Seq(SUBSET Audience)
    OBVIOUS
  <2>3. CASE ms = <<>>
    BY <2>1, <2>3 DEF RuleLists
  <2>4. CASE ms \in {<<m>> : m \in SUBSET Audience}
    <3>1. PICK m \in SUBSET Audience : ms = <<m>>
      BY <2>4
    <3> QED BY <2>2, <3>1 DEF RuleLists
  <2>5. CASE ms \in {<<m, n>> : m, n \in SUBSET Audience}
    <3>1. PICK m \in SUBSET Audience, n \in SUBSET Audience : ms = <<m, n>>
      BY <2>5
    <3> QED BY <2>2, <3>1 DEF RuleLists
  <2>6. \/ ms = <<>>
        \/ ms \in {<<m>> : m \in SUBSET Audience}
        \/ ms \in {<<m, n>> : m, n \in SUBSET Audience}
    BY DEF Batches
  <2> QED BY <2>3, <2>4, <2>5, <2>6
<1>3. ServingTypes'
  BY <1>1, <1>2 DEF ServingInv, ServingTypes, LinkRow
<1>4. RulesInOrder'
  BY <1>1, <1>2 DEF RulesInOrder, PartialRulesFallBack, NoVisit, RuleLists
<1> QED BY <1>1, <1>3, <1>4, OwnerStepKeeps DEF ServingInv

\* Inserting its rules, one by one, up to a failure.
LEMMA InsertRulesKeeps ==
  ASSUME ServingInv, InsertRule \/ InsertRuleFails
  PROVE  ServingInv'
<1>0. /\ rules \in RuleLists /\ pending \in RuleLists /\ submitted \in RuleLists
      /\ Len(rules) \in Nat /\ Len(pending) \in Nat /\ Len(submitted) \in Nat
  BY DEF ServingInv, ServingTypes, RuleLists
<1>1. /\ pending # <<>>
      /\ UNCHANGED <<now, link, submitted, touched, changes, visit, clicks, drift, begun>>
  BY DEF InsertRule, InsertRuleFails, countVars
<1>2. link.status # "ABSENT"
  BY <1>1 DEF ServingInv, RulesInOrder
<1>3. CASE InsertRuleFails
  <2>1. pending' = <<>> /\ rules' = rules /\ <<>> \in RuleLists /\ Len(<<>>) = 0
    BY <1>3 DEF InsertRuleFails, RuleLists
  <2>2. ServingTypes'
    BY <1>1, <2>1 DEF ServingInv, ServingTypes
  <2>3. RulesInOrder'
    BY <1>0, <1>1, <1>2, <2>1 DEF ServingInv, RulesInOrder, PartialRulesFallBack
  <2> QED BY <1>1, <2>2, <2>3, OwnerStepKeeps DEF ServingInv
<1>4. CASE InsertRule
  <2>1. rules' = Append(rules, Head(pending)) /\ pending' = Tail(pending)
    BY <1>4 DEF InsertRule
  <2>2. Head(pending) \in SUBSET Audience /\ Head(pending) = pending[1] /\ Len(pending) >= 1
    BY <1>0, <1>1 DEF RuleLists
  <2>3. /\ rules' \in RuleLists /\ Len(rules') = Len(rules) + 1
        /\ \A i \in 1 .. Len(rules) : rules'[i] = rules[i]
        /\ rules'[Len(rules) + 1] = pending[1]
    BY <1>0, <2>1, <2>2, AppendProperties DEF RuleLists
  <2>4. /\ pending' \in RuleLists /\ Len(pending') = Len(pending) - 1
        /\ \A i \in 1 .. Len(pending') : pending'[i] = pending[i + 1]
    BY <1>0, <1>1, <2>1, HeadTailProperties DEF RuleLists
  <2>5. ServingTypes'
    BY <1>1, <2>3, <2>4 DEF ServingInv, ServingTypes
  <2>6. ASSUME ~touched
        PROVE  /\ Len(rules') + Len(pending') <= Len(submitted)
               /\ \A i \in 1 .. Len(rules') : rules'[i] = submitted[i]
               /\ \A i \in 1 .. Len(pending') : pending'[i] = submitted[Len(rules') + i]
    <3>1. /\ Len(rules) + Len(pending) <= Len(submitted)
          /\ \A i \in 1 .. Len(rules) : rules[i] = submitted[i]
          /\ \A i \in 1 .. Len(pending) : pending[i] = submitted[Len(rules) + i]
      BY <2>6 DEF ServingInv, RulesInOrder
    <3>2. Len(rules') + Len(pending') <= Len(submitted)
      BY <1>0, <2>3, <2>4, <3>1
    <3>3. ASSUME NEW i \in 1 .. Len(rules')
          PROVE  rules'[i] = submitted[i]
      <4>1. CASE i \in 1 .. Len(rules)
        BY <2>3, <3>1, <4>1
      <4>2. CASE i = Len(rules) + 1
        BY <2>2, <2>3, <3>1, <4>2, <1>0
      <4> QED BY <1>0, <2>3, <4>1, <4>2
    <3>4. ASSUME NEW i \in 1 .. Len(pending')
          PROVE  pending'[i] = submitted[Len(rules') + i]
      <4>1. i + 1 \in 1 .. Len(pending) /\ Len(rules) + (i + 1) = Len(rules') + i
        BY <1>0, <2>3, <2>4
      <4> QED BY <2>4, <3>1, <4>1
    <3> QED BY <3>2, <3>3, <3>4
  <2>7. RulesInOrder'
    BY <1>1, <1>2, <2>6 DEF ServingInv, RulesInOrder, PartialRulesFallBack
  <2> QED BY <1>1, <2>5, <2>7, OwnerStepKeeps DEF ServingInv
<1> QED BY <1>3, <1>4

\* Any change of the rules of a link that is there.
LEMMA RulesChangeKeeps ==
  ASSUME ServingInv, NEW rs \in RuleLists, RulesChange(rs), link.status # "ABSENT"
  PROVE  ServingInv'
<1>1. /\ rules' = rs /\ touched' = TRUE
      /\ UNCHANGED <<now, link, pending, submitted, visit, clicks, drift, begun>>
  BY DEF RulesChange, countVars
<1>2. ServingTypes' /\ RulesInOrder'
  BY <1>1 DEF ServingInv, ServingTypes, RulesInOrder, PartialRulesFallBack
<1> QED BY <1>1, <1>2, OwnerStepKeeps DEF ServingInv

\* Adding, changing and deleting a rule.
LEMMA RuleEditsKeep ==
  ASSUME ServingInv,
         \/ \E m \in SUBSET Audience : AddRule(m) \/ \E i \in DOMAIN rules : UpdateRule(i, m)
         \/ \E i \in DOMAIN rules : DeleteRule(i)
  PROVE  ServingInv'
<1>0. rules \in Seq(SUBSET Audience) /\ Len(rules) \in Nat /\ DOMAIN rules = 1 .. Len(rules)
  BY DEF ServingInv, ServingTypes, RuleLists
<1>1. ASSUME NEW m \in SUBSET Audience, AddRule(m)
      PROVE  ServingInv'
  <2>1. Append(rules, m) \in RuleLists
    BY <1>0, AppendProperties DEF RuleLists
  <2> QED BY <1>1, <2>1, RulesChangeKeeps DEF AddRule
<1>2. ASSUME NEW i \in DOMAIN rules
      PROVE  link.status # "ABSENT"
  BY <1>0, <1>2 DEF ServingInv, RulesInOrder
<1>3. ASSUME NEW m \in SUBSET Audience, NEW i \in DOMAIN rules, UpdateRule(i, m)
      PROVE  ServingInv'
  <2>1. [rules EXCEPT ![i] = m] \in RuleLists
    BY <1>0, ExceptSeq DEF RuleLists
  <2> QED BY <1>2, <1>3, <2>1, RulesChangeKeeps DEF UpdateRule
<1>4. ASSUME NEW i \in DOMAIN rules, DeleteRule(i)
      PROVE  ServingInv'
  <2>1. /\ \A j \in 1 .. i - 1 : rules[j] \in SUBSET Audience
        /\ \A j \in i + 1 .. Len(rules) : rules[j] \in SUBSET Audience
    BY <1>0
  <2>2. /\ SubSeq(rules, 1, i - 1) \in Seq(SUBSET Audience)
        /\ SubSeq(rules, i + 1, Len(rules)) \in Seq(SUBSET Audience)
    BY <1>0, <2>1, SubSeqProperties
  <2>3. SubSeq(rules, 1, i - 1) \o SubSeq(rules, i + 1, Len(rules)) \in RuleLists
    BY <2>2, ConcatProperties DEF RuleLists
  <2> QED BY <1>2, <1>4, <2>3, RulesChangeKeeps DEF DeleteRule
<1> QED BY <1>1, <1>3, <1>4

\* Changing the schedule and the status.
LEMMA LinkChangeKeeps ==
  ASSUME ServingInv,
         \/ \E s \in Schedules : SetSchedule(s)
         \/ \E s \in {"ACTIVE", "DISABLED_ABUSE"} : SetLinkStatus(s)
  PROVE  ServingInv'
<1>1. /\ link.status # "ABSENT"
      /\ UNCHANGED <<now, rules, pending, submitted, touched, visit, clicks, drift, begun>>
      /\ link' \in LinkRow /\ link'.visits = link.visits /\ link'.status # "ABSENT"
  BY DEF SetSchedule, SetLinkStatus, LinkChange, countVars, ServingInv, ServingTypes, LinkRow
<1>2. ServingTypes' /\ RulesInOrder'
  BY <1>1 DEF ServingInv, ServingTypes, RulesInOrder, PartialRulesFallBack
<1> QED BY <1>1, <1>2, OwnerStepKeeps DEF ServingInv

-----------------------------------------------------------------------------
\* The visits that have counted but have no click yet are finitely many.
LEMMA CountedIsFinite ==
  IsFiniteSet(Counted) /\ Cardinality(Counted) \in Nat
<1>1. Counted \in SUBSET Visits
  BY DEF Counted
<1> QED BY <1>1, ServingAssumption, FS_Subset, FS_CardinalityType

\* Reading the link and its rules.
LEMMA BeginKeeps ==
  ASSUME ServingInv, NEW v \in Visits,
         (\E a \in Audience : VisitRead(v, a)) \/ VisitRules(v)
  PROVE  ServingInv'
<1>0. visit \in [Visits -> VisitRow] /\ rules \in RuleLists /\ submitted \in RuleLists
  BY DEF ServingInv, ServingTypes
<1>1. UNCHANGED <<now, link, rules, pending, submitted, touched, changes, clicks, drift>>
  BY DEF VisitRead, VisitRules, linkVars, countVars
<1>2. ASSUME NEW row \in VisitRow, visit' = [visit EXCEPT ![v] = row],
             row.at # "counted", visit[v].at # "counted", link.status # "ABSENT",
             row.at = "routed" /\ ~touched => row.rule \in {0, FirstMatch(submitted, row.who)}
      PROVE  ServingInv'
  <2>1. ServingTypes'
    BY <1>0, <1>1, <1>2 DEF ServingInv, ServingTypes
  <2>2. Counted' = Counted
    BY <1>0, <1>2 DEF Counted
  <2>3. VisitsAccounted'
    BY <1>1, <2>2 DEF ServingInv, VisitsAccounted
  <2>4. PartialRulesFallBack'
    BY <1>0, <1>1, <1>2 DEF ServingInv, RulesInOrder, PartialRulesFallBack
  <2>5. RulesInOrder'
    BY <1>1, <1>2, <2>4 DEF ServingInv, RulesInOrder
  <2> QED BY <2>1, <2>3, <2>5 DEF ServingInv
<1>3. ASSUME NEW a \in Audience, VisitRead(v, a)
      PROVE  ServingInv'
  <2> DEFINE row == [NoVisit EXCEPT !.at = "read", !.who = a]
  <2>1. row \in VisitRow /\ row.at = "read"
    BY DEF VisitRow, NoVisit
  <2>2. /\ visit' = [visit EXCEPT ![v] = row] /\ visit[v].at = "idle"
        /\ link.status # "ABSENT"
    BY <1>3 DEF VisitRead, Open
  <2> HIDE DEF row
  <2> QED BY <1>2, <2>1, <2>2
<1>4. ASSUME VisitRules(v)
      PROVE  ServingInv'
  <2>1. PICK rs \in {rules, <<>>} :
          visit' = [visit EXCEPT ![v].at = "routed", ![v].rule = FirstMatch(rs, visit[v].who)]
    BY <1>4 DEF VisitRules
  <2>2. visit[v].at = "read" /\ link.status # "ABSENT"
    BY <1>4 DEF VisitRules, ServingInv, RulesInOrder, NoVisit
  <2> DEFINE row == [visit[v] EXCEPT !.at = "routed", !.rule = FirstMatch(rs, visit[v].who)]
  <2>3. rs \in RuleLists /\ (rs # rules => Len(rs) = 0)
    <3>1. <<>> \in Seq(SUBSET Audience) /\ Len(<<>>) = 0
      OBVIOUS
    <3> QED BY <1>0, <2>1, <3>1 DEF RuleLists
  <2>4. FirstMatch(rs, visit[v].who) \in Nat
    BY <2>3, FirstMatchFinds DEF RuleLists
  <2>5. /\ row \in VisitRow /\ row.at = "routed" /\ row.who = visit[v].who
        /\ row.rule = FirstMatch(rs, visit[v].who)
    BY <1>0, <2>4 DEF VisitRow
  <2>6. visit' = [visit EXCEPT ![v] = row]
    BY <2>1
  <2>7. ASSUME ~touched
        PROVE  FirstMatch(rs, visit[v].who) \in {0, FirstMatch(submitted, visit[v].who)}
    <3>1. /\ Len(rules) \in Nat /\ Len(submitted) \in Nat /\ Len(pending) \in Nat
      BY DEF ServingInv, ServingTypes, RuleLists
    <3>2. /\ Len(rs) <= Len(submitted)
          /\ \A i \in 1 .. Len(rs) : rs[i] = submitted[i]
      BY <2>3, <2>7, <3>1 DEF ServingInv, RulesInOrder
    <3> QED BY <1>0, <2>3, <3>2, FirstMatchOfPrefix
  <2> HIDE DEF row
  <2> QED BY <1>2, <2>2, <2>5, <2>6, <2>7
<1> QED BY <1>3, <1>4

\* The UPDATE of the counter.
LEMMA CountKeeps ==
  ASSUME ServingInv, NEW v \in Visits, VisitCount(v)
  PROVE  ServingInv'
<1>0. /\ visit \in [Visits -> VisitRow] /\ link \in LinkRow /\ drift \in Int
      /\ link.visits \in Nat /\ Len(clicks) \in Nat
  BY DEF ServingInv, ServingTypes, LinkRow
<1>1. /\ visit[v].at = "routed" /\ visit' = [visit EXCEPT ![v].at = "counted"]
      /\ \/ link' = [link EXCEPT !.visits = @ + 1] /\ drift' = drift
         \/ link' = link /\ drift' = drift - 1
      /\ UNCHANGED <<now, rules, pending, submitted, touched, changes, clicks, begun>>
  BY DEF VisitCount, CountAndGoOn
<1>2. /\ link' \in LinkRow /\ link'.status = link.status /\ drift' \in Int
      /\ link'.visits - drift' = link.visits - drift + 1
  BY <1>0, <1>1 DEF LinkRow
<1>3. ServingTypes'
  <2>1. visit' \in [Visits -> VisitRow]
    BY <1>0, <1>1 DEF VisitRow
  <2> QED BY <1>1, <1>2, <2>1 DEF ServingInv, ServingTypes
<1>4. Counted' = Counted \cup {v} /\ v \notin Counted
  BY <1>0, <1>1 DEF Counted, VisitRow
<1>5. Cardinality(Counted') = Cardinality(Counted) + 1 /\ Cardinality(Counted) \in Nat
  BY <1>4, CountedIsFinite, FS_AddElement
<1>6. VisitsAccounted'
  <2>1. link.visits = Len(clicks) + Cardinality(Counted) + drift
    BY DEF ServingInv, VisitsAccounted
  <2>2. link'.visits \in Int
    BY <1>2 DEF LinkRow
  <2>3. link'.visits = Len(clicks) + Cardinality(Counted') + drift'
    BY <1>0, <1>2, <1>5, <2>1, <2>2
  <2> QED BY <1>1, <2>3 DEF VisitsAccounted
<1>7. PartialRulesFallBack'
  BY <1>0, <1>1 DEF ServingInv, RulesInOrder, PartialRulesFallBack, VisitRow
<1>8. RulesInOrder'
  <2>1. link.status # "ABSENT"
    BY <1>1 DEF ServingInv, RulesInOrder, NoVisit
  <2> QED BY <1>1, <1>2, <1>7, <2>1 DEF ServingInv, RulesInOrder
<1> QED BY <1>3, <1>6, <1>8 DEF ServingInv

\* The INSERT of the click.
LEMMA ClickKeeps ==
  ASSUME ServingInv, NEW v \in Visits, VisitClick(v)
  PROVE  ServingInv'
<1>0. /\ visit \in [Visits -> VisitRow] /\ drift \in Int /\ clicks \in Seq(BOOLEAN)
      /\ Len(clicks) \in Nat
  BY DEF ServingInv, ServingTypes
<1>1. /\ visit[v].at = "counted" /\ visit' = [visit EXCEPT ![v] = NoVisit]
      /\ UNCHANGED <<now, link, rules, pending, submitted, touched, changes, begun>>
      /\ \/ clicks' = Append(clicks, visit[v].rule # 0) /\ drift' = drift
         \/ drift' = drift + 1 /\ clicks' = clicks
  BY DEF VisitClick, linkVars
<1>2. NoVisit \in VisitRow /\ NoVisit.at = "idle"
  BY DEF NoVisit, VisitRow
<1>3. /\ clicks' \in Seq(BOOLEAN) /\ drift' \in Int
      /\ Len(clicks') + drift' = Len(clicks) + drift + 1 /\ Len(clicks') \in Nat
  <2>1. CASE clicks' = clicks
    BY <1>0, <1>1, <2>1
  <2>2. CASE clicks' = Append(clicks, visit[v].rule # 0) /\ drift' = drift
    <3>1. (visit[v].rule # 0) \in BOOLEAN
      OBVIOUS
    <3>2. clicks' \in Seq(BOOLEAN) /\ Len(clicks') = Len(clicks) + 1
      BY <1>0, <2>2, <3>1, AppendProperties
    <3> QED BY <1>0, <2>2, <3>2
  <2> QED BY <1>1, <2>1, <2>2
<1>4. ServingTypes'
  BY <1>0, <1>1, <1>2, <1>3 DEF ServingInv, ServingTypes
<1>5. Counted' = Counted \ {v} /\ v \in Counted
  BY <1>0, <1>1, <1>2 DEF Counted
<1>6. Cardinality(Counted') = Cardinality(Counted) - 1 /\ Cardinality(Counted) \in Nat
  BY <1>5, CountedIsFinite, FS_RemoveElement
<1>7. VisitsAccounted'
  <2>1. link.visits = Len(clicks) + Cardinality(Counted) + drift
    BY DEF ServingInv, VisitsAccounted
  <2>2. link.visits = Len(clicks') + Cardinality(Counted') + drift'
    BY <1>0, <1>3, <1>6, <2>1
  <2> QED BY <1>1, <2>2 DEF VisitsAccounted
<1>8. RulesInOrder'
  <2>1. link.status # "ABSENT"
    BY <1>1 DEF ServingInv, RulesInOrder, NoVisit
  <2>2. PartialRulesFallBack'
    BY <1>0, <1>1, <1>2 DEF ServingInv, RulesInOrder, PartialRulesFallBack
  <2> QED BY <1>1, <2>1, <2>2 DEF ServingInv, RulesInOrder
<1> QED BY <1>4, <1>7, <1>8 DEF ServingInv

\* A crash in between.
LEMMA CrashKeeps ==
  ASSUME ServingInv, Crash
  PROVE  ServingInv'
<1>1. /\ pending' = <<>> /\ visit' = [v \in Visits |-> NoVisit]
      /\ drift' = drift + Cardinality(Counted)
      /\ UNCHANGED <<now, link, rules, submitted, touched, changes, clicks, begun>>
  BY DEF Crash
<1>2. NoVisit \in VisitRow /\ <<>> \in RuleLists /\ Len(<<>>) = 0
  BY DEF NoVisit, VisitRow, RuleLists
<1>3. Cardinality(Counted) \in Nat /\ Counted' = {}
  BY <1>1, CountedIsFinite DEF Counted, NoVisit
<1>4. ServingTypes'
  BY <1>1, <1>2, <1>3 DEF ServingInv, ServingTypes
<1>5. VisitsAccounted'
  <2>1. link.visits = Len(clicks) + Cardinality(Counted) + drift /\ Len(clicks) \in Nat /\ drift \in Int
    BY DEF ServingInv, ServingTypes, VisitsAccounted
  <2>2. Cardinality(Counted') = 0
    BY <1>3, FS_EmptySet
  <2> QED BY <1>1, <1>3, <2>1, <2>2 DEF VisitsAccounted
<1>6. RulesInOrder'
  <2>1. PartialRulesFallBack'
    BY <1>1 DEF PartialRulesFallBack, NoVisit
  <2>2. Len(rules) \in Nat /\ Len(pending) \in Nat /\ Len(submitted) \in Nat
    BY DEF ServingInv, ServingTypes, RuleLists
  <2> QED BY <1>1, <1>2, <2>1, <2>2 DEF ServingInv, RulesInOrder
<1> QED BY <1>4, <1>5, <1>6 DEF ServingInv

\* Rules in order, visits and counters agree (ResolveService.Resolve, LinkService.shorten).
THEOREM ServingInvariant == ServingSpec => []ServingInv
<1>1. ServingInv /\ [ServingNext]_servingVars => ServingInv'
  <2> SUFFICES ASSUME ServingInv, [ServingNext]_servingVars
               PROVE  ServingInv'
    OBVIOUS
  <2>1. CASE UNCHANGED servingOwn
    BY <2>1 DEF servingOwn, ServingInv, ServingTypes, RulesInOrder, PartialRulesFallBack,
                VisitsAccounted, Counted
  <2> QED BY <2>1, CreateLinkKeeps, InsertRulesKeeps, RuleEditsKeep, LinkChangeKeeps, BeginKeeps,
             CountKeeps, ClickKeeps, CrashKeeps
          DEF ServingNext, ServingTick, servingVars
<1> QED BY <1>1, ServingStart, PTL DEF ServingSpec

\* While rules are being inserted, or after a part of them, a visitor finds the first
\* match of the request or the answer without rules (LinkService.shorten, its loop over
\* the rules; ResolveService.matchTargetRules).
THEOREM PartialRules == ServingSpec => []PartialRulesFallBack
<1>1. ServingInv => PartialRulesFallBack
  BY DEF ServingInv, RulesInOrder
<1> QED BY <1>1, ServingInvariant, PTL

\* Counter and click rows differ by what failed or was cut off (ResolveService.Resolve).
THEOREM VisitsAreAccounted == ServingSpec => []VisitsAccounted
<1>1. ServingInv => VisitsAccounted
  BY DEF ServingInv
<1> QED BY <1>1, ServingInvariant, PTL

\* A visit moves the counters apart by one at most, one way or the other.
Early == {v \in Visits : visit[v].at \in {"read", "routed"}}

DriftInv ==
  /\ begun \in 0 .. MaxVisits
  /\ -(begun - Cardinality(Early)) <= drift
  /\ drift + Cardinality(Counted) <= begun - Cardinality(Early)

\* Bounds, beside what the invariant says of the rows and the requests.
ServingBounds ==
  /\ now \in Days
  /\ Len(rules) <= MaxRules
  /\ \A v \in Visits : visit[v].rule \in 0 .. MaxRules
  /\ touched \in BOOLEAN /\ changes \in 0 .. MaxChanges

\* The visits that have not counted yet are finitely many.
LEMMA EarlyIsFinite ==
  IsFiniteSet(Early) /\ Cardinality(Early) \in Nat
<1>1. Early \in SUBSET Visits
  BY DEF Early
<1> QED BY <1>1, ServingAssumption, FS_Subset, FS_CardinalityType

\* Before the first visit nothing is apart.
LEMMA DriftStart ==
  ServingInit => DriftInv
<1> SUFFICES ASSUME ServingInit
             PROVE  DriftInv
  OBVIOUS
<1>1. Early = {} /\ Counted = {}
  BY DEF ServingInit, Early, Counted, NoVisit
<1>2. Cardinality(Early) = 0 /\ Cardinality(Counted) = 0
  BY <1>1, FS_EmptySet
<1>3. begun = 0 /\ drift = 0 /\ MaxVisits \in Nat
  BY ServingAssumption DEF ServingInit
<1> QED BY <1>2, <1>3 DEF DriftInv

\* The counters of a step that is no visit's.
LEMMA DriftStays ==
  ASSUME DriftInv, UNCHANGED <<visit, drift, begun>>
  PROVE  DriftInv'
BY DEF DriftInv, Early, Counted

\* A step of one visit: its beginning, its UPDATE of the counter, its INSERT of the click.
LEMMA VisitDrifts ==
  ASSUME ServingInv, DriftInv, NEW v \in Visits,
         \/ \E a \in Audience : VisitRead(v, a)
         \/ VisitRules(v) \/ VisitCount(v) \/ VisitClick(v)
  PROVE  DriftInv'
<1>0. /\ visit \in [Visits -> VisitRow] /\ drift \in Int /\ MaxVisits \in Nat
      /\ IsFiniteSet(Early) /\ Cardinality(Early) \in Nat
      /\ IsFiniteSet(Counted) /\ Cardinality(Counted) \in Nat
  BY EarlyIsFinite, CountedIsFinite, ServingAssumption DEF ServingInv, ServingTypes
<1>1. CASE \E a \in Audience : VisitRead(v, a)
  <2>1. PICK a \in Audience : VisitRead(v, a)
    BY <1>1
  <2>2. /\ visit[v].at = "idle" /\ begun < MaxVisits /\ begun' = begun + 1 /\ drift' = drift
        /\ visit' = [visit EXCEPT ![v] = [NoVisit EXCEPT !.at = "read", !.who = a]]
    BY <2>1 DEF VisitRead
  <2>3. visit'[v].at = "read" /\ \A w \in Visits : w # v => visit'[w] = visit[w]
    BY <1>0, <2>2 DEF NoVisit
  <2>4. Early' = Early \cup {v} /\ v \notin Early /\ Counted' = Counted
    BY <2>2, <2>3 DEF Early, Counted
  <2>5. Cardinality(Early') = Cardinality(Early) + 1
    BY <1>0, <2>4, FS_AddElement
  <2> QED BY <1>0, <2>2, <2>4, <2>5 DEF DriftInv
<1>2. CASE VisitRules(v)
  <2>1. /\ visit[v].at = "read" /\ begun' = begun /\ drift' = drift
        /\ \E rs \in {rules, <<>>} :
             visit' = [visit EXCEPT ![v].at = "routed", ![v].rule = FirstMatch(rs, visit[v].who)]
    BY <1>2 DEF VisitRules, countVars
  <2>2. visit'[v].at = "routed" /\ \A w \in Visits : w # v => visit'[w] = visit[w]
    BY <1>0, <2>1 DEF VisitRow
  <2>3. Early' = Early /\ Counted' = Counted
    BY <2>1, <2>2 DEF Early, Counted
  <2> QED BY <2>1, <2>3 DEF DriftInv
<1>3. CASE VisitCount(v)
  <2>1. /\ visit[v].at = "routed" /\ visit' = [visit EXCEPT ![v].at = "counted"]
        /\ drift' \in {drift, drift - 1} /\ begun' = begun
    BY <1>3 DEF VisitCount, CountAndGoOn
  <2>2. visit'[v].at = "counted" /\ \A w \in Visits : w # v => visit'[w] = visit[w]
    BY <1>0, <2>1 DEF VisitRow
  <2>3. Early' = Early \ {v} /\ v \in Early /\ Counted' = Counted \cup {v} /\ v \notin Counted
    BY <2>1, <2>2 DEF Early, Counted
  <2>4. /\ Cardinality(Early') = Cardinality(Early) - 1
        /\ Cardinality(Counted') = Cardinality(Counted) + 1
    BY <1>0, <2>3, FS_AddElement, FS_RemoveElement
  <2> QED BY <1>0, <2>1, <2>4 DEF DriftInv
<1>4. CASE VisitClick(v)
  <2>1. /\ visit[v].at = "counted" /\ visit' = [visit EXCEPT ![v] = NoVisit]
        /\ drift' \in {drift, drift + 1} /\ begun' = begun
    BY <1>4 DEF VisitClick
  <2>2. visit'[v].at = "idle" /\ \A w \in Visits : w # v => visit'[w] = visit[w]
    BY <1>0, <2>1 DEF NoVisit
  <2>3. Early' = Early /\ Counted' = Counted \ {v} /\ v \in Counted
    BY <2>1, <2>2 DEF Early, Counted
  <2>4. Cardinality(Counted') = Cardinality(Counted) - 1
    BY <1>0, <2>3, FS_RemoveElement
  <2> QED BY <1>0, <2>1, <2>3, <2>4 DEF DriftInv
<1> QED BY <1>1, <1>2, <1>3, <1>4

\* A crash takes the visits between the two statements with it.
LEMMA CrashDrifts ==
  ASSUME ServingInv, DriftInv, Crash
  PROVE  DriftInv'
<1>1. /\ drift \in Int /\ Cardinality(Early) \in Nat /\ Cardinality(Counted) \in Nat
      /\ MaxVisits \in Nat
  BY EarlyIsFinite, CountedIsFinite, ServingAssumption DEF ServingInv, ServingTypes
<1>2. Early' = {} /\ Counted' = {} /\ drift' = drift + Cardinality(Counted) /\ begun' = begun
  BY DEF Crash, Early, Counted, NoVisit
<1>3. Cardinality(Early') = 0 /\ Cardinality(Counted') = 0
  BY <1>2, FS_EmptySet
<1> QED BY <1>1, <1>2, <1>3 DEF DriftInv

\* The bounds of the clock, of the rules and of the changes.
LEMMA BoundsKept ==
  ASSUME ServingInv, ServingBounds, [ServingNext]_servingVars
  PROVE  ServingBounds'
<1>0. /\ rules \in RuleLists /\ visit \in [Visits -> VisitRow] /\ Len(rules) \in Nat
      /\ MaxRules \in Nat /\ MaxChanges \in Nat /\ ServingHorizon \in Nat
  BY ServingAssumption DEF ServingInv, ServingTypes, RuleLists
<1>1. now' \in Days
  <2>1. now' = now \/ (now' = now + 1 /\ now < ServingHorizon)
    BY DEF ServingNext, CreateLink, InsertRule, InsertRuleFails, AddRule, UpdateRule, DeleteRule,
           RulesChange, LinkChange, SetSchedule, SetLinkStatus, VisitRead, VisitRules, VisitCount,
           VisitClick, Crash, ServingTick, Advance, servingVars
  <2> QED BY <1>0, <2>1 DEF ServingBounds, Days
<1>2. touched' \in BOOLEAN /\ changes' \in 0 .. MaxChanges
  <2>1. /\ touched' \in {touched, TRUE}
        /\ changes' = changes \/ (changes' = changes + 1 /\ changes < MaxChanges)
    BY DEF ServingNext, CreateLink, InsertRule, InsertRuleFails, AddRule, UpdateRule, DeleteRule,
           RulesChange, LinkChange, SetSchedule, SetLinkStatus, VisitRead, VisitRules, VisitCount,
           VisitClick, Crash, ServingTick, servingVars, servingOwn, linkVars, Change
  <2>2. touched' \in BOOLEAN
    BY <2>1 DEF ServingBounds
  <2>3. changes' \in 0 .. MaxChanges
    BY <1>0, <2>1 DEF ServingBounds
  <2> QED BY <2>2, <2>3
<1>3. Len(rules') <= MaxRules
  <2>1. \/ rules' = rules
        \/ Len(rules) < MaxRules /\ \E m \in SUBSET Audience : rules' = Append(rules, m)
        \/ \E i \in DOMAIN rules, m \in SUBSET Audience : rules' = [rules EXCEPT ![i] = m]
        \/ \E i \in DOMAIN rules :
             rules' = SubSeq(rules, 1, i - 1) \o SubSeq(rules, i + 1, Len(rules))
    <3>1. CASE InsertRule
      <4>1. pending \in Seq(SUBSET Audience) /\ pending # <<>>
        BY <3>1 DEF InsertRule, ServingInv, ServingTypes, RuleLists
      <4>2. Head(pending) \in SUBSET Audience
        BY <4>1
      <4> QED BY <3>1, <4>2 DEF InsertRule
    <3>2. CASE \E m \in SUBSET Audience : AddRule(m) \/ \E i \in DOMAIN rules : UpdateRule(i, m)
      BY <3>2 DEF AddRule, UpdateRule, RulesChange
    <3>3. CASE \E i \in DOMAIN rules : DeleteRule(i)
      BY <3>3 DEF DeleteRule, RulesChange
    <3> QED BY <3>1, <3>2, <3>3
            DEF ServingNext, CreateLink, InsertRuleFails, LinkChange, SetSchedule, SetLinkStatus,
                VisitRead, VisitRules, VisitCount, VisitClick, Crash, ServingTick, servingVars,
                servingOwn, linkVars
  <2>2. ASSUME NEW m \in SUBSET Audience, Len(rules) < MaxRules, rules' = Append(rules, m)
        PROVE  Len(rules') <= MaxRules
    <3>1. Len(rules') = Len(rules) + 1
      BY <1>0, <2>2 DEF RuleLists
    <3> QED BY <1>0, <2>2, <3>1
  <2>3. ASSUME NEW i \in DOMAIN rules, NEW m \in SUBSET Audience,
               rules' = [rules EXCEPT ![i] = m]
        PROVE  Len(rules') <= MaxRules
    <3>1. Len(rules') = Len(rules)
      BY <1>0, <2>3 DEF RuleLists
    <3> QED BY <3>1 DEF ServingBounds
  <2>4. ASSUME NEW i \in DOMAIN rules,
               rules' = SubSeq(rules, 1, i - 1) \o SubSeq(rules, i + 1, Len(rules))
        PROVE  Len(rules') <= MaxRules
    <3>1. PICK n \in Nat : n = Len(rules)
      BY <1>0
    <3>2. PICK a, b : a = i - 1 /\ b = i + 1
      OBVIOUS
    <3>3. i \in 1 .. n /\ a \in 0 .. n /\ b \in 1 .. n + 1
      BY <1>0, <3>1, <3>2 DEF RuleLists
    <3>4. PICK u, w : u = SubSeq(rules, 1, a) /\ w = SubSeq(rules, b, n)
      OBVIOUS
    <3>5. PICK S : S = SUBSET Audience
      OBVIOUS
    <3>6. rules \in Seq(S)
      BY <1>0, <3>5 DEF RuleLists
    <3>7. u \in Seq(S) /\ w \in Seq(S) /\ Len(u) = a /\ Len(w) = n - b + 1
      BY <3>1, <3>3, <3>4, <3>6
    <3>8. Len(u \o w) = Len(u) + Len(w)
      BY <3>7
    <3>9. rules' = u \o w
      BY <2>4, <3>1, <3>2, <3>4
    <3>10. a + (n - b + 1) <= n
      BY <3>2, <3>3
    <3> QED BY <3>1, <3>7, <3>8, <3>9, <3>10, <1>0 DEF ServingBounds
  <2> QED BY <2>1, <2>2, <2>3, <2>4 DEF ServingBounds
<1>4. \A v \in Visits : visit'[v].rule \in 0 .. MaxRules
  <2>1. ASSUME NEW v \in Visits, VisitRules(v), NEW w \in Visits
        PROVE  visit'[w].rule \in 0 .. MaxRules
    <3>1. PICK rs \in {rules, <<>>} :
            visit' = [visit EXCEPT ![v].at = "routed", ![v].rule = FirstMatch(rs, visit[v].who)]
      BY <2>1 DEF VisitRules
    <3>2. rs \in RuleLists /\ Len(rs) \in Nat /\ Len(rs) <= MaxRules
      <4>1. <<>> \in Seq(SUBSET Audience) /\ Len(<<>>) = 0 /\ 0 <= MaxRules
        BY <1>0
      <4> QED BY <1>0, <3>1, <4>1 DEF RuleLists, ServingBounds
    <3>3. FirstMatch(rs, visit[v].who) \in 0 .. MaxRules
      BY <1>0, <3>2, FirstMatchFinds DEF RuleLists
    <3>4. visit'[w].rule \in {visit[w].rule, FirstMatch(rs, visit[v].who)}
      BY <1>0, <3>1 DEF VisitRow
    <3> QED BY <3>3, <3>4 DEF ServingBounds
  <2>2. ASSUME \A v \in Visits : ~VisitRules(v), NEW w \in Visits
        PROVE  visit'[w].rule \in {visit[w].rule, 0}
    <3>1. ASSUME NEW v \in Visits, NEW a \in Audience, VisitRead(v, a)
          PROVE  visit'[w].rule \in {visit[w].rule, 0}
      BY <1>0, <3>1 DEF VisitRead, NoVisit
    <3>2. ASSUME NEW v \in Visits, VisitCount(v)
          PROVE  visit'[w].rule \in {visit[w].rule, 0}
      BY <1>0, <3>2 DEF VisitCount, CountAndGoOn, VisitRow
    <3>3. ASSUME NEW v \in Visits, VisitClick(v)
          PROVE  visit'[w].rule \in {visit[w].rule, 0}
      BY <1>0, <3>3 DEF VisitClick, NoVisit
    <3>4. CASE Crash
      BY <3>4 DEF Crash, NoVisit
    <3>5. CASE UNCHANGED visit
      BY <3>5
    <3> QED BY <2>2, <3>1, <3>2, <3>3, <3>4, <3>5
            DEF ServingNext, CreateLink, InsertRule, InsertRuleFails, AddRule, UpdateRule,
                DeleteRule, RulesChange, LinkChange, SetSchedule, SetLinkStatus, ServingTick,
                servingVars, servingOwn
  <2> QED BY <1>0, <2>1, <2>2 DEF ServingBounds
<1> QED BY <1>1, <1>2, <1>3, <1>4 DEF ServingBounds

\* The rows of links, link_rules and clicks and the requests are well typed, and the
\* counters apart by no more than the visits (ResolveService.Resolve).
THEOREM ServingTypeCorrect == ServingSpec => []ServingTypeOK
<1>1. now = 0 /\ ServingInit => ServingBounds /\ DriftInv
  <2> SUFFICES ASSUME now = 0, ServingInit
               PROVE  ServingBounds
    BY DriftStart
  <2>1. Len(<<>>) = 0 /\ 0 \in Days /\ 0 <= MaxRules /\ 0 \in 0 .. MaxRules
        /\ 0 \in 0 .. MaxChanges
    BY ServingAssumption DEF Days
  <2>2. \A v \in Visits : visit[v].rule = 0
    BY DEF ServingInit, NoVisit
  <2> QED BY <2>1, <2>2 DEF ServingInit, ServingBounds
<1>2. ServingInv /\ ServingBounds /\ DriftInv /\ [ServingNext]_servingVars
        => ServingBounds' /\ DriftInv'
  <2> SUFFICES ASSUME ServingInv, ServingBounds, DriftInv, [ServingNext]_servingVars
               PROVE  DriftInv'
    BY BoundsKept
  <2>1. CASE UNCHANGED <<visit, drift, begun>>
    BY <2>1, DriftStays
  <2>2. \/ UNCHANGED <<visit, drift, begun>> \/ Crash
        \/ \E v \in Visits : \/ \E a \in Audience : VisitRead(v, a)
                             \/ VisitRules(v) \/ VisitCount(v) \/ VisitClick(v)
    BY DEF ServingNext, CreateLink, InsertRule, InsertRuleFails, AddRule, UpdateRule, DeleteRule,
           RulesChange, LinkChange, SetSchedule, SetLinkStatus, ServingTick, servingVars,
           servingOwn, countVars
  <2> QED BY <2>1, <2>2, VisitDrifts, CrashDrifts
<1>3. ServingInv /\ ServingBounds /\ DriftInv => ServingTypeOK
  <2> SUFFICES ASSUME ServingInv, ServingBounds, DriftInv
               PROVE  ServingTypeOK
    OBVIOUS
  <2>1. drift \in -MaxVisits .. MaxVisits
    <3>1. /\ drift \in Int /\ Cardinality(Early) \in Nat /\ Cardinality(Counted) \in Nat
          /\ MaxVisits \in Nat
      BY EarlyIsFinite, CountedIsFinite, ServingAssumption DEF ServingInv, ServingTypes
    <3> QED BY <3>1 DEF DriftInv
  <2>2. link \in [status : {"ABSENT", "ACTIVE", "DISABLED_ABUSE"},
                  schedule : [from : Days, until : 1 .. ServingHorizon + 1], visits : Nat]
    BY DEF ServingInv, ServingTypes, LinkRow, Schedules
  <2>3. visit \in [Visits -> [at : {"idle", "read", "routed", "counted"},
                              who : Audience \cup {"nobody"}, rule : 0 .. MaxRules]]
    <3>1. \A row \in VisitRow : row.rule \in 0 .. MaxRules =>
            row \in [at : {"idle", "read", "routed", "counted"},
                     who : Audience \cup {"nobody"}, rule : 0 .. MaxRules]
      BY DEF VisitRow
    <3> QED BY <3>1 DEF ServingInv, ServingTypes, ServingBounds
  <2> QED BY <2>1, <2>2, <2>3
          DEF ServingInv, ServingTypes, ServingBounds, ServingTypeOK, RuleLists, DriftInv
<1> QED BY <1>1, <1>2, <1>3, ServingInvariant, PTL DEF ServingSpec

-----------------------------------------------------------------------------
(***************************************************************************)
(* Directory.  A welcome and a touch are of an account that exists, and    *)
(* nothing is later than the clock.                                        *)
(***************************************************************************)
AccountRow == [email : Addresses, lastActive : Int]

SignInRow == [at : {"idle", "known", "absent", "found", "in"},
              email : Addresses \cup {"none"}, user : Nat]

DirectoryTypes ==
  /\ now \in Nat
  /\ accounts \in Seq(AccountRow)
  /\ signIn \in [SignIns -> SignInRow]
  /\ welcomed \in [Addresses -> Nat]
  /\ seen \in [Addresses -> Int]

HasAccount(a) == \E i \in 1 .. Len(accounts) : accounts[i].email = a

AccountsInv ==
  /\ \A i, j \in 1 .. Len(accounts) : accounts[i].email = accounts[j].email => i = j
  /\ \A a \in Addresses : welcomed[a] = 0 \/ (welcomed[a] = 1 /\ HasAccount(a))
  /\ \A a \in Addresses : seen[a] = Never \/ (HasAccount(a) /\ seen[a] <= now)

SignInsInv ==
  \A r \in SignIns :
    /\ signIn[r].at # "idle" => signIn[r].email \in Addresses
    /\ signIn[r].at \in {"found", "in"} =>
         signIn[r].user \in 1 .. Len(accounts) /\ accounts[signIn[r].user].email = signIn[r].email

TouchesInv ==
  \A i \in 1 .. Len(accounts) :
    /\ accounts[i].lastActive <= now
    /\ seen[accounts[i].email] # Never =>
         /\ accounts[i].lastActive # Never
         /\ seen[accounts[i].email] - accounts[i].lastActive \in 0 .. TouchEvery

DirectoryInv == DirectoryTypes /\ AccountsInv /\ SignInsInv /\ TouchesInv

\* The rows as records.
LEMMA AccountRows ==
  ASSUME NEW row \in AccountRow, NEW t \in Int
  PROVE  /\ row.email \in Addresses /\ row.lastActive \in Int
         /\ [row EXCEPT !.lastActive = t] \in AccountRow
         /\ [row EXCEPT !.lastActive = t].email = row.email
         /\ [row EXCEPT !.lastActive = t].lastActive = t
BY DEF AccountRow

\* Types of a row's fields.
LEMMA AccountFields ==
  ASSUME accounts \in Seq(AccountRow), NEW i \in 1 .. Len(accounts)
  PROVE  /\ accounts[i] \in AccountRow
         /\ accounts[i].email \in Addresses /\ accounts[i].lastActive \in Int
<1>1. accounts[i] \in AccountRow /\ 0 \in Int
  OBVIOUS
<1> QED BY <1>1, AccountRows

\* The request that has found its account.
LEMMA FoundRows ==
  ASSUME NEW row \in SignInRow, NEW i \in Nat
  PROVE  /\ [row EXCEPT !.at = "found", !.user = i] \in SignInRow
         /\ [row EXCEPT !.at = "found", !.user = i].at = "found"
         /\ [row EXCEPT !.at = "found", !.user = i].user = i
         /\ [row EXCEPT !.at = "found", !.user = i].email = row.email
BY DEF SignInRow

\* An identity that a provider vouches for has an address.
LEMMA IdentitiesAreAddresses ==
  ASSUME NEW p \in Providers, NEW c \in Credentials, IdentityOf(p, c) # NoText
  PROVE  IdentityOf(p, c).address \in Addresses
<1>1. c.email \in Texts \cup {NoText} /\ c.username \in Texts \cup {NoText}
  BY DEF Credentials
<1>2. GoogleEmail(c) \in Texts \cup {NoText}
  BY <1>1 DEF GoogleEmail
<1>3. MicrosoftEmail(c) \in Texts \cup {NoText} /\ DevEmail(c) \in Texts \cup {NoText}
  BY <1>1 DEF MicrosoftEmail, DevEmail
<1>4. p \in {"google", "microsoft", "dev"}
  BY DirectoryAssumption
<1>5. IdentityOf(p, c) \in {GoogleEmail(c), MicrosoftEmail(c), DevEmail(c)}
  BY <1>4 DEF IdentityOf
<1>6. IdentityOf(p, c) \in Texts
  BY <1>2, <1>3, <1>5
<1> QED BY <1>6 DEF Texts

\* At the start there is no account.
LEMMA DirectoryStart ==
  now = 0 /\ DirectoryInit => DirectoryInv
<1> SUFFICES ASSUME now = 0, DirectoryInit
             PROVE  DirectoryInv
  OBVIOUS
<1>1. <<>> \in Seq(AccountRow) /\ Len(<<>>) = 0
  OBVIOUS
<1>2. NoSignIn \in SignInRow /\ NoSignIn.at = "idle"
  BY DEF NoSignIn, SignInRow
<1> QED BY <1>1, <1>2 DEF DirectoryInit, DirectoryInv, DirectoryTypes, AccountsInv, SignInsInv,
                          TouchesInv, Never

\* A sign-in that moves on leaves the accounts alone.
LEMMA SignInStepKeeps ==
  ASSUME DirectoryInv, NEW r \in SignIns, NEW row \in SignInRow,
         signIn' = [signIn EXCEPT ![r] = row],
         UNCHANGED <<now, accounts, welcomed, seen>>,
         row.at # "idle" => row.email \in Addresses,
         row.at \in {"found", "in"} =>
           row.user \in 1 .. Len(accounts) /\ accounts[row.user].email = row.email
  PROVE  DirectoryInv'
<1>1. DirectoryTypes'
  BY DEF DirectoryInv, DirectoryTypes
<1>2. AccountsInv' /\ TouchesInv'
  BY DEF DirectoryInv, AccountsInv, TouchesInv, HasAccount
<1>3. SignInsInv'
  BY DEF DirectoryInv, DirectoryTypes, SignInsInv
<1> QED BY <1>1, <1>2, <1>3 DEF DirectoryInv

\* A sign-in's beginning, its lookup and its end.
LEMMA SignInMovesKeep ==
  ASSUME DirectoryInv, NEW r \in SignIns,
         (\E p \in Providers : BeginSignIn(r, p)) \/ GetByEmail(r) \/ EndSignIn(r)
  PROVE  DirectoryInv'
<1>0. signIn[r] \in SignInRow /\ DOMAIN accounts = 1 .. Len(accounts) /\ Len(accounts) \in Nat
  BY DEF DirectoryInv, DirectoryTypes
<1>1. ASSUME NEW p \in Providers, BeginSignIn(r, p)
      PROVE  DirectoryInv'
  <2>1. PICK c \in Credentials :
          /\ IdentityOf(p, c) # NoText
          /\ signIn' = [signIn EXCEPT ![r] = [NoSignIn EXCEPT !.at = "known",
                                                              !.email = IdentityOf(p, c).address]]
    BY <1>1 DEF BeginSignIn
  <2> DEFINE row == [NoSignIn EXCEPT !.at = "known", !.email = IdentityOf(p, c).address]
  <2>2. IdentityOf(p, c).address \in Addresses
    BY <2>1, IdentitiesAreAddresses
  <2>3. row \in SignInRow /\ row.at = "known" /\ row.email \in Addresses
    BY <2>2 DEF NoSignIn, SignInRow
  <2>4. signIn' = [signIn EXCEPT ![r] = row] /\ UNCHANGED <<now, accounts, welcomed, seen>>
    BY <1>1, <2>1 DEF BeginSignIn
  <2> HIDE DEF row
  <2> QED BY <2>3, <2>4, SignInStepKeeps
<1>2. CASE GetByEmail(r)
  <2>1. signIn[r].at = "known" /\ signIn[r].email \in Addresses
    BY <1>2 DEF GetByEmail, DirectoryInv, SignInsInv
  <2>2. CASE signIn' = [signIn EXCEPT ![r].at = "absent"]
    <3> DEFINE row == [signIn[r] EXCEPT !.at = "absent"]
    <3>1. row \in SignInRow /\ row.at = "absent" /\ row.email = signIn[r].email
      BY <1>0 DEF SignInRow
    <3>2. signIn' = [signIn EXCEPT ![r] = row] /\ UNCHANGED <<now, accounts, welcomed, seen>>
      BY <1>2, <2>2 DEF GetByEmail
    <3> HIDE DEF row
    <3> QED BY <2>1, <3>1, <3>2, SignInStepKeeps
  <2>3. ASSUME NEW i \in AtEmail(signIn[r].email),
               signIn' = [signIn EXCEPT ![r].at = "found", ![r].user = i]
        PROVE  DirectoryInv'
    <3> DEFINE row == [signIn[r] EXCEPT !.at = "found", !.user = i]
    <3>1. i \in 1 .. Len(accounts) /\ i \in Nat /\ accounts[i].email = signIn[r].email
      BY <1>0 DEF AtEmail
    <3>2. row \in SignInRow /\ row.at = "found" /\ row.email = signIn[r].email /\ row.user = i
      BY <1>0, <3>1, FoundRows
    <3>3. signIn' = [signIn EXCEPT ![r] = row] /\ UNCHANGED <<now, accounts, welcomed, seen>>
      BY <1>2, <2>3 DEF GetByEmail
    <3> HIDE DEF row
    <3> QED BY <2>1, <3>1, <3>2, <3>3, SignInStepKeeps
  <2> QED BY <1>2, <2>2, <2>3 DEF GetByEmail
<1>3. CASE EndSignIn(r)
  <2>1. NoSignIn \in SignInRow /\ NoSignIn.at = "idle"
    BY DEF NoSignIn, SignInRow
  <2> QED BY <1>3, <2>1, SignInStepKeeps DEF EndSignIn
<1> QED BY <1>1, <1>2, <1>3

\* A new account at an address that had none, welcomed or not.
LEMMA NewAccountKeeps ==
  ASSUME DirectoryInv, NEW r \in SignIns, NEW e \in Addresses, NEW row \in SignInRow,
         ~HasAccount(e), accounts' = NewAccount(e), signIn' = [signIn EXCEPT ![r] = row],
         welcomed' = welcomed \/ Welcome(e), UNCHANGED <<now, seen>>,
         \/ row.at = "idle"
         \/ (row.at = "found" /\ row.user = Len(accounts) + 1 /\ row.email = e)
  PROVE  DirectoryInv'
<1>0. /\ now \in Nat /\ accounts \in Seq(AccountRow) /\ Len(accounts) \in Nat
      /\ welcomed \in [Addresses -> Nat] /\ seen \in [Addresses -> Int]
      /\ signIn \in [SignIns -> SignInRow]
  BY DEF DirectoryInv, DirectoryTypes
<1>1. Never \in Int /\ Never <= now /\ [email |-> e, lastActive |-> Never] \in AccountRow
  BY <1>0 DEF Never, AccountRow
<1>2. /\ accounts' \in Seq(AccountRow) /\ Len(accounts') = Len(accounts) + 1
      /\ \A i \in 1 .. Len(accounts) : accounts'[i] = accounts[i]
      /\ accounts'[Len(accounts) + 1] = [email |-> e, lastActive |-> Never]
  BY <1>0, <1>1, AppendProperties DEF NewAccount
<1>3. HasAccount(e)' /\ \A a \in Addresses : HasAccount(a) => HasAccount(a)'
  <2>1. Len(accounts) + 1 \in 1 .. Len(accounts') /\ accounts'[Len(accounts) + 1].email = e
    BY <1>0, <1>2
  <2>2. \A i \in 1 .. Len(accounts) : i \in 1 .. Len(accounts') /\ accounts'[i] = accounts[i]
    BY <1>0, <1>2
  <2> QED BY <2>1, <2>2 DEF HasAccount
<1>4. welcomed[e] = 0 /\ seen[e] = Never
  BY DEF DirectoryInv, AccountsInv
<1>5. welcomed' \in [Addresses -> Nat] /\ \A a \in Addresses : welcomed'[a] =
        IF a = e /\ welcomed' # welcomed THEN 1 ELSE welcomed[a]
  BY <1>0, <1>4 DEF Welcome
<1>6. DirectoryTypes'
  BY <1>0, <1>2, <1>5 DEF DirectoryTypes
<1>7. AccountsInv'
  <2>1. ASSUME NEW i \in 1 .. Len(accounts'), NEW j \in 1 .. Len(accounts'),
               accounts'[i].email = accounts'[j].email
        PROVE  i = j
    <3>1. \A k \in 1 .. Len(accounts) : accounts'[k].email # e
      BY <1>2 DEF HasAccount
    <3>2. accounts'[Len(accounts) + 1].email = e
      BY <1>2
    <3>3. CASE i \in 1 .. Len(accounts) /\ j \in 1 .. Len(accounts)
      BY <1>2, <2>1, <3>3 DEF DirectoryInv, AccountsInv
    <3>4. CASE i = Len(accounts) + 1 \/ j = Len(accounts) + 1
      BY <1>0, <1>2, <2>1, <3>1, <3>2, <3>4
    <3> QED BY <1>0, <1>2, <3>3, <3>4
  <2>2. \A a \in Addresses : welcomed'[a] = 0 \/ (welcomed'[a] = 1 /\ HasAccount(a)')
    BY <1>3, <1>5 DEF DirectoryInv, AccountsInv
  <2>3. \A a \in Addresses : seen'[a] = Never \/ (HasAccount(a)' /\ seen'[a] <= now')
    BY <1>3 DEF DirectoryInv, AccountsInv
  <2> QED BY <2>1, <2>2, <2>3 DEF AccountsInv
<1>8. SignInsInv'
  <2> SUFFICES ASSUME NEW q \in SignIns
               PROVE  /\ signIn'[q].at # "idle" => signIn'[q].email \in Addresses
                      /\ signIn'[q].at \in {"found", "in"} =>
                           /\ signIn'[q].user \in 1 .. Len(accounts')
                           /\ accounts'[signIn'[q].user].email = signIn'[q].email
    BY DEF SignInsInv
  <2>1. CASE q = r
    <3>1. signIn'[q] = row
      BY <1>0, <2>1
    <3>2. row.at = "idle" \/ (row.user = Len(accounts) + 1 /\ row.email = e)
      OBVIOUS
    <3>3. CASE row.at = "idle"
      BY <3>1, <3>3
    <3>4. CASE row.user = Len(accounts) + 1 /\ row.email = e
      BY <1>0, <1>2, <3>1, <3>4
    <3> QED BY <3>2, <3>3, <3>4
  <2>2. CASE q # r
    <3>1. signIn'[q] = signIn[q]
      BY <1>0, <2>2
    <3>2. /\ signIn[q].at # "idle" => signIn[q].email \in Addresses
          /\ signIn[q].at \in {"found", "in"} =>
               signIn[q].user \in 1 .. Len(accounts) /\ accounts[signIn[q].user].email = signIn[q].email
      BY DEF DirectoryInv, SignInsInv
    <3>3. \A i \in 1 .. Len(accounts) : i \in 1 .. Len(accounts') /\ accounts'[i] = accounts[i]
      BY <1>0, <1>2
    <3> QED BY <3>1, <3>2, <3>3
  <2> QED BY <2>1, <2>2
<1>9. TouchesInv'
  <2>1. ASSUME NEW i \in 1 .. Len(accounts')
        PROVE  /\ accounts'[i].lastActive <= now
               /\ seen[accounts'[i].email] # Never =>
                    /\ accounts'[i].lastActive # Never
                    /\ seen[accounts'[i].email] - accounts'[i].lastActive \in 0 .. TouchEvery
    <3>1. CASE i \in 1 .. Len(accounts)
      BY <1>2, <3>1 DEF DirectoryInv, TouchesInv
    <3>2. CASE i = Len(accounts) + 1
      BY <1>1, <1>2, <1>4, <3>2
    <3> QED BY <1>0, <1>2, <3>1, <3>2
  <2> QED BY <2>1 DEF TouchesInv
<1> QED BY <1>6, <1>7, <1>8, <1>9 DEF DirectoryInv

\* The INSERT of the user, or the row that was there first.
LEMMA CreateUserKeeps ==
  ASSUME DirectoryInv, NEW r \in SignIns, CreateUser(r)
  PROVE  DirectoryInv'
<1> DEFINE e == signIn[r].email
<1>0. /\ signIn[r] \in SignInRow /\ e \in Addresses
      /\ DOMAIN accounts = 1 .. Len(accounts) /\ Len(accounts) \in Nat
  BY DEF CreateUser, DirectoryInv, DirectoryTypes, SignInsInv
<1>1. NoSignIn \in SignInRow /\ NoSignIn.at = "idle"
  BY DEF NoSignIn, SignInRow
<1>2. CASE AtEmail(e) = {}
  <2>1. ~HasAccount(e)
    BY <1>0, <1>2 DEF AtEmail, HasAccount
  <2>2. accounts' = NewAccount(e) /\ UNCHANGED <<now, seen>>
    BY <1>2 DEF CreateUser, CreateAccount
  <2>3. CASE signIn' = [signIn EXCEPT ![r].at = "found", ![r].user = Len(accounts) + 1] /\ Welcome(e)
    <3> DEFINE row == [signIn[r] EXCEPT !.at = "found", !.user = Len(accounts) + 1]
    <3>1. /\ row \in SignInRow /\ row.at = "found" /\ row.user = Len(accounts) + 1
          /\ row.email = e
      <4>1. Len(accounts) + 1 \in Nat /\ signIn[r] \in SignInRow
        BY <1>0
      <4> QED BY <4>1, FoundRows
    <3>2. signIn' = [signIn EXCEPT ![r] = row]
      BY <2>3
    <3> HIDE DEF row, e
    <3> QED BY <1>0, <2>1, <2>2, <2>3, <3>1, <3>2, NewAccountKeeps
  <2>4. CASE signIn' = [signIn EXCEPT ![r] = NoSignIn] /\ welcomed' = welcomed
    <3> HIDE DEF e
    <3> QED BY <1>0, <1>1, <2>1, <2>2, <2>4, NewAccountKeeps
  <2> QED BY <1>2, <2>3, <2>4 DEF CreateUser, CreateAccount
<1>3. CASE AtEmail(e) # {}
  <2>1. signIn' = [signIn EXCEPT ![r] = NoSignIn] /\ UNCHANGED <<now, accounts, welcomed, seen>>
    BY <1>3 DEF CreateUser, CreateAccount
  <2> QED BY <1>1, <2>1, SignInStepKeeps
<1> QED BY <1>2, <1>3

\* A touch of an account; a sign-in that goes on stays in the account it has.
LEMMA TouchKeeps ==
  ASSUME DirectoryInv, NEW i \in 1 .. Len(accounts), TouchLastActive(i),
         UNCHANGED <<now, welcomed>>, signIn' \in [SignIns -> SignInRow],
         \A r \in SignIns :
           /\ signIn'[r].email = signIn[r].email /\ signIn'[r].user = signIn[r].user
           /\ signIn'[r].at # "idle" => signIn[r].at # "idle"
           /\ signIn'[r].at \in {"found", "in"} => signIn[r].at \in {"found", "in"}
  PROVE  DirectoryInv'
<1>0. /\ now \in Nat /\ accounts \in Seq(AccountRow) /\ Len(accounts) \in Nat
      /\ seen \in [Addresses -> Int] /\ accounts[i] \in AccountRow
      /\ TouchEvery \in Nat
  BY DirectoryAssumption DEF DirectoryInv, DirectoryTypes
<1>1. CASE UNCHANGED <<accounts, seen>>
  BY <1>1 DEF DirectoryInv, DirectoryTypes, AccountsInv, SignInsInv, TouchesInv, HasAccount
<1>2. CASE /\ accounts' = IF TouchDue(i) THEN [accounts EXCEPT ![i].lastActive = now] ELSE accounts
           /\ seen' = [seen EXCEPT ![accounts[i].email] = now]
  <2>1. /\ accounts' \in Seq(AccountRow) /\ Len(accounts') = Len(accounts)
        /\ \A j \in 1 .. Len(accounts) : accounts'[j].email = accounts[j].email
        /\ \A j \in 1 .. Len(accounts) : j # i => accounts'[j] = accounts[j]
        /\ accounts'[i].lastActive = IF TouchDue(i) THEN now ELSE accounts[i].lastActive
    <3> DEFINE row == [accounts[i] EXCEPT !.lastActive = now]
    <3>1. row \in AccountRow /\ row.email = accounts[i].email /\ row.lastActive = now
      BY <1>0, AccountRows
    <3>2. CASE TouchDue(i)
      <4>1. accounts' = [accounts EXCEPT ![i] = row]
        BY <1>2, <3>2
      <4> HIDE DEF row
      <4> QED BY <1>0, <3>1, <3>2, <4>1, ExceptSeq
    <3> QED BY <1>0, <1>2, <3>2
  <2>2. accounts[i].email \in Addresses /\ accounts[i].lastActive \in Int
    BY <1>0, AccountFields
  <2>3. /\ seen' \in [Addresses -> Int] /\ seen'[accounts[i].email] = now
        /\ \A a \in Addresses : a # accounts[i].email => seen'[a] = seen[a]
    BY <1>0, <1>2, <2>2
  <2>4. \A a \in Addresses : HasAccount(a)' <=> HasAccount(a)
    BY <2>1 DEF HasAccount
  <2>5. HasAccount(accounts[i].email)
    BY DEF HasAccount
  <2>6. DirectoryTypes'
    BY <2>1, <2>3 DEF DirectoryInv, DirectoryTypes
  <2>7. AccountsInv'
    <3>1. \A a \in Addresses : seen'[a] = Never \/ (HasAccount(a)' /\ seen'[a] <= now')
      BY <1>0, <2>3, <2>4, <2>5 DEF DirectoryInv, AccountsInv
    <3> QED BY <2>1, <2>4, <3>1 DEF DirectoryInv, AccountsInv
  <2>8. SignInsInv'
    BY <2>1 DEF DirectoryInv, SignInsInv
  <2>9. TouchesInv'
    <3>1. ASSUME NEW j \in 1 .. Len(accounts), j # i
          PROVE  accounts[j].email \in Addresses /\ accounts[j].email # accounts[i].email
      BY <1>0, <3>1, AccountFields DEF DirectoryInv, AccountsInv
    <3>2. /\ accounts'[i].lastActive <= now /\ accounts'[i].lastActive # Never
          /\ now - accounts'[i].lastActive \in 0 .. TouchEvery
      BY <1>0, <2>1, <2>2 DEF TouchDue, Never, DirectoryInv, TouchesInv
    <3> QED BY <2>1, <2>3, <3>1, <3>2 DEF DirectoryInv, TouchesInv
  <2> QED BY <2>6, <2>7, <2>8, <2>9 DEF DirectoryInv
<1> QED BY <1>1, <1>2 DEF TouchLastActive

\* Accounts, welcomes and sign-ins agree (AuthService.Login, UserStore.Create).
THEOREM DirectoryInvariant == DirectorySpec => []DirectoryInv
<1>1. DirectoryInv /\ [DirectoryNext]_directoryVars => DirectoryInv'
  <2> SUFFICES ASSUME DirectoryInv, [DirectoryNext]_directoryVars
               PROVE  DirectoryInv'
    OBVIOUS
  <2>1. ASSUME NEW r \in SignIns, SignInTouch(r)
        PROVE  DirectoryInv'
    <3>1. signIn[r] \in SignInRow /\ signIn \in [SignIns -> SignInRow]
      BY DEF DirectoryInv, DirectoryTypes
    <3>2. /\ signIn[r].at = "found" /\ signIn' = [signIn EXCEPT ![r].at = "in"]
          /\ TouchLastActive(signIn[r].user) /\ UNCHANGED <<now, welcomed>>
      BY <2>1 DEF SignInTouch
    <3>3. signIn[r].user \in 1 .. Len(accounts)
      BY <3>2 DEF DirectoryInv, SignInsInv
    <3> DEFINE row == [signIn[r] EXCEPT !.at = "in"]
    <3>4. row \in SignInRow /\ row.at = "in" /\ row.email = signIn[r].email /\ row.user = signIn[r].user
      BY <3>1 DEF SignInRow
    <3>5. signIn' = [signIn EXCEPT ![r] = row]
      BY <3>2
    <3> HIDE DEF row
    <3>6. signIn' \in [SignIns -> SignInRow]
      BY <3>1, <3>4, <3>5
    <3>7. \A q \in SignIns : signIn'[q] = IF q = r THEN row ELSE signIn[q]
      BY <3>1, <3>5
    <3> QED BY <3>2, <3>3, <3>4, <3>6, <3>7, TouchKeeps
  <2>2. ASSUME NEW i \in DOMAIN accounts, RefreshTouch(i)
        PROVE  DirectoryInv'
    <3>1. i \in 1 .. Len(accounts) /\ signIn \in [SignIns -> SignInRow]
      BY DEF DirectoryInv, DirectoryTypes
    <3>2. TouchLastActive(i) /\ UNCHANGED <<now, signIn, welcomed>>
      BY <2>2 DEF RefreshTouch
    <3> QED BY <3>1, <3>2, TouchKeeps
  <2>3. CASE DirectoryTick
    <3>1. now \in Nat /\ now' = now + 1 /\ UNCHANGED <<accounts, signIn, welcomed, seen>>
      BY <2>3 DEF DirectoryTick, Advance, directoryOwn, DirectoryInv, DirectoryTypes
    <3>2. DirectoryTypes'
      BY <3>1 DEF DirectoryInv, DirectoryTypes
    <3>3. AccountsInv' /\ SignInsInv'
      BY <3>1 DEF DirectoryInv, DirectoryTypes, AccountsInv, SignInsInv, HasAccount
    <3>4. \A i \in 1 .. Len(accounts) : accounts[i].lastActive \in Int
      BY AccountFields DEF DirectoryInv, DirectoryTypes
    <3>5. TouchesInv'
      BY <3>1, <3>4 DEF DirectoryInv, TouchesInv
    <3> QED BY <3>2, <3>3, <3>5 DEF DirectoryInv
  <2>4. CASE UNCHANGED directoryVars
    BY <2>4 DEF directoryVars, directoryOwn, DirectoryInv, DirectoryTypes, AccountsInv, SignInsInv,
                TouchesInv, HasAccount
  <2> QED BY <2>1, <2>2, <2>3, <2>4, SignInMovesKeep, CreateUserKeeps DEF DirectoryNext
<1> QED BY <1>1, DirectoryStart, PTL DEF DirectorySpec

\* An address has one account however many first sign-ins meet (AuthService.Login,
\* UserStore.Create), welcomed at most once; and last_active_at is an hour behind at most
\* (UserStore.TouchLastActive).
THEOREM AccountsSound == DirectorySpec => []AccountsAreSound
<1>1. DirectoryInv => AccountsAreSound
  <2> SUFFICES ASSUME DirectoryInv
               PROVE  AccountsAreSound
    OBVIOUS
  <2>0. /\ DOMAIN accounts = 1 .. Len(accounts) /\ accounts \in Seq(AccountRow)
    BY DEF DirectoryInv, DirectoryTypes
  <2>1. ASSUME NEW a \in Addresses
        PROVE  welcomed[a] <= Cardinality(AtEmail(a))
    <3>1. CASE HasAccount(a)
      <4>1. PICK i \in 1 .. Len(accounts) : accounts[i].email = a
        BY <3>1 DEF HasAccount
      <4>2. AtEmail(a) = {i}
        BY <2>0, <4>1 DEF AtEmail, DirectoryInv, AccountsInv
      <4>3. Cardinality(AtEmail(a)) = 1
        BY <4>2, FS_Singleton
      <4> QED BY <4>3 DEF DirectoryInv, AccountsInv
    <3>2. CASE ~HasAccount(a)
      <4>1. AtEmail(a) = {}
        BY <2>0, <3>2 DEF AtEmail, HasAccount
      <4>2. Cardinality(AtEmail(a)) = 0
        BY <4>1, FS_EmptySet
      <4> QED BY <3>2, <4>2 DEF DirectoryInv, AccountsInv
    <3> QED BY <3>1, <3>2
  <2>2. OneAccountPerAddress
    BY <2>0, <2>1 DEF OneAccountPerAddress, DirectoryInv, AccountsInv, SignInsInv
  <2>3. LastActiveIsClose
    BY <2>0 DEF LastActiveIsClose, DirectoryInv, TouchesInv
  <2> QED BY <2>2, <2>3 DEF AccountsAreSound
<1> QED BY <1>1, DirectoryInvariant, PTL

\* The horizon bounds the stamps, and a sign-in names a row that is there.
DirectoryBounds ==
  /\ now <= DirectoryHorizon
  /\ \A i \in 1 .. Len(accounts) : accounts[i].lastActive >= Never
  /\ \A a \in Addresses : seen[a] >= Never
  /\ \A r \in SignIns : signIn[r].user <= Len(accounts)

\* The rows of users and the sign-ins are well typed.
THEOREM DirectoryTypeCorrect == DirectorySpec => []DirectoryTypeOK
<1>1. now = 0 /\ DirectoryInit => DirectoryBounds
  <2>1. Len(<<>>) = 0
    OBVIOUS
  <2> QED BY <2>1, DirectoryAssumption DEF DirectoryInit, DirectoryBounds, NoSignIn, Never
<1>2. DirectoryInv /\ DirectoryInv' /\ DirectoryBounds /\ [DirectoryNext]_directoryVars
        => DirectoryBounds'
  <2> SUFFICES ASSUME DirectoryInv, DirectoryInv', DirectoryBounds,
                      [DirectoryNext]_directoryVars
               PROVE  DirectoryBounds'
    OBVIOUS
  <2>0. /\ now \in Nat /\ DirectoryHorizon \in Nat /\ signIn \in [SignIns -> SignInRow]
        /\ accounts \in Seq(AccountRow) /\ Len(accounts) \in Nat
        /\ DOMAIN accounts = 1 .. Len(accounts) /\ seen \in [Addresses -> Int]
    BY DirectoryAssumption DEF DirectoryInv, DirectoryTypes
  <2>1. now' <= DirectoryHorizon
    <3>1. now' = now \/ (now' = now + 1 /\ now < DirectoryHorizon)
      BY DEF DirectoryNext, BeginSignIn, GetByEmail, CreateUser, SignInTouch, EndSignIn,
             RefreshTouch, DirectoryTick, Advance, directoryVars
    <3> QED BY <2>0, <3>1 DEF DirectoryBounds
  <2>2. ASSUME NEW e \in Addresses, accounts' = NewAccount(e), seen' = seen, NEW r \in SignIns,
               \/ signIn' = [signIn EXCEPT ![r].at = "found", ![r].user = Len(accounts) + 1]
               \/ signIn' = [signIn EXCEPT ![r] = NoSignIn]
        PROVE  DirectoryBounds'
    <3>1. PICK n \in Nat : n = Len(accounts)
      BY <2>0
    <3>2. PICK k : k = n + 1
      OBVIOUS
    <3>3. PICK R : R = AccountRow
      OBVIOUS
    <3>4. PICK row \in R : row = [email |-> e, lastActive |-> Never]
      <4>1. Never \in Int
        BY DEF Never
      <4> QED BY <3>3, <4>1 DEF AccountRow
    <3>5. accounts' = Append(accounts, row) /\ accounts \in Seq(R)
      BY <2>0, <2>2, <3>3, <3>4 DEF NewAccount
    <3>6. Len(accounts') = k /\ accounts'[k] = row /\ \A i \in 1 .. n : accounts'[i] = accounts[i]
      BY <3>1, <3>2, <3>5
    <3>7. \A i \in 1 .. k : i \in 1 .. n \/ i = k
      BY <3>1, <3>2
    <3>8. \A i \in 1 .. k : accounts'[i].lastActive >= Never
      <4>1. row.lastActive = Never /\ Never >= Never
        BY <3>4 DEF Never
      <4> QED BY <3>1, <3>6, <3>7, <4>1 DEF DirectoryBounds
    <3>9. \A q \in SignIns : signIn'[q].user \in {signIn[q].user, 0, k}
      <4>1. Len(accounts) + 1 = k
        BY <3>1, <3>2
      <4>2. CASE signIn' = [signIn EXCEPT ![r].at = "found", ![r].user = k]
        BY <2>0, <4>2 DEF SignInRow
      <4>3. CASE signIn' = [signIn EXCEPT ![r] = NoSignIn]
        BY <2>0, <4>3 DEF NoSignIn
      <4> QED BY <2>2, <4>1, <4>2, <4>3
    <3>10. \A q \in SignIns : signIn'[q].user <= k
      <4>1. \A q \in SignIns : signIn[q].user \in Nat /\ signIn[q].user <= n
        BY <2>0, <3>1 DEF SignInRow, DirectoryBounds
      <4> QED BY <3>1, <3>2, <3>9, <4>1
    <3> QED BY <2>1, <2>2, <3>6, <3>8, <3>10 DEF DirectoryBounds
  <2>3. ASSUME NEW i \in 1 .. Len(accounts), TouchLastActive(i),
               \A q \in SignIns : signIn'[q].user = signIn[q].user
        PROVE  DirectoryBounds'
    <3>1. now >= Never /\ Never \in Int
      BY <2>0 DEF Never
    <3>2. CASE UNCHANGED <<accounts, seen>>
      BY <2>1, <2>3, <3>2 DEF DirectoryBounds
    <3>3. CASE /\ accounts' = IF TouchDue(i) THEN [accounts EXCEPT ![i].lastActive = now]
                              ELSE accounts
               /\ seen' = [seen EXCEPT ![accounts[i].email] = now]
      <4>1. \A a \in Addresses : seen'[a] \in {seen[a], now}
        BY <2>0, <3>3
      <4>2. CASE accounts' = accounts
        BY <2>1, <2>3, <3>1, <4>1, <4>2 DEF DirectoryBounds
      <4>3. CASE accounts' = [accounts EXCEPT ![i].lastActive = now]
        <5>1. PICK row : row = [accounts[i] EXCEPT !.lastActive = now]
          OBVIOUS
        <5>2. row.lastActive = now
          BY <2>0, <5>1 DEF AccountRow
        <5>3. accounts' = [accounts EXCEPT ![i] = row]
          BY <4>3, <5>1
        <5>4. /\ Len(accounts') = Len(accounts)
              /\ \A j \in 1 .. Len(accounts) : accounts'[j] = IF j = i THEN row ELSE accounts[j]
          <6>1. PICK R : R = AccountRow /\ accounts \in Seq(R)
            BY <2>0
          <6> QED BY <5>3, <6>1
        <5> QED BY <2>1, <2>3, <3>1, <4>1, <5>2, <5>4 DEF DirectoryBounds
      <4> QED BY <3>3, <4>2, <4>3
    <3> QED BY <2>3, <3>2, <3>3 DEF TouchLastActive
  <2>4. ASSUME UNCHANGED <<accounts, seen>>,
               \A q \in SignIns : \/ signIn'[q].user \in {signIn[q].user, 0}
                                  \/ signIn'[q].user \in 1 .. Len(accounts)
        PROVE  DirectoryBounds'
    <3>1. \A q \in SignIns : signIn'[q].user <= Len(accounts)
      BY <2>0, <2>4 DEF DirectoryBounds
    <3> QED BY <2>1, <2>4, <3>1 DEF DirectoryBounds
  <2>5. ASSUME NEW r \in SignIns, NEW p \in Providers, BeginSignIn(r, p)
        PROVE  DirectoryBounds'
    BY <2>0, <2>4, <2>5 DEF BeginSignIn, NoSignIn
  <2>6. ASSUME NEW r \in SignIns, GetByEmail(r)
        PROVE  DirectoryBounds'
    <3>1. UNCHANGED <<accounts, seen>>
      BY <2>6 DEF GetByEmail
    <3>2. CASE signIn' = [signIn EXCEPT ![r].at = "absent"]
      <4>1. \A q \in SignIns : signIn'[q].user = signIn[q].user
        BY <2>0, <3>2 DEF SignInRow
      <4> QED BY <2>4, <3>1, <4>1
    <3>3. ASSUME NEW i \in AtEmail(signIn[r].email),
                 signIn' = [signIn EXCEPT ![r].at = "found", ![r].user = i]
          PROVE  DirectoryBounds'
      <4>1. \A q \in SignIns : signIn'[q].user \in {signIn[q].user, i}
        BY <2>0, <3>3 DEF SignInRow
      <4> QED BY <2>0, <2>4, <3>1, <4>1 DEF AtEmail
    <3> QED BY <2>6, <3>2, <3>3 DEF GetByEmail
  <2>7. ASSUME NEW r \in SignIns, CreateUser(r)
        PROVE  DirectoryBounds'
    <3>1. signIn[r].email \in Addresses /\ seen' = seen /\ CreateAccount(r, signIn[r].email)
      BY <2>7 DEF CreateUser, DirectoryInv, SignInsInv
    <3>2. CASE accounts' = NewAccount(signIn[r].email)
               /\ \/ signIn' = [signIn EXCEPT ![r].at = "found", ![r].user = Len(accounts) + 1]
                  \/ signIn' = [signIn EXCEPT ![r] = NoSignIn]
      BY <2>2, <3>1, <3>2
    <3>3. CASE accounts' = accounts /\ signIn' = [signIn EXCEPT ![r] = NoSignIn]
      BY <2>0, <2>4, <3>1, <3>3 DEF NoSignIn
    <3> QED BY <3>1, <3>2, <3>3 DEF CreateAccount
  <2>8. ASSUME NEW r \in SignIns, SignInTouch(r)
        PROVE  DirectoryBounds'
    <3>1. /\ signIn[r].user \in 1 .. Len(accounts) /\ TouchLastActive(signIn[r].user)
          /\ signIn' = [signIn EXCEPT ![r].at = "in"]
      BY <2>8 DEF SignInTouch, DirectoryInv, SignInsInv
    <3>2. \A q \in SignIns : signIn'[q].user = signIn[q].user
      BY <2>0, <3>1 DEF SignInRow
    <3> QED BY <2>3, <3>1, <3>2
  <2>9. ASSUME NEW r \in SignIns, EndSignIn(r)
        PROVE  DirectoryBounds'
    BY <2>0, <2>4, <2>9 DEF EndSignIn, NoSignIn
  <2>10. ASSUME NEW i \in DOMAIN accounts, RefreshTouch(i)
         PROVE  DirectoryBounds'
    BY <2>0, <2>3, <2>10 DEF RefreshTouch
  <2>11. CASE DirectoryTick \/ UNCHANGED directoryVars
    BY <2>4, <2>11 DEF DirectoryTick, directoryVars, directoryOwn
  <2> QED BY <2>5, <2>6, <2>7, <2>8, <2>9, <2>10, <2>11 DEF DirectoryNext
<1>3. DirectoryInv /\ DirectoryBounds => DirectoryTypeOK
  <2> SUFFICES ASSUME DirectoryInv, DirectoryBounds
               PROVE  DirectoryTypeOK
    OBVIOUS
  <2>0. /\ now \in Nat /\ DirectoryHorizon \in Nat /\ now <= DirectoryHorizon
        /\ accounts \in Seq(AccountRow) /\ Len(accounts) \in Nat
    BY DirectoryAssumption DEF DirectoryInv, DirectoryTypes, DirectoryBounds
  <2>1. PICK T : T = {Never} \cup 0 .. DirectoryHorizon
    OBVIOUS
  <2>2. \A t \in Int : t >= Never /\ t <= now => t \in T
    BY <2>0, <2>1 DEF Never
  <2>3. accounts \in Seq([email : Addresses, lastActive : T])
    <3>1. PICK R, Q : R = AccountRow /\ Q = [email : Addresses, lastActive : T]
      OBVIOUS
    <3>2. \A i \in 1 .. Len(accounts) : accounts[i] \in R
      BY <2>0, <3>1
    <3>3. \A row \in R : row.lastActive >= Never /\ row.lastActive <= now => row \in Q
      BY <2>2, <3>1 DEF AccountRow
    <3>4. \A i \in 1 .. Len(accounts) : accounts[i] \in Q
      BY <3>2, <3>3 DEF DirectoryInv, TouchesInv, DirectoryBounds
    <3>5. PICK n \in Nat : n = Len(accounts)
      BY <2>0
    <3>6. accounts \in [1 .. n -> R]
      BY <2>0, <3>1, <3>5
    <3>7. accounts \in [1 .. n -> Q]
      BY <3>4, <3>5, <3>6
    <3>8. \A s \in [1 .. n -> Q] : s \in Seq(Q)
      OBVIOUS
    <3>9. accounts \in Seq(Q)
      BY <3>7, <3>8
    <3> QED BY <3>1, <3>9
  <2>4. seen \in [Addresses -> T]
    <3>1. \A a \in Addresses : seen[a] \in Int /\ seen[a] >= Never /\ seen[a] <= now
      <4>1. Never <= now
        BY <2>0 DEF Never
      <4> QED BY <4>1 DEF DirectoryInv, DirectoryTypes, AccountsInv, DirectoryBounds
    <3> QED BY <2>2, <3>1 DEF DirectoryInv, DirectoryTypes
  <2>5. signIn \in [SignIns -> [at : {"idle", "known", "absent", "found", "in"},
                                email : Addresses \cup {"none"}, user : 0 .. Len(accounts)]]
    <3>1. PICK n \in Nat : n = Len(accounts)
      BY <2>0
    <3>2. \A row \in SignInRow : row.user <= n =>
            row \in [at : {"idle", "known", "absent", "found", "in"},
                     email : Addresses \cup {"none"}, user : 0 .. n]
      BY DEF SignInRow
    <3> QED BY <3>1, <3>2 DEF DirectoryInv, DirectoryTypes, DirectoryBounds
  <2> QED BY <2>0, <2>1, <2>3, <2>4, <2>5 DEF DirectoryTypeOK, DirectoryInv, DirectoryTypes
<1> QED BY <1>1, <1>2, <1>3, DirectoryInvariant, PTL DEF DirectorySpec

-----------------------------------------------------------------------------
(***************************************************************************)
(* Analytics.  Rows never change, so that what a query has counted and     *)
(* what the gate has let through can be told from the ids of the clicks.   *)
(***************************************************************************)
InquiryKinds == {"report", "unique", "tags", "utm", "daily"}

SectionNames ==
  {"none", "total", "days", "valuesPerDay", "osPerDay", "values", "oses", "flagged", "opens",
   "matched", "details", "tags", "source", "medium", "campaign", "daily"}

ClickRow == [link : Measured, at : Nat, of : Impressions]

InquiryRow ==
  [kind : InquiryKinds \cup {"none"}, next : Nat, links : SUBSET Measured, app : BOOLEAN,
   asked : Int, from : Int, to : Int, gatedAt : Nat, known : Nat, section : SectionNames,
   part : SUBSET SUBSET Nat, total : SUBSET Nat, counted : Nat]

AnalyticsTypes ==
  /\ now \in Nat
  /\ recorded \in Seq(ClickRow)
  /\ inquiry \in InquiryRow
  /\ inquiry.kind # "none" => inquiry.next \in Nat \ {0}
  /\ \A i \in 1 .. Len(recorded) : recorded[i].at <= now

\* The clicks of the gate's month that the gate has seen.
Gated == {i \in 1 .. inquiry.known :
            recorded[i].at \div MonthLength = inquiry.gatedAt \div MonthLength}

GateInv ==
  inquiry.kind \notin {"none", "daily"} =>
    /\ inquiry.known <= Len(recorded)
    /\ Viewable > 0 => Cardinality(Gated) <= Viewable
    /\ Retention > 0 => inquiry.from >= Day(inquiry.gatedAt - Retention)
    /\ \/ inquiry.from = inquiry.asked
       \/ (Retention > 0 /\ inquiry.from = Day(inquiry.gatedAt - Retention))

ShownInv ==
  /\ \A b \in inquiry.part : b \subseteq InRange
  /\ inquiry.kind # "report" => inquiry.section # "total"

Sections ==
  <<"total", "days", "valuesPerDay", "osPerDay", "values", "oses", "flagged", "opens",
    "matched", "details">>

CountedInRange == {i \in InRange : i <= inquiry.counted}

ReportInv ==
  inquiry.kind = "report" =>
    /\ inquiry.next \in 1 .. 11
    /\ inquiry.next = 1 => inquiry.section = "none"
    /\ inquiry.next # 1 =>
         /\ inquiry.section = Sections[inquiry.next - 1]
              \/ (inquiry.next = 10 /\ inquiry.section = "none")
         /\ inquiry.counted <= Len(recorded)
         /\ inquiry.total = CountedInRange
    /\ ReportsAddUp

AnalyticsInv == AnalyticsTypes /\ GateInv /\ ShownInv /\ ReportInv

\* Days and months: division rounds down.
LEMMA DivisionBounds ==
  ASSUME NEW d \in Nat \ {0}, NEW t \in Int
  PROVE  t \div d \in Int /\ (t \div d) * d <= t /\ t < (t \div d) * d + d
OBVIOUS

\* Multiplying by a positive number keeps the order.
LEMMA ProductsGrow ==
  ASSUME NEW d \in Nat \ {0}, NEW p \in Int, NEW q \in Int, p <= q
  PROVE  p * d \in Int /\ q * d \in Int /\ p * d <= q * d
OBVIOUS

\* So does dividing by one.
LEMMA DivisionGrows ==
  ASSUME NEW d \in Nat \ {0}, NEW t \in Int, NEW u \in Int, t <= u
  PROVE  t \div d <= u \div d
<1>1. /\ t \div d \in Int /\ (t \div d) * d <= t
      /\ u \div d \in Int /\ u < (u \div d) * d + d
  BY DivisionBounds
<1> DEFINE p == t \div d
           q == u \div d
<1> HIDE DEF p, q
<1>2. ASSUME p >= q + 1
      PROVE  FALSE
  <2>1. p \in Int /\ q + 1 \in Int /\ q + 1 <= p
    BY <1>1, <1>2 DEF p, q
  <2>2. (q + 1) * d <= p * d /\ (q + 1) * d = q * d + d
    BY <2>1, <1>1, ProductsGrow DEF q
  <2> QED BY <1>1, <2>2, ProductsGrow DEF p, q
<1> QED BY <1>1, <1>2 DEF p, q

\* A click of this month has come since the month's start, and no other one has.
LEMMA MonthStartSplits ==
  ASSUME now \in Nat, NEW t \in Nat, t <= now
  PROVE  t >= MonthStart <=> t \div MonthLength = now \div MonthLength
<1>0. MonthLength \in Nat \ {0}
  BY AnalyticsAssumption
<1>1. /\ t \div MonthLength \in Int /\ (t \div MonthLength) * MonthLength <= t
      /\ t < (t \div MonthLength) * MonthLength + MonthLength
      /\ now \div MonthLength \in Int /\ (now \div MonthLength) * MonthLength <= now
      /\ t \div MonthLength <= now \div MonthLength
  BY <1>0, DivisionBounds, DivisionGrows
<1> DEFINE p == t \div MonthLength
           q == now \div MonthLength
<1> HIDE DEF p, q
<1>2. CASE p = q
  BY <1>1, <1>2 DEF MonthStart, p, q
<1>3. CASE p + 1 <= q
  <2>1. (p + 1) * MonthLength <= q * MonthLength /\ (p + 1) * MonthLength = p * MonthLength + MonthLength
    BY <1>0, <1>1, <1>3, ProductsGrow DEF p, q
  <2>2. q * MonthLength \in Int /\ p * MonthLength \in Int
    BY <1>0, <1>1 DEF p, q
  <2>3. t < q * MonthLength
    BY <1>0, <1>1, <2>1, <2>2 DEF p
  <2> QED BY <1>1, <1>3, <2>2, <2>3 DEF MonthStart, p, q
<1> QED BY <1>1, <1>2, <1>3 DEF p, q

\* Grouping splits a set into disjoint groups that make it up.
LEMMA GroupsPartition ==
  ASSUME NEW S, NEW key
  PROVE  /\ UNION Groups(S, key) = S
         /\ \A b \in Groups(S, key) : b \subseteq S
         /\ \A b, c \in Groups(S, key) : b = c \/ b \cap c = {}
BY DEF Groups

\* A query's answer is about clicks in range.
LEMMA ResultsAreInRange ==
  ASSUME NEW q, \A b \in inquiry.part : b \subseteq InRange
  PROVE  \A b \in ResultOf(q) : b \subseteq InRange
<1>1. TotalClicks = {InRange}
  BY DEF TotalClicks
<1>2. /\ \A b \in ClicksPerDay \cup ValuesPerDay \cup ValueTotals : b \subseteq InRange
  BY GroupsPartition DEF ClicksPerDay, ValuesPerDay, ValueTotals
<1>3. \A b \in MobileOSPerDay \cup MobileOSTotals : b \subseteq InRange
  BY GroupsPartition DEF MobileOSPerDay, MobileOSTotals, Mobile
<1>4. \A b \in DeeplinkClicks(inquiry.app) \cup DeeplinkClicks(TRUE) \cup TargetMatched \cup ClickDetails :
        b \subseteq InRange
  BY DEF DeeplinkClicks, TargetMatched, ClickDetails
<1>5. \A b \in DistinctTags \cup UTMCounts \cup DailySeries : b \subseteq InRange
  BY GroupsPartition DEF DistinctTags, UTMCounts, Tagged, Seen, DailySeries, DayCount
<1>6. \/ ResultOf(q) \in {TotalClicks, ClicksPerDay, ValuesPerDay, MobileOSPerDay, ValueTotals,
                          MobileOSTotals, DeeplinkClicks(inquiry.app), DeeplinkClicks(TRUE),
                          TargetMatched, ClickDetails, DistinctTags, DailySeries, UTMCounts}
      \/ ResultOf(q) = inquiry.part
  BY DEF ResultOf
<1> QED BY <1>1, <1>2, <1>3, <1>4, <1>5, <1>6

\* Every section of a report counts each click that it is about once.
LEMMA SectionsAreComplete ==
  ASSUME AnalyticsTypes, NEW n \in 1 .. 10, Sections[n] = "opens" => ~inquiry.app
  PROVE  /\ UNION ResultOf(Sections[n]) = {i \in InRange : About(Sections[n], i)}
         /\ \A b, c \in ResultOf(Sections[n]) : b = c \/ b \cap c = {}
<1> DEFINE q == Sections[n]
<1>0. q \in {"total", "days", "valuesPerDay", "osPerDay", "values", "oses", "flagged", "opens",
             "matched", "details"}
  BY DEF Sections
<1> HIDE DEF q
<1>1. CASE q = "total"
  BY <1>1 DEF ResultOf, TotalClicks, About, q
<1>2. CASE q \in {"days", "valuesPerDay", "values", "details"}
  <2>1. ResultOf(q) = ClicksPerDay \/ ResultOf(q) = ValuesPerDay \/ ResultOf(q) = ValueTotals
          \/ ResultOf(q) = ClickDetails
    BY <1>2 DEF ResultOf
  <2>2. \A i : About(q, i)
    BY <1>2 DEF About
  <2>3. /\ UNION ClickDetails = InRange
        /\ \A b, c \in ClickDetails : b = c \/ b \cap c = {}
    BY DEF ClickDetails
  <2>4. /\ UNION ResultOf(q) = InRange
        /\ \A b, c \in ResultOf(q) : b = c \/ b \cap c = {}
    BY <2>1, <2>3, GroupsPartition DEF ClicksPerDay, ValuesPerDay, ValueTotals
  <2> QED BY <2>2, <2>4 DEF q
<1>3. CASE q \in {"osPerDay", "oses"}
  <2>1. ResultOf(q) = MobileOSPerDay \/ ResultOf(q) = MobileOSTotals
    BY <1>3 DEF ResultOf
  <2>2. /\ UNION ResultOf(q) = Mobile
        /\ \A b, c \in ResultOf(q) : b = c \/ b \cap c = {}
    BY <2>1, GroupsPartition DEF MobileOSPerDay, MobileOSTotals
  <2>3. \A i \in InRange : OSOf(i) \in {"NA", "Android"}
    <3>1. \A m \in Impressions : m.os \in {"NA", "Android"}
      BY DEF Impressions
    <3>2. \A i \in InRange : recorded[i] \in ClickRow
      BY DEF AnalyticsTypes, InRange, Clicks
    <3>3. \A i \in InRange : recorded[i].of \in Impressions
      BY <3>2 DEF ClickRow
    <3> QED BY <3>1, <3>3 DEF OSOf
  <2>4. \A i : About(q, i) <=> OSOf(i) = "Android"
    BY <1>3 DEF About
  <2>5. Mobile = {i \in InRange : OSOf(i) = "Android"}
    BY <2>3 DEF Mobile
  <2> QED BY <2>2, <2>4, <2>5 DEF q
<1>4. CASE q = "flagged"
  BY <1>4 DEF ResultOf, DeeplinkClicks, About, q
<1>5. CASE q = "opens"
  <2>1. ResultOf(q) = DeeplinkClicks(TRUE)
    BY <1>5 DEF ResultOf, q
  <2>2. \A i : About(q, i) <=> recorded[i].of.flagged
    BY <1>5 DEF About
  <2>3. \A i \in InRange : recorded[i].of.flagged \in BOOLEAN
    <3>1. ASSUME NEW m \in Impressions
          PROVE  m.flagged \in BOOLEAN
      <4>1. m.flagged = FALSE \/ m.flagged = TRUE
        BY DEF Impressions
      <4> QED BY <4>1
    <3>2. \A i \in InRange : recorded[i] \in ClickRow
      BY DEF AnalyticsTypes, InRange, Clicks
    <3>3. \A i \in InRange : recorded[i].of \in Impressions
      BY <3>2 DEF ClickRow
    <3> QED BY <3>1, <3>3
  <2>4. {i \in InRange : recorded[i].of.flagged = TRUE} = {i \in InRange : About(q, i)}
    BY <2>2, <2>3
  <2> QED BY <2>1, <2>4 DEF DeeplinkClicks, q
<1>6. CASE q = "matched"
  BY <1>6 DEF ResultOf, TargetMatched, About, q
<1> QED BY <1>0, <1>1, <1>2, <1>3, <1>4, <1>5, <1>6

\* Which query is next.
LEMMA PlannedQueries ==
  ASSUME inquiry.kind \in InquiryKinds, inquiry.next \in Nat \ {0}, Asking
  PROVE  /\ inquiry.kind = "report" => inquiry.next \in 1 .. 10 /\ Query = Sections[inquiry.next]
         /\ inquiry.kind # "report" => Query \in {"tags", "source", "medium", "campaign", "daily"}
<1>1. inquiry.next \in 1 .. Len(Plan[inquiry.kind])
  BY DEF Asking, Plan, InquiryKinds
<1>2. CASE inquiry.kind = "report"
  <2>1. Plan[inquiry.kind] = Sections /\ Len(Sections) = 10
    BY <1>2 DEF Plan, Sections
  <2> QED BY <1>1, <1>2, <2>1 DEF Query
<1>3. CASE inquiry.kind \in {"unique", "tags"}
  BY <1>1, <1>3 DEF Plan, Query
<1>4. CASE inquiry.kind = "utm"
  BY <1>1, <1>4 DEF Plan, Query
<1>5. CASE inquiry.kind = "daily"
  BY <1>1, <1>5 DEF Plan, Query
<1> QED BY <1>2, <1>3, <1>4, <1>5 DEF InquiryKinds

\* The absence of a request is a record of one.
LEMMA QuietIsARow ==
  Quiet \in InquiryRow /\ Quiet.kind = "none" /\ Quiet.part = {} /\ Quiet.section = "none"
<1>1. {} \in SUBSET SUBSET Nat /\ {} \in SUBSET Nat /\ {} \in SUBSET Measured
  OBVIOUS
<1>2. "none" \in SectionNames /\ FALSE \in BOOLEAN /\ 0 \in Nat /\ 0 \in Int
  BY DEF SectionNames
<1> QED BY <1>1, <1>2 DEF Quiet, InquiryRow

\* At the start there are no clicks and no request.
LEMMA AnalyticsStart ==
  now = 0 /\ AnalyticsInit => AnalyticsInv
<1> SUFFICES ASSUME now = 0, AnalyticsInit
             PROVE  AnalyticsInv
  OBVIOUS
<1>1. Quiet \in InquiryRow /\ Quiet.kind = "none" /\ Quiet.part = {} /\ Quiet.section = "none"
  BY QuietIsARow
<1>2. <<>> \in Seq(ClickRow) /\ Len(<<>>) = 0
  OBVIOUS
<1> QED BY <1>1, <1>2 DEF AnalyticsInit, AnalyticsInv, AnalyticsTypes, GateInv, ShownInv, ReportInv

\* A new click has the next id, and changes nothing about those before it.
LEMMA RecordClickKeeps ==
  ASSUME AnalyticsInv, NEW l \in Measured, NEW m \in Impressions, RecordClick(l, m)
  PROVE  AnalyticsInv'
<1> DEFINE row == [link |-> l, at |-> now, of |-> m]
<1>0. /\ now \in Nat /\ recorded \in Seq(ClickRow) /\ Len(recorded) \in Nat
      /\ inquiry \in InquiryRow
  BY DEF AnalyticsInv, AnalyticsTypes
<1>1. /\ recorded' = Append(recorded, row) /\ UNCHANGED <<now, inquiry>>
      /\ row \in ClickRow /\ row.at = now
  BY <1>0 DEF RecordClick, ClickRow
<1> HIDE DEF row
<1>2. /\ recorded' \in Seq(ClickRow) /\ Len(recorded') = Len(recorded) + 1
      /\ \A i \in 1 .. Len(recorded) : recorded'[i] = recorded[i]
      /\ recorded'[Len(recorded) + 1] = row
  BY <1>0, <1>1, AppendProperties
<1>3. AnalyticsTypes'
  <2>1. ASSUME NEW i \in 1 .. Len(recorded')
        PROVE  recorded'[i].at <= now
    <3>1. CASE i \in 1 .. Len(recorded)
      BY <1>2, <3>1 DEF AnalyticsInv, AnalyticsTypes
    <3>2. CASE i = Len(recorded) + 1
      BY <1>0, <1>1, <1>2, <3>2
    <3> QED BY <1>0, <1>2, <3>1, <3>2
  <2> QED BY <1>1, <1>2, <2>1 DEF AnalyticsInv, AnalyticsTypes
<1>4. /\ Clicks = 1 .. Len(recorded) /\ Clicks' = 1 .. Len(recorded')
      /\ Clicks \subseteq Clicks'
  BY <1>0, <1>2 DEF Clicks
<1>5. \A i \in Clicks : i \in InRange' <=> i \in InRange
  BY <1>1, <1>2, <1>4 DEF InRange, DayOf
<1>6. GateInv'
  <2>1. ASSUME inquiry.kind \notin {"none", "daily"}
        PROVE  Gated' = Gated /\ inquiry.known <= Len(recorded) /\ inquiry.known <= Len(recorded')
    <3>1. inquiry.known <= Len(recorded) /\ inquiry.known \in Nat
      BY <1>0, <2>1 DEF AnalyticsInv, GateInv, InquiryRow
    <3>2. \A i \in 1 .. inquiry.known : recorded'[i] = recorded[i]
      BY <1>0, <1>2, <3>1
    <3> QED BY <1>0, <1>1, <1>2, <3>1, <3>2 DEF Gated
  <2> QED BY <1>1, <2>1 DEF AnalyticsInv, GateInv
<1>7. ShownInv'
  BY <1>1, <1>4, <1>5 DEF AnalyticsInv, ShownInv, InRange
<1>8. ReportInv'
  <2>1. ASSUME inquiry.kind = "report", inquiry.next # 1
        PROVE  /\ inquiry.counted <= Len(recorded') /\ inquiry.total = CountedInRange'
               /\ \A i \in inquiry.total : recorded'[i] = recorded[i]
    <3>1. /\ inquiry.counted <= Len(recorded) /\ inquiry.counted \in Nat
          /\ inquiry.total = CountedInRange
      BY <1>0, <2>1 DEF AnalyticsInv, ReportInv, InquiryRow
    <3>2. \A i \in InRange' : i <= inquiry.counted => i \in Clicks
      BY <1>0, <1>2, <1>4, <3>1 DEF InRange
    <3>3. CountedInRange' = CountedInRange
      BY <1>1, <1>4, <1>5, <3>2 DEF CountedInRange, InRange
    <3>4. \A i \in inquiry.total : i \in 1 .. Len(recorded)
      BY <1>4, <3>1 DEF CountedInRange, InRange
    <3> QED BY <1>0, <1>2, <3>1, <3>3, <3>4
  <2>2. ASSUME inquiry.kind = "report", inquiry.section # "none"
        PROVE  ReportsAddUp'
    <3>1. inquiry.next # 1 /\ ReportsAddUp
      BY <2>2 DEF AnalyticsInv, ReportInv
    <3>2. \A i \in inquiry.total : About(inquiry.section, i)' <=> About(inquiry.section, i)
      BY <1>1, <2>1, <2>2, <3>1 DEF About, OSOf
    <3> QED BY <1>1, <2>2, <3>1, <3>2 DEF ReportsAddUp
  <2>3. ReportsAddUp'
    BY <1>1, <2>2 DEF ReportsAddUp
  <2> QED BY <1>1, <2>1, <2>3 DEF AnalyticsInv, ReportInv
<1> QED BY <1>3, <1>6, <1>7, <1>8 DEF AnalyticsInv

\* A request that begins has counted nothing; if the policy has a say in it, it was let
\* through for the clicks there are.
LEMMA AskKeeps ==
  ASSUME AnalyticsInv, NEW kind \in InquiryKinds, NEW links \in SUBSET Measured, NEW wanted \in Int,
         NEW from \in Int, NEW to \in Int, NEW app \in BOOLEAN,
         Ask(kind, links, wanted, from, to, app),
         kind # "daily" => Gate /\ from = ClampFrom(wanted)
  PROVE  AnalyticsInv'
<1>0. /\ now \in Nat /\ recorded \in Seq(ClickRow) /\ Len(recorded) \in Nat
      /\ \A i \in 1 .. Len(recorded) : recorded[i].at <= now /\ recorded[i] \in ClickRow
  BY DEF AnalyticsInv, AnalyticsTypes
<1>1. /\ inquiry' \in InquiryRow /\ inquiry'.kind = kind /\ inquiry'.next = 1
      /\ inquiry'.asked = wanted /\ inquiry'.from = from /\ inquiry'.gatedAt = now
      /\ inquiry'.known = Len(recorded) /\ inquiry'.section = "none" /\ inquiry'.part = {}
      /\ UNCHANGED <<now, recorded>>
  <2>1. /\ inquiry' = [Quiet EXCEPT !.kind = kind, !.next = 1, !.links = links, !.app = app,
                                   !.asked = wanted, !.from = from, !.to = to,
                                   !.gatedAt = now, !.known = Len(recorded)]
        /\ UNCHANGED <<now, recorded>>
    BY DEF Ask
  <2>2. Quiet \in InquiryRow /\ Quiet.part = {} /\ Quiet.section = "none"
    BY QuietIsARow
  <2> QED BY <1>0, <2>1, <2>2 DEF InquiryRow
<1>2. AnalyticsTypes'
  BY <1>0, <1>1 DEF AnalyticsTypes
<1>3. GateInv'
  <2> SUFFICES ASSUME kind # "daily"
               PROVE  /\ Viewable > 0 => Cardinality(Gated') <= Viewable
                      /\ Retention > 0 => from >= Day(now - Retention)
                      /\ from = wanted \/ (Retention > 0 /\ from = Day(now - Retention))
    BY <1>0, <1>1 DEF GateInv, Day
  <2>1. Gated' = {i \in Clicks : recorded[i].at >= MonthStart}
    <3>1. Clicks = 1 .. Len(recorded)
      BY <1>0 DEF Clicks
    <3>2. \A i \in 1 .. Len(recorded) : recorded[i].at \in Nat /\ recorded[i].at <= now
      BY <1>0 DEF ClickRow
    <3>3. \A i \in 1 .. Len(recorded) :
            recorded[i].at >= MonthStart <=> recorded[i].at \div MonthLength = now \div MonthLength
      BY <1>0, <3>2, MonthStartSplits
    <3> QED BY <1>1, <3>1, <3>3 DEF Gated
  <2>2. Viewable > 0 => Cardinality(Gated') <= Viewable
    BY <2>1 DEF Gate, EventsThisMonth
  <2>3. RetentionSince \in Int /\ Retention \in Nat
    BY <1>0, AnalyticsAssumption, DivisionBounds DEF RetentionSince, Day
  <2>4. /\ Retention > 0 => from >= RetentionSince
        /\ from = wanted \/ (Retention > 0 /\ from = RetentionSince)
    BY <2>3 DEF ClampFrom
  <2> QED BY <2>2, <2>4 DEF RetentionSince
<1>4. ShownInv' /\ ReportInv'
  BY <1>1 DEF ShownInv, ReportInv, ReportsAddUp
<1> QED BY <1>2, <1>3, <1>4 DEF AnalyticsInv

\* The beginning of each of the requests.
LEMMA AsksKeep ==
  ASSUME AnalyticsInv,
         \/ \E l \in Measured, from \in FromDates, to \in ToDates, app \in BOOLEAN :
              AskReport(l, from, to, app)
         \/ \E links \in SUBSET Measured : AskUnique(links)
         \/ AskTags \/ AskUTM
         \/ \E days \in 1 .. 2 : AskDaily(days)
  PROVE  AnalyticsInv'
<1>0. now \in Nat /\ \A t \in Int : Day(t) \in Int
  BY AnalyticsAssumption, DivisionBounds DEF AnalyticsInv, AnalyticsTypes, Day
<1>1. \A from \in Int : ClampFrom(from) \in Int
  BY <1>0, AnalyticsAssumption DEF ClampFrom, RetentionSince
<1>2. ASSUME NEW l \in Measured, NEW from \in FromDates, NEW to \in ToDates, NEW app \in BOOLEAN,
             AskReport(l, from, to, app)
      PROVE  AnalyticsInv'
  <2>1. from \in Int /\ to \in Int
    BY <1>0, AnalyticsAssumption DEF FromDates, ToDates
  <2>2. Gate /\ Ask("report", {l}, from, ClampFrom(from), to, app)
    BY <1>2 DEF AskReport
  <2>3. "report" \in InquiryKinds /\ {l} \in SUBSET Measured /\ ClampFrom(from) \in Int
    BY <1>1, <2>1 DEF InquiryKinds
  <2> QED BY <2>1, <2>2, <2>3, AskKeeps
<1>3. ASSUME NEW kind \in InquiryKinds, NEW links \in SUBSET Measured, AskAll(kind, links)
      PROVE  AnalyticsInv'
  <2>1. Day(AnalyticsHorizon) \in Int /\ ClampFrom(0) \in Int
    BY <1>0, <1>1, AnalyticsAssumption
  <2>2. Gate /\ Ask(kind, links, 0, ClampFrom(0), Day(AnalyticsHorizon), FALSE)
    BY <1>3 DEF AskAll
  <2>3. 0 \in Int /\ FALSE \in BOOLEAN
    OBVIOUS
  <2> DEFINE from == ClampFrom(0)
             to == Day(AnalyticsHorizon)
  <2>4. from \in Int /\ to \in Int /\ from = ClampFrom(0) /\ Ask(kind, links, 0, from, to, FALSE)
    BY <2>1, <2>2
  <2> HIDE DEF from, to
  <2> QED BY <2>2, <2>3, <2>4, AskKeeps
<1>4. ASSUME NEW days \in 1 .. 2, AskDaily(days)
      PROVE  AnalyticsInv'
  <2>1. Day(now) - (days - 1) \in Int /\ Day(now) \in Int /\ "daily" \in InquiryKinds
    BY <1>0 DEF InquiryKinds
  <2> DEFINE start == Day(now) - (days - 1)
  <2>2. Ask("daily", Measured, start, start, Day(now), FALSE)
    BY <1>4 DEF AskDaily
  <2>3. start \in Int /\ Measured \in SUBSET Measured /\ FALSE \in BOOLEAN
    BY <2>1
  <2> HIDE DEF start
  <2> QED BY <2>1, <2>2, <2>3, AskKeeps
<1>5. "unique" \in InquiryKinds /\ "tags" \in InquiryKinds /\ "utm" \in InquiryKinds
  BY DEF InquiryKinds
<1> QED BY <1>2, <1>3, <1>4, <1>5 DEF AskUnique, AskTags, AskUTM

\* The request after a query.
LEMMA InquiryRowsWithPart ==
  ASSUME NEW r \in InquiryRow, NEW n \in Nat, NEW q \in SectionNames, NEW P \in SUBSET SUBSET Nat
  PROVE  [r EXCEPT !.next = n, !.section = q, !.part = P] \in InquiryRow
BY DEF InquiryRow

\* The request that has run a query.
LEMMA InquiryRowsWithTotal ==
  ASSUME NEW r \in InquiryRow, NEW n \in Nat, NEW q \in SectionNames,
         NEW P \in SUBSET SUBSET Nat, NEW T \in SUBSET Nat, NEW c \in Nat
  PROVE  [r EXCEPT !.next = n, !.section = q, !.part = P, !.total = T, !.counted = c]
           \in InquiryRow
BY DEF InquiryRow

\* A query that answers about clicks in range, and completely if it is a section of a
\* report, or is left out.
LEMMA PartKeeps ==
  ASSUME AnalyticsInv, inquiry.kind # "none", NEW q \in SectionNames, NEW P \in SUBSET SUBSET Nat,
         inquiry' = [inquiry EXCEPT !.next = @ + 1, !.section = q, !.part = P],
         UNCHANGED <<now, recorded>>,
         \A b \in P : b \subseteq InRange,
         inquiry.kind # "report" => q # "total",
         inquiry.kind = "report" =>
           /\ inquiry.next \in 2 .. 10
           /\ q = Sections[inquiry.next] \/ (inquiry.next = 9 /\ q = "none")
           /\ q # "none" =>
                /\ {i \in UNION P : i <= inquiry.counted} = {i \in inquiry.total : About(q, i)}
                /\ \A b, c \in P : b = c \/ b \cap c = {}
  PROVE  AnalyticsInv'
<1>0. inquiry \in InquiryRow /\ inquiry.next \in Nat \ {0}
  BY DEF AnalyticsInv, AnalyticsTypes
<1>1. /\ inquiry' \in InquiryRow /\ inquiry'.next = inquiry.next + 1
      /\ inquiry'.section = q /\ inquiry'.part = P
      /\ inquiry'.kind = inquiry.kind /\ inquiry'.links = inquiry.links
      /\ inquiry'.app = inquiry.app /\ inquiry'.asked = inquiry.asked
      /\ inquiry'.from = inquiry.from /\ inquiry'.to = inquiry.to
      /\ inquiry'.gatedAt = inquiry.gatedAt /\ inquiry'.known = inquiry.known
      /\ inquiry'.total = inquiry.total /\ inquiry'.counted = inquiry.counted
  <2> DEFINE n == inquiry.next + 1
  <2>1. n \in Nat /\ inquiry' = [inquiry EXCEPT !.next = n, !.section = q, !.part = P]
    BY <1>0
  <2>2. inquiry' \in InquiryRow
    <3> HIDE DEF n
    <3>1. [inquiry EXCEPT !.next = n, !.section = q, !.part = P] \in InquiryRow
      BY <1>0, <2>1, InquiryRowsWithPart
    <3> QED BY <2>1, <3>1
  <2> QED BY <1>0, <2>2 DEF InquiryRow
<1>2. AnalyticsTypes'
  BY <1>0, <1>1 DEF AnalyticsInv, AnalyticsTypes
<1>3. GateInv'
  BY <1>1 DEF AnalyticsInv, GateInv, Gated
<1>4. InRange' = InRange
  BY <1>1 DEF InRange, Clicks, DayOf
<1>5. ShownInv'
  BY <1>1, <1>4 DEF ShownInv
<1>6. ASSUME inquiry.kind = "report", q # "none"
      PROVE  ReportsAddUp'
  <2>1. \A i : About(q, i)' <=> About(q, i)
    BY <1>1 DEF About, OSOf
  <2> QED BY <1>1, <1>6, <2>1 DEF ReportsAddUp
<1>7. ReportInv'
  <2> SUFFICES ASSUME inquiry.kind = "report"
               PROVE  ReportInv'
    BY <1>1 DEF ReportInv
  <2>1. ReportsAddUp'
    BY <1>1, <1>6 DEF ReportsAddUp
  <2>2. CountedInRange' = CountedInRange
    BY <1>1, <1>4 DEF CountedInRange
  <2>3. inquiry.counted <= Len(recorded) /\ inquiry.total = CountedInRange
    BY DEF AnalyticsInv, ReportInv
  <2>4. /\ inquiry'.next \in 3 .. 11 /\ inquiry'.next - 1 = inquiry.next
        /\ q = Sections[inquiry'.next - 1] \/ (inquiry'.next = 10 /\ q = "none")
    BY <1>1
  <2> QED BY <1>1, <2>1, <2>2, <2>3, <2>4 DEF ReportInv
<1> QED BY <1>2, <1>3, <1>5, <1>7 DEF AnalyticsInv

\* The query of the total.
LEMMA ReadTotalKeeps ==
  ASSUME AnalyticsInv, ReadTotal
  PROVE  AnalyticsInv'
<1>0. /\ inquiry \in InquiryRow /\ inquiry.kind \in InquiryKinds /\ inquiry.next \in Nat \ {0}
      /\ Len(recorded) \in Nat /\ DOMAIN recorded = 1 .. Len(recorded)
  BY DEF AnalyticsInv, AnalyticsTypes, InquiryRow, ReadTotal, Asking
<1>1. inquiry.kind = "report" /\ inquiry.next \in 1 .. 10 /\ Sections[inquiry.next] = "total"
  BY <1>0, PlannedQueries DEF ReadTotal
<1>2. inquiry.next = 1
  BY <1>1 DEF Sections
<1>3. InRange \in SUBSET Nat /\ TotalClicks \in SUBSET SUBSET Nat /\ "total" \in SectionNames
  BY <1>0 DEF InRange, Clicks, TotalClicks, SectionNames
<1>4. /\ inquiry' \in InquiryRow /\ inquiry'.next = 2
      /\ inquiry'.section = "total" /\ inquiry'.part = TotalClicks
      /\ inquiry'.total = InRange /\ inquiry'.counted = Len(recorded)
      /\ inquiry'.kind = "report" /\ inquiry'.links = inquiry.links
      /\ inquiry'.asked = inquiry.asked
      /\ inquiry'.from = inquiry.from /\ inquiry'.to = inquiry.to
      /\ inquiry'.gatedAt = inquiry.gatedAt /\ inquiry'.known = inquiry.known
      /\ UNCHANGED <<now, recorded>>
  <2>1. /\ inquiry' = [inquiry EXCEPT !.next = @ + 1, !.section = "total", !.part = TotalClicks,
                                      !.total = InRange, !.counted = Len(recorded)]
        /\ UNCHANGED <<now, recorded>>
    BY DEF ReadTotal
  <2>2. inquiry' = [inquiry EXCEPT !.next = 2, !.section = "total", !.part = TotalClicks,
                                   !.total = InRange, !.counted = Len(recorded)]
    BY <1>2, <2>1
  <2>3. inquiry' \in InquiryRow
    BY <1>0, <1>3, <2>2, InquiryRowsWithTotal
  <2> QED BY <1>0, <1>1, <2>1, <2>2, <2>3 DEF InquiryRow
<1>5. AnalyticsTypes'
  BY <1>4 DEF AnalyticsInv, AnalyticsTypes
<1>6. GateInv'
  BY <1>1, <1>4 DEF AnalyticsInv, GateInv, Gated
<1>7. InRange' = InRange
  BY <1>4 DEF InRange, Clicks, DayOf
<1>8. ShownInv'
  BY <1>4, <1>7 DEF ShownInv, TotalClicks
<1>9. CountedInRange' = InRange
  BY <1>0, <1>4, <1>7 DEF CountedInRange, InRange, Clicks
<1>10. ReportInv'
  <2>1. \A i \in InRange : i <= Len(recorded)
    BY <1>0 DEF InRange, Clicks
  <2>2. \A i : About("total", i)'
    BY DEF About
  <2>3. ReportsAddUp'
    BY <1>4, <2>1, <2>2 DEF ReportsAddUp, TotalClicks
  <2>4. Sections[1] = "total"
    BY DEF Sections
  <2> QED BY <1>0, <1>4, <1>9, <2>3, <2>4 DEF ReportInv
<1> QED BY <1>5, <1>6, <1>8, <1>10 DEF AnalyticsInv

\* The queries that split the total.
LEMMA ReadPartKeeps ==
  ASSUME AnalyticsInv, ReadPart
  PROVE  AnalyticsInv'
<1> DEFINE q == Query
<1>0. /\ inquiry \in InquiryRow /\ inquiry.kind \in InquiryKinds /\ inquiry.next \in Nat \ {0}
      /\ inquiry.kind # "none"
  BY DEF AnalyticsInv, AnalyticsTypes, InquiryRow, ReadPart, Asking
<1>1. /\ inquiry.kind = "report" => inquiry.next \in 1 .. 10 /\ q = Sections[inquiry.next]
      /\ inquiry.kind # "report" => q \in {"tags", "source", "medium", "campaign", "daily"}
      /\ q # "total"
      /\ inquiry' = [inquiry EXCEPT !.next = @ + 1, !.section = q, !.part = ResultOf(q)]
      /\ UNCHANGED <<now, recorded>>
  BY <1>0, PlannedQueries DEF ReadPart
<1> HIDE DEF q
<1>2. q \in SectionNames
  BY <1>1 DEF Sections, SectionNames
<1>3. \A b \in ResultOf(q) : b \subseteq InRange
  BY ResultsAreInRange DEF AnalyticsInv, ShownInv
<1>4. ResultOf(q) \in SUBSET SUBSET Nat
  <2>1. InRange \subseteq Nat
    BY DEF InRange, Clicks, AnalyticsInv, AnalyticsTypes
  <2> QED BY <1>3, <2>1
<1>5. ASSUME inquiry.kind = "report"
      PROVE  /\ inquiry.next \in 2 .. 10
             /\ {i \in UNION ResultOf(q) : i <= inquiry.counted} = {i \in inquiry.total : About(q, i)}
             /\ \A b, c \in ResultOf(q) : b = c \/ b \cap c = {}
  <2>1. inquiry.next \in 2 .. 10 /\ inquiry.next # 1
    BY <1>1, <1>5 DEF Sections
  <2>2. inquiry.total = CountedInRange
    BY <1>5, <2>1 DEF AnalyticsInv, ReportInv
  <2>3. CASE q = "opens" => ~inquiry.app
    <3>1. /\ UNION ResultOf(q) = {i \in InRange : About(q, i)}
          /\ \A b, c \in ResultOf(q) : b = c \/ b \cap c = {}
      <4>1. AnalyticsTypes /\ inquiry.next \in 1 .. 10 /\ q = Sections[inquiry.next]
        BY <1>1, <1>5 DEF AnalyticsInv
      <4> QED BY <2>3, <4>1, SectionsAreComplete
    <3> QED BY <2>1, <2>2, <3>1 DEF CountedInRange
  <2>4. CASE q = "opens" /\ inquiry.app
    <3>1. inquiry.next = 8 /\ Sections[7] = "flagged"
      BY <1>1, <1>5, <2>4 DEF Sections
    <3>2. inquiry.section = "flagged" /\ ReportsAddUp
      BY <1>5, <3>1 DEF AnalyticsInv, ReportInv
    <3>3. ResultOf(q) = inquiry.part
      BY <2>4 DEF ResultOf
    <3>4. \A i \in inquiry.total : recorded[i].of.flagged \in BOOLEAN
      <4>1. ASSUME NEW m \in Impressions
            PROVE  m.flagged \in BOOLEAN
        <5>1. m.flagged = FALSE \/ m.flagged = TRUE
          BY DEF Impressions
        <5> QED BY <5>1
      <4>2. \A i \in InRange : recorded[i] \in ClickRow
        BY DEF AnalyticsInv, AnalyticsTypes, InRange, Clicks
      <4>3. \A i \in InRange : recorded[i].of \in Impressions
        BY <4>2 DEF ClickRow
      <4> QED BY <2>2, <4>1, <4>3 DEF CountedInRange
    <3>5. inquiry.app = TRUE
      BY <1>0, <2>4 DEF InquiryRow
    <3>6. \A i \in inquiry.total : About("flagged", i) <=> About("opens", i)
      BY <3>4, <3>5 DEF About
    <3> QED BY <1>5, <2>1, <2>4, <3>2, <3>3, <3>6 DEF ReportsAddUp
  <2> QED BY <2>1, <2>3, <2>4
<1>6. inquiry.kind # "report" => q # "total"
  BY <1>1
<1> DEFINE P == ResultOf(q)
<1>7. /\ P \in SUBSET SUBSET Nat /\ \A b \in P : b \subseteq InRange
      /\ inquiry' = [inquiry EXCEPT !.next = @ + 1, !.section = q, !.part = P]
      /\ UNCHANGED <<now, recorded>>
      /\ inquiry.kind = "report" =>
           /\ inquiry.next \in 2 .. 10 /\ q = Sections[inquiry.next]
           /\ {i \in UNION P : i <= inquiry.counted} = {i \in inquiry.total : About(q, i)}
           /\ \A b, c \in P : b = c \/ b \cap c = {}
  BY <1>1, <1>3, <1>4, <1>5
<1> HIDE DEF P
<1> QED BY <1>0, <1>2, <1>6, <1>7, PartKeeps

\* The query that a report without rules leaves out.
LEMMA SkipMatchedKeeps ==
  ASSUME AnalyticsInv, SkipMatched
  PROVE  AnalyticsInv'
<1>0. inquiry.kind \in InquiryKinds /\ inquiry.next \in Nat \ {0} /\ inquiry.kind # "none"
  BY DEF AnalyticsInv, AnalyticsTypes, InquiryRow, SkipMatched, Asking
<1>1. inquiry.kind = "report" /\ inquiry.next \in 1 .. 10 /\ Sections[inquiry.next] = "matched"
  BY <1>0, PlannedQueries DEF SkipMatched
<1>2. inquiry.next = 9
  BY <1>1 DEF Sections
<1>3. "none" \in SectionNames /\ {} \in SUBSET SUBSET Nat
  BY DEF SectionNames
<1>4. inquiry' = [inquiry EXCEPT !.next = @ + 1, !.section = "none", !.part = {}]
  BY DEF SkipMatched
<1>5. UNCHANGED <<now, recorded>> /\ \A b \in {} : b \subseteq InRange
  BY DEF SkipMatched
<1>6. 9 \in 2 .. 10
  OBVIOUS
<1> QED BY <1>0, <1>1, <1>2, <1>3, <1>4, <1>5, <1>6, PartKeeps

\* What a request has counted stays counted as it was (StatsService).
THEOREM AnalyticsInvariant == AnalyticsSpec => []AnalyticsInv
<1>1. AnalyticsInv /\ [AnalyticsNext]_analyticsVars => AnalyticsInv'
  <2> SUFFICES ASSUME AnalyticsInv, [AnalyticsNext]_analyticsVars
               PROVE  AnalyticsInv'
    OBVIOUS
  <2>1. CASE Respond
    <3>1. inquiry' = Quiet /\ UNCHANGED <<now, recorded>>
      BY <2>1 DEF Respond
    <3>2. Quiet \in InquiryRow /\ Quiet.kind = "none" /\ Quiet.part = {} /\ Quiet.section = "none"
      BY QuietIsARow
    <3> QED BY <3>1, <3>2 DEF AnalyticsInv, AnalyticsTypes, GateInv, ShownInv, ReportInv
  <2>2. CASE AnalyticsTick \/ UNCHANGED analyticsVars
    <3>1. now' \in Nat /\ now <= now' /\ UNCHANGED <<recorded, inquiry>>
      BY <2>2 DEF AnalyticsTick, Advance, analyticsOwn, analyticsVars, AnalyticsInv, AnalyticsTypes
    <3>2. \A i \in 1 .. Len(recorded) : recorded[i].at \in Nat
      <4>1. \A i \in 1 .. Len(recorded) : recorded[i] \in ClickRow
        BY DEF AnalyticsInv, AnalyticsTypes
      <4> QED BY <4>1 DEF ClickRow
    <3>3. AnalyticsTypes'
      BY <3>1, <3>2 DEF AnalyticsInv, AnalyticsTypes
    <3>4. GateInv' /\ ShownInv'
      BY <3>1 DEF AnalyticsInv, GateInv, Gated, ShownInv, InRange, Clicks, DayOf
    <3>5. ReportInv'
      BY <3>1 DEF AnalyticsInv, ReportInv, ReportsAddUp, About, OSOf, CountedInRange, InRange,
                  Clicks, DayOf
    <3> QED BY <3>3, <3>4, <3>5 DEF AnalyticsInv
  <2> QED BY <2>1, <2>2, RecordClickKeeps, AsksKeep, ReadTotalKeeps, ReadPartKeeps,
             SkipMatchedKeeps DEF AnalyticsNext
<1> QED BY <1>1, AnalyticsStart, PTL DEF AnalyticsSpec

\* The sections of a link report agree with its total but for clicks recorded meanwhile
\* (StatsService.LinkReport and its fill functions).
THEOREM ReportsDoAddUp == AnalyticsSpec => []ReportsAddUp
<1>1. AnalyticsInv => ReportsAddUp
  BY DEF AnalyticsInv, ReportInv, ReportsAddUp
<1> QED BY <1>1, AnalyticsInvariant, PTL

\* What is shown lies within the policy's window, the cutoff to the day
\* (StatsService.analyticsWindow, clampFrom).
THEOREM ViewingBounded == AnalyticsSpec => []ViewingIsBounded
<1>1. AnalyticsInv => ViewingIsBounded
  <2> SUFFICES ASSUME AnalyticsInv, inquiry.kind \notin {"none", "daily"}
               PROVE  ViewingIsBounded
    BY DEF ViewingIsBounded
  <2> DEFINE shown == UNION inquiry.part
             month == {i \in shown :
                         /\ i <= inquiry.known
                         /\ recorded[i].at \div MonthLength = inquiry.gatedAt \div MonthLength}
  <2>0. /\ inquiry.known \in Nat /\ inquiry.gatedAt \in Nat /\ inquiry.counted \in Nat
        /\ inquiry.from \in Int /\ inquiry.asked \in Int /\ inquiry.to \in Int
        /\ Len(recorded) \in Nat /\ Clicks = 1 .. Len(recorded)
        /\ Viewable \in Nat /\ Retention \in Nat /\ DayLength \in Nat \ {0}
    BY AnalyticsAssumption DEF AnalyticsInv, AnalyticsTypes, InquiryRow, Clicks
  <2>1. \A i \in Clicks : recorded[i] \in ClickRow /\ recorded[i].at \in Int
    <3>1. \A i \in Clicks : recorded[i] \in ClickRow
      BY DEF AnalyticsInv, AnalyticsTypes, Clicks
    <3> QED BY <3>1 DEF ClickRow
  <2>2. shown \subseteq InRange /\ InRange \subseteq Clicks
    BY DEF AnalyticsInv, ShownInv, InRange
  <2> HIDE DEF shown
  <2>3. Viewable > 0 => Cardinality(month) <= Viewable
    <3>1. month \subseteq Gated
      <4>1. \A i \in shown : i <= inquiry.known => i \in 1 .. inquiry.known
        BY <2>0, <2>2
      <4> QED BY <4>1 DEF Gated
    <3>2. IsFiniteSet(Gated)
      <4>0. inquiry.known \in Int /\ 1 \in Int
        BY <2>0
      <4>1. IsFiniteSet(1 .. inquiry.known)
        BY <4>0, FS_Interval
      <4>2. Gated \subseteq 1 .. inquiry.known
        BY DEF Gated
      <4> QED BY <4>1, <4>2, FS_Subset
    <3> HIDE DEF month
    <3>3. Cardinality(month) \in Nat /\ Cardinality(Gated) \in Nat
          /\ Cardinality(month) <= Cardinality(Gated)
      BY <3>1, <3>2, FS_Subset, FS_CardinalityType
    <3>4. Viewable > 0 => Cardinality(Gated) <= Viewable
      BY DEF AnalyticsInv, GateInv
    <3> QED BY <2>0, <3>3, <3>4
  <2>4. ASSUME Retention > 0, NEW i \in shown
        PROVE  recorded[i].at + Retention + DayLength > inquiry.gatedAt
    <3> DEFINE t == recorded[i].at
               c == inquiry.gatedAt - Retention
               p == t \div DayLength
               q == c \div DayLength
    <3>1. t \in Int /\ c \in Int
      BY <2>0, <2>1, <2>2, <2>4
    <3>2. p \in Int /\ p * DayLength <= t /\ q \in Int /\ c < q * DayLength + DayLength
      BY <2>0, <3>1, DivisionBounds
    <3>3. p >= inquiry.from /\ inquiry.from >= q
      BY <2>0, <2>2, <2>4, <3>2 DEF InRange, DayOf, Day, AnalyticsInv, GateInv
    <3> HIDE DEF p, q, t, c
    <3>4. q * DayLength \in Int /\ p * DayLength \in Int /\ q * DayLength <= p * DayLength
      BY <2>0, <3>2, <3>3, ProductsGrow
    <3>5. t + DayLength > c
      BY <2>0, <3>1, <3>2, <3>4
    <3> QED BY <2>0, <3>1, <3>5 DEF t, c
  <2>5. ASSUME inquiry.section = "total", NEW i \in 1 .. inquiry.counted,
               recorded[i].link \in inquiry.links, DayOf(i) \in inquiry.asked .. inquiry.to,
               Retention = 0 \/ recorded[i].at + Retention >= inquiry.gatedAt
        PROVE  i \in inquiry.total
    <3>1. inquiry.kind = "report" /\ inquiry.next # 1
      BY <2>5 DEF AnalyticsInv, ShownInv, ReportInv
    <3>2. inquiry.counted <= Len(recorded) /\ inquiry.total = CountedInRange
      BY <3>1 DEF AnalyticsInv, ReportInv
    <3>3. i \in Clicks /\ i <= inquiry.counted /\ recorded[i].at \in Int
      BY <2>0, <2>1, <3>2
    <3>4. CASE inquiry.from = inquiry.asked
      BY <2>5, <3>2, <3>3, <3>4 DEF CountedInRange, InRange
    <3>5. CASE Retention > 0 /\ inquiry.from = Day(inquiry.gatedAt - Retention)
      <4>1. inquiry.gatedAt - Retention \in Int /\ inquiry.gatedAt - Retention <= recorded[i].at
        BY <2>0, <2>5, <3>3, <3>5
      <4>2. inquiry.from <= DayOf(i) /\ DayOf(i) \in Int
        BY <2>0, <3>3, <3>5, <4>1, DivisionGrows, DivisionBounds DEF Day, DayOf
      <4>3. DayOf(i) \in inquiry.from .. inquiry.to
        BY <2>0, <2>5, <4>2
      <4> QED BY <2>5, <3>2, <3>3, <4>3 DEF CountedInRange, InRange
    <3> QED BY <3>4, <3>5 DEF AnalyticsInv, GateInv
  <2> QED BY <2>3, <2>4, <2>5 DEF ViewingIsBounded, shown
<1> QED BY <1>1, AnalyticsInvariant, PTL

\* A report adds up and shows what the policy lets the viewer see.
THEOREM ReportsSound == AnalyticsSpec => []ReportsAreSound
<1>1. ReportsAddUp /\ ViewingIsBounded => ReportsAreSound
  BY DEF ReportsAreSound
<1> QED BY <1>1, ReportsDoAddUp, ViewingBounded, PTL

\* The sections of the requests.
LEMMA SectionsAreQueries ==
  SectionNames \subseteq {"none"} \cup UNION Queries
<1>1. "report" \in DOMAIN Plan /\ "tags" \in DOMAIN Plan /\ "utm" \in DOMAIN Plan
      /\ "daily" \in DOMAIN Plan
  BY DEF Plan
<1>2. \A k \in DOMAIN Plan : \A n \in DOMAIN Plan[k] : Plan[k][n] \in UNION Queries
  BY DEF Queries
<1>3. /\ Plan["report"] = <<"total", "days", "valuesPerDay", "osPerDay", "values", "oses",
                            "flagged", "opens", "matched", "details">>
      /\ Plan["tags"] = <<"tags">> /\ Plan["utm"] = <<"source", "medium", "campaign">>
      /\ Plan["daily"] = <<"daily">>
  BY DEF Plan
<1>4. {"total", "days", "valuesPerDay", "osPerDay", "values"} \subseteq UNION Queries
  <2>1. \A n \in 1 .. 5 : Plan["report"][n] \in UNION Queries
    BY <1>1, <1>2, <1>3
  <2> QED BY <1>3, <2>1
<1>5. {"oses", "flagged", "opens", "matched", "details"} \subseteq UNION Queries
  <2>1. \A n \in 6 .. 10 : Plan["report"][n] \in UNION Queries
    BY <1>1, <1>2, <1>3
  <2> QED BY <1>3, <2>1
<1>6. {"tags", "source", "medium", "campaign", "daily"} \subseteq UNION Queries
  BY <1>1, <1>2, <1>3
<1> QED BY <1>4, <1>5, <1>6 DEF SectionNames

\* What the request holds stays within the clicks that are there, and its stamps within
\* the horizon.
AnalyticsBounds ==
  /\ now <= AnalyticsHorizon
  /\ Len(recorded) <= MaxClicks
  /\ inquiry.gatedAt <= AnalyticsHorizon
  /\ inquiry.known <= Len(recorded) /\ inquiry.counted <= Len(recorded)
  /\ inquiry.total \subseteq 1 .. Len(recorded)

\* The rows of clicks and the request are well typed.
THEOREM AnalyticsTypeCorrect == AnalyticsSpec => []AnalyticsTypeOK
<1>1. now = 0 /\ AnalyticsInit => AnalyticsBounds
  <2>1. Len(<<>>) = 0
    OBVIOUS
  <2> QED BY <2>1, AnalyticsAssumption DEF AnalyticsInit, AnalyticsBounds, Quiet
<1>2. AnalyticsInv /\ AnalyticsBounds /\ [AnalyticsNext]_analyticsVars => AnalyticsBounds'
  <2> SUFFICES ASSUME AnalyticsInv, AnalyticsBounds, [AnalyticsNext]_analyticsVars
               PROVE  AnalyticsBounds'
    OBVIOUS
  <2>0. /\ now \in Nat /\ AnalyticsHorizon \in Nat /\ MaxClicks \in Nat /\ inquiry \in InquiryRow
        /\ recorded \in Seq(ClickRow) /\ Len(recorded) \in Nat
        /\ Clicks = 1 .. Len(recorded)
    BY AnalyticsAssumption DEF AnalyticsInv, AnalyticsTypes, Clicks
  <2>1. ASSUME now' = now \/ (now' = now + 1 /\ now < AnalyticsHorizon),
               UNCHANGED <<recorded, inquiry>>
        PROVE  AnalyticsBounds'
    BY <2>0, <2>1 DEF AnalyticsBounds
  <2>2. ASSUME NEW l \in Measured, NEW m \in Impressions, RecordClick(l, m)
        PROVE  AnalyticsBounds'
    <3>1. PICK n \in Nat : n = Len(recorded)
      BY <2>0
    <3>2. PICK k : k = n + 1
      OBVIOUS
    <3>3. PICK R : R = ClickRow /\ recorded \in Seq(R)
      BY <2>0
    <3>4. PICK row \in R : row = [link |-> l, at |-> now, of |-> m]
      BY <2>0, <3>3 DEF ClickRow
    <3>5. recorded' = Append(recorded, row) /\ n < MaxClicks /\ UNCHANGED <<now, inquiry>>
      BY <2>2, <3>1, <3>4 DEF RecordClick
    <3>6. Len(recorded') = k
      BY <3>1, <3>2, <3>3, <3>5
    <3>7. k <= MaxClicks /\ n <= k /\ 1 .. n \subseteq 1 .. k
      BY <2>0, <3>1, <3>2, <3>5
    <3>8. inquiry.known <= k /\ inquiry.counted <= k
      <4>1. inquiry.known \in Nat /\ inquiry.counted \in Nat
        BY <2>0 DEF InquiryRow
      <4> QED BY <3>1, <3>2, <4>1 DEF AnalyticsBounds
    <3> QED BY <3>1, <3>5, <3>6, <3>7, <3>8 DEF AnalyticsBounds
  <2>3. ASSUME UNCHANGED <<now, recorded>>,
               inquiry'.gatedAt = now \/ inquiry'.gatedAt \in {inquiry.gatedAt, 0},
               inquiry'.known \in {inquiry.known, 0, Len(recorded)},
               inquiry'.counted \in {inquiry.counted, 0, Len(recorded)},
               inquiry'.total \in {inquiry.total, {}, InRange}
        PROVE  AnalyticsBounds'
    <3>1. InRange \subseteq 1 .. Len(recorded)
      BY <2>0 DEF InRange
    <3> QED BY <2>0, <2>3, <3>1 DEF AnalyticsBounds
  <2>4. ASSUME NEW kind, NEW links, NEW asks, NEW from, NEW to, NEW app,
               Ask(kind, links, asks, from, to, app)
        PROVE  AnalyticsBounds'
    BY <2>3, <2>4 DEF Ask, Quiet
  <2>5. CASE ReadTotal
    BY <2>0, <2>3, <2>5 DEF ReadTotal, InquiryRow
  <2>6. CASE ReadPart \/ SkipMatched
    BY <2>0, <2>3, <2>6 DEF ReadPart, SkipMatched, InquiryRow
  <2>7. CASE Respond
    BY <2>3, <2>7 DEF Respond, Quiet
  <2>8. CASE AnalyticsTick \/ UNCHANGED analyticsVars
    BY <2>1, <2>8 DEF AnalyticsTick, Advance, analyticsOwn, analyticsVars
  <2> QED BY <2>2, <2>4, <2>5, <2>6, <2>7, <2>8
          DEF AnalyticsNext, AskReport, AskUnique, AskTags, AskUTM, AskAll, AskDaily
<1>3. AnalyticsInv /\ AnalyticsBounds => AnalyticsTypeOK
  <2> SUFFICES ASSUME AnalyticsInv, AnalyticsBounds
               PROVE  AnalyticsTypeOK
    OBVIOUS
  <2>0. /\ now \in Nat /\ AnalyticsHorizon \in Nat /\ MaxClicks \in Nat /\ inquiry \in InquiryRow
        /\ recorded \in Seq(ClickRow) /\ Len(recorded) \in Nat /\ Len(recorded) <= MaxClicks
        /\ now <= AnalyticsHorizon /\ Clicks = 1 .. Len(recorded)
    BY AnalyticsAssumption DEF AnalyticsInv, AnalyticsTypes, AnalyticsBounds, Clicks
  <2>1. recorded \in Seq([link : Measured, at : 0 .. AnalyticsHorizon, of : Impressions])
    <3>1. PICK R, Q : R = ClickRow
                      /\ Q = [link : Measured, at : 0 .. AnalyticsHorizon, of : Impressions]
      OBVIOUS
    <3>2. \A row \in R : row.at <= now => row \in Q
      <4>1. \A row \in R : row.at <= now => row.at \in 0 .. AnalyticsHorizon
        BY <2>0, <3>1 DEF ClickRow
      <4> QED BY <3>1, <4>1 DEF ClickRow
    <3>3. PICK n \in Nat : n = Len(recorded)
      BY <2>0
    <3>4. recorded \in [1 .. n -> R]
      BY <2>0, <3>1, <3>3
    <3>5. recorded \in [1 .. n -> Q]
      BY <3>2, <3>3, <3>4 DEF AnalyticsInv, AnalyticsTypes
    <3>6. \A s \in [1 .. n -> Q] : s \in Seq(Q)
      OBVIOUS
    <3>7. recorded \in Seq(Q)
      BY <3>5, <3>6
    <3> QED BY <3>1, <3>7
  <2>2. /\ inquiry.gatedAt \in 0 .. AnalyticsHorizon /\ inquiry.known \in 0 .. MaxClicks
        /\ inquiry.counted \in 0 .. MaxClicks
    <3>1. inquiry.gatedAt \in Nat /\ inquiry.known \in Nat /\ inquiry.counted \in Nat
      BY <2>0 DEF InquiryRow
    <3> QED BY <2>0, <3>1 DEF AnalyticsBounds
  <2>3. inquiry.part \subseteq SUBSET Clicks /\ inquiry.total \subseteq Clicks
    BY <2>0 DEF AnalyticsInv, ShownInv, InRange, AnalyticsBounds
  <2>4. inquiry.kind \in DOMAIN Plan \cup {"none"}
    BY <2>0 DEF InquiryRow, InquiryKinds, Plan
  <2>5. inquiry.section \in {"none"} \cup UNION Queries
    BY <2>0, SectionsAreQueries DEF InquiryRow
  <2>6. inquiry \in
          [kind : DOMAIN Plan \cup {"none"}, next : Nat, links : SUBSET Measured, app : BOOLEAN,
           asked : Int, from : Int, to : Int, gatedAt : 0 .. AnalyticsHorizon,
           known : 0 .. MaxClicks, section : {"none"} \cup UNION Queries,
           part : SUBSET SUBSET Clicks, total : SUBSET Clicks, counted : 0 .. MaxClicks]
    <3>1. PICK K, G, M, P, T, S : /\ K = DOMAIN Plan \cup {"none"} /\ G = 0 .. AnalyticsHorizon
                                  /\ M = 0 .. MaxClicks /\ P = SUBSET SUBSET Clicks
                                  /\ T = SUBSET Clicks /\ S = {"none"} \cup UNION Queries
      OBVIOUS
    <3>2. /\ inquiry.kind \in K /\ inquiry.gatedAt \in G /\ inquiry.known \in M
          /\ inquiry.counted \in M /\ inquiry.part \in P /\ inquiry.total \in T
          /\ inquiry.section \in S
      BY <2>2, <2>3, <2>4, <2>5, <3>1
    <3>3. inquiry \in [kind : K, next : Nat, links : SUBSET Measured, app : BOOLEAN,
                       asked : Int, from : Int, to : Int, gatedAt : G, known : M,
                       section : S, part : P, total : T, counted : M]
      BY <2>0, <3>2 DEF InquiryRow
    <3> QED BY <3>1, <3>3
  <2> QED BY <2>0, <2>1, <2>6 DEF AnalyticsTypeOK
<1> QED BY <1>1, <1>2, <1>3, AnalyticsInvariant, PTL DEF AnalyticsSpec

-----------------------------------------------------------------------------
(***************************************************************************)
(* Answers                                                                 *)
(***************************************************************************)
TargetRows == [made : BOOLEAN, url : URLs, columns : TagSets, apps : Apps]

\* What a row keeps of the calls that wrote it.
Keeps(row, tags, via) ==
  /\ row \in TargetRows
  /\ row.columns = tags
  /\ \A p \in Params : row.columns[p] # "" => row.url.tags[p] = row.columns[p]
  /\ via # "create" => Complete(row.apps)

AnswersInv ==
  /\ routing \in Seq(Targets)
  /\ target.made => Keeps(target, asked, appsVia)
  /\ guest.at # "nobody" =>
       /\ Keeps(guest.row, guest.asked, guest.via)
       /\ guest.agent \in Agents
       /\ <<guest.env.device, guest.env.os, guest.env.browser>> = Real[guest.agent]
  /\ AnswersMatchVisitors

\* Every header of the table is told apart as what really sends it.
LEMMA AgentsAreTold ==
  ASSUME NEW a \in DOMAIN UserAgent, NEW referer, NEW city
  PROVE  LET env == Build(a, referer, city)
         IN  /\ <<env.device, env.os, env.browser>> = Real[a]
             /\ env.city = city /\ env.referer = referer
<1> DEFINE ua == UserAgent[a]
<1>0. a \in {"iPhone", "iPhoneChrome", "iPad", "AndroidPhone", "AndroidTablet", "WindowsPhone",
             "Mac", "Opera", "Edge", "Explorer", "curl"}
  BY DEF UserAgent
<1>1. /\ DeviceType(ua) = Real[a][1]
      /\ MobileOS(ua, Real[a][1]) = Real[a][2]
      /\ Browser(ua) = Real[a][3]
  <2>1. CASE a \in {"iPhone", "iPhoneChrome", "iPad"}
    BY <2>1 DEF UserAgent, Real, DeviceType, MobileOS, Browser
  <2>2. CASE a \in {"AndroidPhone", "AndroidTablet", "WindowsPhone"}
    BY <2>2 DEF UserAgent, Real, DeviceType, MobileOS, Browser
  <2>3. CASE a \in {"Mac", "Opera", "Edge"}
    BY <2>3 DEF UserAgent, Real, DeviceType, MobileOS, Browser
  <2>4. CASE a \in {"Explorer", "curl"}
    BY <2>4 DEF UserAgent, Real, DeviceType, MobileOS, Browser
  <2> QED BY <1>0, <2>1, <2>2, <2>3, <2>4
<1>2. Real[a] = <<Real[a][1], Real[a][2], Real[a][3]>>
  BY <1>0 DEF Real
<1> HIDE DEF ua
<1> QED BY <1>1, <1>2 DEF Build, ua

\* The rule that answers is one of the list and matches.
LEMMA MatchingRuleMatches ==
  ASSUME NEW routes \in Seq(Targets), NEW env, MatchTargetRules(routes, env) # 0
  PROVE  RuleMatches(routes[MatchTargetRules(routes, env)], env)
<1> DEFINE matching == {i \in DOMAIN routes : RuleMatches(routes[i], env)}
<1>1. matching \subseteq Nat
  OBVIOUS
<1>2. MatchTargetRules(routes, env) = IF matching = {} THEN 0
                                     ELSE CHOOSE i \in matching : \A j \in matching : i <= j
  BY DEF MatchTargetRules
<1>3. matching # {}
  BY <1>2
<1>4. \E i \in matching : \A j \in matching : i <= j
  <2> HIDE DEF matching
  <2> QED BY <1>1, <1>3, SomeLeast
<1>5. MatchTargetRules(routes, env) \in matching
  BY <1>2, <1>3, <1>4
<1> QED BY <1>5

\* At the start there is no link and nobody visits.
LEMMA AnswersStart == AnswersInit => AnswersInv
BY DEF AnswersInit, AnswersInv, AnswersMatchVisitors, NoTarget, NoGuest

\* UTM values that are written over a URL's are in it, and the columns hold them.
LEMMA WrittenTagsAreKept ==
  ASSUME NEW url \in URLs, NEW tags \in TagSets
  PROVE  LET new == WithTags(url, tags)
         IN  /\ new \in URLs
             /\ \A p \in Params : tags[p] # "" => new.tags[p] = tags[p]
<1>1. url.tags \in TagSets
  BY DEF URLs
<1> DEFINE written == [p \in Params |-> IF tags[p] = "" THEN url.tags[p] ELSE tags[p]]
<1>2. written \in TagSets /\ \A p \in Params : tags[p] # "" => written[p] = tags[p]
  BY <1>1 DEF TagSets
<1>3. WithTags(url, tags) \in URLs /\ WithTags(url, tags).tags = written
  <2> HIDE DEF written
  <2>1. WithTags(url, tags) = [url EXCEPT !.tags = written]
    BY DEF WithTags, written
  <2> QED BY <1>2, <2>1 DEF URLs
<1> QED BY <1>2, <1>3

\* The owner's calls leave the visit alone.
LEMMA OwnerCallsKeep ==
  ASSUME AnswersInv, UNCHANGED guest,
         routing' \in Seq(Targets), (target.made => Keeps(target, asked, appsVia))'
  PROVE  AnswersInv'
BY DEF AnswersInv, AnswersMatchVisitors

\* The owner's calls: creating the link, editing its URL and tags, setting its deep links.
LEMMA CallsKeep ==
  ASSUME AnswersInv,
         \/ \E url \in SubmittedURLs, tags \in SubmittedTags :
              EditTarget(url, tags) \/ \E apps \in Apps : CreateTarget(url, tags, apps)
         \/ \E apps \in Apps : SetDeeplink(apps)
         \/ \E t \in Targets : AddTarget(t)
  PROVE  AnswersInv'
<1>1. ASSUME NEW url \in SubmittedURLs, NEW tags \in SubmittedTags, EditTarget(url, tags)
      PROVE  AnswersInv'
  <2>1. url \in URLs /\ tags \in TagSets
    BY DEF SubmittedURLs, SubmittedTags
  <2>2. target.made /\ Keeps(target, asked, appsVia) /\ routing \in Seq(Targets)
    BY <1>1 DEF EditTarget, Revise, AnswersInv
  <2>3. /\ target' = [target EXCEPT !.url = WithTags(url, tags), !.columns = tags]
        /\ asked' = tags /\ UNCHANGED <<routing, guest, appsVia>>
    BY <1>1 DEF EditTarget, EditedRow
  <2>4. WithTags(url, tags) \in URLs /\ \A p \in Params : tags[p] # "" => WithTags(url, tags).tags[p] = tags[p]
    BY <2>1, WrittenTagsAreKept
  <2>5. /\ target' \in TargetRows /\ target'.url = WithTags(url, tags)
        /\ target'.columns = tags /\ target'.apps = target.apps
    BY <2>1, <2>2, <2>3, <2>4 DEF Keeps, TargetRows
  <2>6. Keeps(target', asked', appsVia')
    BY <2>2, <2>3, <2>4, <2>5 DEF Keeps
  <2> QED BY <2>2, <2>3, <2>6, OwnerCallsKeep
<1>2. ASSUME NEW url \in SubmittedURLs, NEW tags \in SubmittedTags, NEW apps \in Apps,
             CreateTarget(url, tags, apps)
      PROVE  AnswersInv'
  <2>1. url \in URLs /\ tags \in TagSets
    BY DEF SubmittedURLs, SubmittedTags
  <2>4. WithTags(url, tags) \in URLs /\ \A p \in Params : tags[p] # "" => WithTags(url, tags).tags[p] = tags[p]
    BY <2>1, WrittenTagsAreKept
  <2>2. Keeps(target', asked', appsVia')
    BY <1>2, <2>1, <2>4 DEF CreateTarget, Keeps, TargetRows
  <2>3. routing' \in Seq(Targets) /\ UNCHANGED guest
    BY <1>2 DEF CreateTarget, AnswersInv
  <2> QED BY <2>2, <2>3, OwnerCallsKeep
<1>3. ASSUME NEW apps \in Apps, SetDeeplink(apps)
      PROVE  AnswersInv'
  <2>1. target.made /\ Keeps(target, asked, appsVia) /\ routing' \in Seq(Targets)
    BY <1>3 DEF SetDeeplink, UpdateDeeplink, Revise, AnswersInv
  <2>2. target' = [target EXCEPT !.apps = apps] /\ Complete(apps) /\ UNCHANGED <<asked, guest>>
    BY <1>3 DEF SetDeeplink, UpdateDeeplink
  <2>3. /\ target' \in TargetRows /\ target'.url = target.url
        /\ target'.columns = target.columns /\ target'.apps = apps
    BY <2>1, <2>2 DEF Keeps, TargetRows
  <2>4. Keeps(target', asked', appsVia')
    BY <2>1, <2>2, <2>3 DEF Keeps
  <2> QED BY <2>1, <2>2, <2>4, OwnerCallsKeep
<1>4. ASSUME NEW t \in Targets, AddTarget(t)
      PROVE  AnswersInv'
  <2>1. routing' \in Seq(Targets) /\ UNCHANGED <<target, asked, appsVia, guest>>
    BY <1>4 DEF AddTarget, AnswersInv
  <2>2. (target.made => Keeps(target, asked, appsVia))'
    BY <2>1 DEF AnswersInv, Keeps
  <2> QED BY <2>1, <2>2, OwnerCallsKeep
<1> QED BY <1>1, <1>2, <1>3, <1>4

\* The arrival of a visitor reads the row and the rules.
LEMMA ArrivalKeeps ==
  ASSUME AnswersInv, NEW agent \in Agents, NEW referer, NEW city,
         GuestArrives(agent, referer, city)
  PROVE  AnswersInv'
<1>1. /\ guest' = [at |-> "read", agent |-> agent, env |-> Build(agent, referer, city),
                   row |-> target, asked |-> asked, via |-> appsVia]
      /\ UNCHANGED <<target, routing, asked, appsVia>>
      /\ Keeps(target, asked, appsVia)
  BY DEF GuestArrives, AnswersInv
<1>2. agent \in DOMAIN UserAgent
  BY AnswersAssumption
<1> DEFINE env == Build(agent, referer, city)
<1>3. <<env.device, env.os, env.browser>> = Real[agent]
  BY ONLY <1>2, AgentsAreTold
<1> HIDE DEF env
<1>4. /\ guest'.at = "read" /\ guest'.agent = agent /\ guest'.env = env
      /\ guest'.row = target /\ guest'.asked = asked /\ guest'.via = appsVia
  BY <1>1 DEF env
<1>5. AnswersMatchVisitors'
  BY <1>4 DEF AnswersMatchVisitors
<1>6. (target.made => Keeps(target, asked, appsVia))' /\ Keeps(guest.row, guest.asked, guest.via)'
  BY <1>1, <1>4 DEF Keeps
<1>7. (<<guest.env.device, guest.env.os, guest.env.browser>> = Real[guest.agent])'
  BY <1>3, <1>4
<1>8. routing' \in Seq(Targets) /\ guest'.agent \in Agents
  BY <1>1, <1>4 DEF AnswersInv
<1> QED BY <1>5, <1>6, <1>7, <1>8 DEF AnswersInv

\* The answer: the redirect and the click.
LEMMA AnswerKeeps ==
  ASSUME AnswersInv, GuestIsAnswered
  PROVE  AnswersInv'
<1>0. PICK routes \in ListByLink :
        guest' = [at |-> "answered", agent |-> guest.agent, env |-> guest.env,
                  row |-> guest.row, asked |-> guest.asked, via |-> guest.via,
                  rules |-> routes, rule |-> MatchTargetRules(routes, guest.env),
                  app |-> HasApp(guest.row, guest.env),
                  url |-> TaggedURL(guest.row, guest.env),
                  click |-> RecordedTags(guest.row, guest.env)]
  BY DEF GuestIsAnswered
<1>1. UNCHANGED <<target, routing, asked, appsVia>> /\ guest.at = "read"
  BY DEF GuestIsAnswered
<1> DEFINE row == guest.row
           env == guest.env
           system == Real[guest.agent][2]
           rule == routes[MatchTargetRules(routes, env)]
<1>2. /\ Keeps(row, guest.asked, guest.via) /\ guest.agent \in Agents
      /\ <<env.device, env.os, env.browser>> = Real[guest.agent]
      /\ routes \in Seq(Targets)
  <2>1. routing \in Seq(Targets) /\ <<>> \in Seq(Targets)
    BY DEF AnswersInv
  <2> QED BY <1>1, <2>1 DEF AnswersInv, ListByLink
<1>3. env.os = system
  BY <1>2
<1>4. \A p \in Params : RecordedTags(row, env)[p] # "" =>
        TaggedURL(row, env).tags[p] = RecordedTags(row, env)[p]
  <2>1. CASE Explicit(row.columns)
    BY <1>2, <2>1 DEF Keeps, TaggedURL, RecordedTags
  <2>2. CASE ~Explicit(row.columns)
    <3>1. row.url \in URLs
      BY <1>2 DEF Keeps, TargetRows
    <3> DEFINE auto == AutoTags(env)
               written == [p \in Params |-> IF auto[p] = "" THEN row.url.tags[p] ELSE auto[p]]
    <3>2. TaggedURL(row, env) = [row.url EXCEPT !.tags = written] /\ RecordedTags(row, env) = auto
      BY <2>2 DEF TaggedURL, RecordedTags, WithTags
    <3> HIDE DEF auto, written, row, env
    <3>3. TaggedURL(row, env).tags = written
      BY <3>1, <3>2 DEF URLs
    <3>4. \A p \in Params : auto[p] # "" => written[p] = auto[p]
      BY DEF written
    <3> QED BY <3>2, <3>3, <3>4
  <2> QED BY <2>1, <2>2
<1>5. guest.asked # NoTags => RecordedTags(row, env) = guest.asked
  BY <1>2 DEF Keeps, RecordedTags, Explicit
<1>6. HasApp(row, env) => row.apps[system] = "full" \/ guest.via = "create"
  <2> SUFFICES ASSUME HasApp(row, env), guest.via # "create"
               PROVE  row.apps[system] = "full"
    OBVIOUS
  <2>1. row.apps \in [Systems -> {"none", "part", "full"}] /\ Complete(row.apps)
    BY <1>2 DEF Keeps, TargetRows, Apps
  <2> HIDE DEF row, env, system
  <2>2. system \in Systems /\ row.apps[system] # "none"
    BY <1>3 DEF HasApp
  <2> QED BY <2>1, <2>2 DEF Complete
<1>7. MatchTargetRules(routes, env) # 0 =>
        /\ rule.city # NoCondition => env.city # ""
        /\ rule.os # NoCondition => (rule.os.type = "is" <=> system \in rule.os.values)
  BY <1>2, <1>3, MatchingRuleMatches DEF RuleMatches, ConditionMatches
<1>8. AnswersMatchVisitors'
  <2> HIDE DEF row, env, system, rule
  <2>1. /\ guest'.env = env /\ guest'.agent = guest.agent /\ guest'.rules = routes
        /\ guest'.rule = MatchTargetRules(routes, env) /\ guest'.row = row
        /\ guest'.asked = guest.asked /\ guest'.via = guest.via /\ guest'.app = HasApp(row, env)
        /\ guest'.url = TaggedURL(row, env) /\ guest'.click = RecordedTags(row, env)
    BY <1>0 DEF row, env
  <2> QED BY <1>2, <1>4, <1>5, <1>6, <1>7, <2>1 DEF AnswersMatchVisitors, system, rule
<1> QED BY <1>0, <1>1, <1>2, <1>8 DEF AnswersInv, Keeps

\* The visitor's departure.
LEMMA LeavingKeeps ==
  ASSUME AnswersInv, GuestLeaves
  PROVE  AnswersInv'
<1>1. guest'.at = "nobody" /\ UNCHANGED <<target, routing, asked, appsVia>>
  BY DEF GuestLeaves, NoGuest
<1>2. AnswersMatchVisitors'
  BY <1>1 DEF AnswersMatchVisitors
<1>3. (target.made => Keeps(target, asked, appsVia))'
  BY <1>1 DEF AnswersInv, Keeps
<1> QED BY <1>1, <1>2, <1>3 DEF AnswersInv

\* The columns of the row and the URL beside them stay as the owner's last call has
\* written them, and a visit's are those of a row at some time.
THEOREM AnswersInvariant == AnswersSpec => []AnswersInv
<1>1. AnswersInv /\ [AnswersNext]_answersVars => AnswersInv'
  <2> SUFFICES ASSUME AnswersInv, [AnswersNext]_answersVars PROVE AnswersInv'
    OBVIOUS
  <2>1. CASE UNCHANGED answersVars
    BY <2>1 DEF answersVars, AnswersInv, AnswersMatchVisitors, Keeps
  <2> QED BY <2>1, CallsKeep, ArrivalKeeps, AnswerKeeps, LeavingKeeps DEF AnswersNext
<1> QED BY <1>1, AnswersStart, PTL DEF AnswersSpec

\* What is served and what is recorded are the same, and as the visitor and the owner
\* have it (ResolveService.Resolve, package visitor).
THEOREM AnswersMatch == AnswersSpec => []AnswersMatchVisitors
<1>1. AnswersInv => AnswersMatchVisitors
  BY DEF AnswersInv
<1> QED BY <1>1, AnswersInvariant, PTL

\* The row of the link, its rules and the visit are well typed.
THEOREM AnswersTypeCorrect == AnswersSpec => []AnswersTypeOK
<1>0. NoTarget \in TargetRows /\ NoTags \in TagSets
  <2>1. NoTags \in TagSets
    BY DEF NoTags, TagSets
  <2>2. PICK page \in Destinations : TRUE
    BY AnswersAssumption
  <2>3. [page |-> page, tags |-> NoTags] \in URLs
    BY <2>1, <2>2 DEF URLs
  <2>4. \E u \in URLs : u.tags = NoTags
    BY <2>3
  <2>5. PICK url : url = CHOOSE u \in URLs : u.tags = NoTags
    OBVIOUS
  <2>6. url \in URLs
    BY <2>4, <2>5
  <2>7. [os \in Systems |-> "none"] \in Apps
    BY DEF Apps
  <2> QED BY <2>1, <2>5, <2>6, <2>7 DEF NoTarget, TargetRows
<1>1. AnswersInit => AnswersTypeOK
  <2>1. <<>> \in Seq(Targets) /\ Len(<<>>) = 0
    OBVIOUS
  <2>2. 0 <= MaxTargets /\ 0 \in 0 .. MaxRevisions
    <3>1. MaxTargets \in Nat /\ MaxRevisions \in Nat
      BY AnswersAssumption
    <3> QED BY <3>1
  <2>3. NoGuest.at = "nobody"
    BY DEF NoGuest
  <2> QED BY <1>0, <2>1, <2>2, <2>3 DEF AnswersInit, AnswersTypeOK, TargetRows
<1>2. AnswersTypeOK /\ [AnswersNext]_answersVars => AnswersTypeOK'
  <2> SUFFICES ASSUME AnswersTypeOK, [AnswersNext]_answersVars
               PROVE  AnswersTypeOK'
    OBVIOUS
  <2>0. /\ routing \in Seq(Targets) /\ Len(routing) \in Nat /\ Len(routing) <= MaxTargets
        /\ target \in TargetRows /\ MaxTargets \in Nat /\ MaxRevisions \in Nat
        /\ revisions \in 0 .. MaxRevisions
    <3>1. MaxTargets \in Nat /\ MaxRevisions \in Nat
      BY AnswersAssumption
    <3>2. target \in TargetRows
      BY DEF AnswersTypeOK, TargetRows
    <3>3. routing \in Seq(Targets) /\ Len(routing) <= MaxTargets /\ revisions \in 0 .. MaxRevisions
      BY DEF AnswersTypeOK
    <3> QED BY <3>1, <3>2, <3>3
  <2>1. Revise => revisions' \in 0 .. MaxRevisions
    BY <2>0 DEF Revise
  <2>2. ASSUME NEW url \in URLs, NEW tags \in TagSets
        PROVE  WithTags(url, tags) \in URLs
    BY <2>2, WrittenTagsAreKept
  <2>3. ASSUME target' \in TargetRows, UNCHANGED <<routing, guest>>, asked' \in TagSets,
               appsVia' \in {"create", "set"}, revisions' \in 0 .. MaxRevisions
        PROVE  AnswersTypeOK'
    BY <2>3 DEF AnswersTypeOK, TargetRows
  <2>4. ASSUME NEW url \in SubmittedURLs, NEW tags \in SubmittedTags, EditTarget(url, tags)
        PROVE  AnswersTypeOK'
    <3>1. url \in URLs /\ tags \in TagSets
      BY DEF SubmittedURLs, SubmittedTags
    <3>2. PICK new \in URLs : new = WithTags(url, tags)
      BY <2>2, <3>1
    <3>3. target' = [target EXCEPT !.url = new, !.columns = tags]
      BY <2>4, <3>2 DEF EditTarget, EditedRow
    <3>4. target' \in TargetRows
      BY <2>0, <3>1, <3>2, <3>3 DEF TargetRows
    <3> QED BY <2>1, <2>3, <2>4, <3>1, <3>4 DEF EditTarget, AnswersTypeOK
  <2>5. ASSUME NEW url \in SubmittedURLs, NEW tags \in SubmittedTags, NEW apps \in Apps,
               CreateTarget(url, tags, apps)
        PROVE  AnswersTypeOK'
    <3>1. url \in URLs /\ tags \in TagSets
      BY DEF SubmittedURLs, SubmittedTags
    <3>2. PICK new \in URLs : new = WithTags(url, tags)
      BY <2>2, <3>1
    <3>3. target' \in TargetRows
      BY <2>5, <3>1, <3>2 DEF CreateTarget, TargetRows
    <3> QED BY <2>0, <2>3, <2>5, <3>1, <3>3 DEF CreateTarget
  <2>6. ASSUME NEW apps \in Apps, SetDeeplink(apps)
        PROVE  AnswersTypeOK'
    <3>1. target' \in TargetRows
      BY <2>0, <2>6 DEF SetDeeplink, UpdateDeeplink, TargetRows
    <3> QED BY <2>1, <2>3, <2>6, <3>1 DEF SetDeeplink, AnswersTypeOK
  <2>7. ASSUME NEW t \in Targets, AddTarget(t)
        PROVE  AnswersTypeOK'
    <3>1. PICK n \in Nat : n = Len(routing)
      BY <2>0
    <3>2. PICK k : k = n + 1
      OBVIOUS
    <3>3. PICK R : R = Targets
      OBVIOUS
    <3>4. /\ routing' = Append(routing, t) /\ routing \in Seq(R) /\ t \in R /\ n < MaxTargets
          /\ UNCHANGED <<target, guest, asked, appsVia>> /\ Revise
      BY <2>0, <2>7, <3>1, <3>3 DEF AddTarget
    <3>5. routing' \in Seq(R) /\ Len(routing') = k
      BY <3>1, <3>2, <3>4
    <3>6. k <= MaxTargets /\ 0 .. n \subseteq 0 .. k
      BY <2>0, <3>1, <3>2, <3>4
    <3>7. guest.at = "answered" => guest.rule \in 0 .. k
      BY <3>1, <3>6 DEF AnswersTypeOK
    <3> QED BY <2>1, <3>3, <3>4, <3>5, <3>6, <3>7 DEF AnswersTypeOK
  <2>8. ASSUME NEW agent \in Agents, NEW referer \in Referers, NEW city \in Locations,
               GuestArrives(agent, referer, city)
        PROVE  AnswersTypeOK'
    <3>1. /\ guest'.at = "read" /\ guest'.row = target /\ target.made
          /\ UNCHANGED <<target, routing, asked, appsVia, revisions>>
      BY <2>8 DEF GuestArrives
    <3>2. target \in [made : {TRUE}, url : URLs, columns : TagSets, apps : Apps]
      BY <2>0, <3>1 DEF TargetRows
    <3> QED BY <3>1, <3>2 DEF AnswersTypeOK
  <2>9. CASE GuestIsAnswered
    <3>1. PICK found \in {routing, <<>>} :
            /\ guest'.at = "answered" /\ guest'.row = guest.row
            /\ guest'.rule = MatchTargetRules(found, guest.env)
      BY <2>9 DEF GuestIsAnswered, ListByLink
    <3>2. guest.at = "read" /\ UNCHANGED <<target, routing, asked, appsVia, revisions>>
      BY <2>9 DEF GuestIsAnswered
    <3>3. DOMAIN found \subseteq 1 .. Len(routing)
      BY <2>0, <3>1
    <3>4. guest'.rule \in 0 .. Len(routing)
      <4>1. PICK matching : matching = {i \in DOMAIN found : RuleMatches(found[i], guest.env)}
        OBVIOUS
      <4>2. guest'.rule = IF matching = {} THEN 0
                          ELSE CHOOSE i \in matching : \A j \in matching : i <= j
        BY <3>1, <4>1 DEF MatchTargetRules
      <4>3. matching \subseteq 1 .. Len(routing) /\ matching \subseteq Nat
        BY <3>3, <4>1
      <4>4. matching # {} => \E i \in matching : \A j \in matching : i <= j
        BY <4>3, SomeLeast
      <4>5. matching # {} => guest'.rule \in matching
        BY <4>2, <4>4
      <4>6. CASE matching = {}
        BY <2>0, <4>2, <4>6
      <4>7. CASE matching # {}
        <5>1. guest'.rule \in 1 .. Len(routing) /\ Len(routing) \in Nat
          BY <2>0, <4>3, <4>5, <4>7
        <5> QED BY <5>1
      <4> QED BY <4>6, <4>7
    <3> QED BY <3>1, <3>2, <3>4 DEF AnswersTypeOK
  <2>10. CASE GuestLeaves
    BY <2>10 DEF GuestLeaves, NoGuest, AnswersTypeOK
  <2>11. CASE UNCHANGED answersVars
    BY <2>11 DEF answersVars, AnswersTypeOK
  <2> QED BY <2>4, <2>5, <2>6, <2>7, <2>8, <2>9, <2>10, <2>11 DEF AnswersNext
<1> QED BY <1>1, <1>2, PTL DEF AnswersSpec

-----------------------------------------------------------------------------
(***************************************************************************)
(* ShortURLs.  A code has one link; the handler's link is the row of the   *)
(* code it was asked about, in the scope of the URL it was asked about.    *)
(***************************************************************************)
AskingRecord ==
  [at : AskingStages, org : Tenants \cup {Absent}, url : URLForms \cup {Absent},
   link : LinkIds \cup {Absent}, code : Words \cup {Absent}, late : BOOLEAN]

CodesAreUnique ==
  \A l, k \in LinkIds : named[l] # Absent /\ named[k] # Absent /\ named[l].code = named[k].code
                        => l = k

\* What the handler knows by its place, whether or not the rows have changed since.
AskingFields ==
  /\ asking.at # "idle" => asking.org \in Tenants /\ asking.code \in Words
  /\ asking.at \in {"found", "siteless"} => asking.link \in LinkIds
  /\ asking.at \in {"scoping", "looking", "refused"} => asking.url # Absent
  /\ asking.at = "scoping" => asking.url.header \in Headers
  /\ asking.url # Absent => asking.url.site = ShortSite /\ asking.url.code = asking.code

InScope(url, o) == URLScope(url) \cap {Absent, o} # {}

\* What it knows as long as they have not.
AskingRows ==
  ~asking.late =>
    /\ asking.at \in {"found", "siteless"} =>
         /\ named[asking.link] # Absent
         /\ named[asking.link].org = asking.org /\ named[asking.link].code = asking.code
    /\ asking.at \in {"looking", "found"} /\ asking.url # Absent =>
         InScope(asking.url, asking.org)
    /\ asking.at = "refused" => LeadsTo(asking.url) \cap Visible(asking.org) = {}

HeldRow ==
  held # Absent =>
    /\ named[held.link] # Absent
    /\ named[held.link].code = held.url.code
    /\ InScope(held.url, named[held.link].org)

ShortInv ==
  /\ ShortTypeOK /\ asking \in AskingRecord
  /\ CodesAreUnique /\ AskingFields /\ AskingRows /\ HeldRow

\* What the invariant says is what the property says, as a code has one link.
LEMMA CodeLeadsToItsLink ==
  ASSUME ShortTypeOK, CodesAreUnique, NEW l \in LinkIds, NEW url \in URLForms,
         named[l] # Absent, named[l].code = url.code, InScope(url, named[l].org)
  PROVE  LeadsTo(url) = {l}
BY DEF ShortTypeOK, CodesAreUnique, InScope, LeadsTo, GetByCode

\* What the invariant says of the forms of the URL.
LEMMA ShortAgrees ==
  ASSUME ShortInv
  PROVE  ShortURLsAgree
<1>1. DisplayedLeadsToItsLink
  BY CodeLeadsToItsLink DEF ShortInv, ShortTypeOK, HeldRow, DisplayedLeadsToItsLink
<1>2. SubmittedAsVisited
  <2>1. ASSUME ~asking.late, asking.at = "found", asking.url # Absent
        PROVE  LeadsTo(asking.url) = {asking.link}
    <3>1. /\ asking.link \in LinkIds /\ asking.url \in URLForms
          /\ asking.org \in Tenants
          /\ named[asking.link] # Absent
          /\ named[asking.link].org = asking.org /\ named[asking.link].code = asking.code
          /\ asking.url.code = asking.code /\ InScope(asking.url, asking.org)
      BY <2>1 DEF ShortInv, AskingRecord, AskingFields, AskingRows
    <3> QED BY <3>1, CodeLeadsToItsLink DEF ShortInv
  <2> QED BY <2>1 DEF ShortInv, AskingRows, SubmittedAsVisited
<1> QED BY <1>1, <1>2 DEF ShortURLsAgree

\* What is assumed of the constants.
LEMMA ShortConstants ==
  /\ MaxShort \in Nat /\ ShortSite \notin Sites /\ Absent \notin URLForms
  /\ Absent \notin Tenants /\ Absent \notin Headers
BY ShortAssumption, AbsentIsNoURL

\* The scope of a URL at the short domain: every org, or that of its approved prefix.
LEMMA ShortScopes ==
  ASSUME NEW p \in Headers \cup {Absent}, NEW c \in Words, NEW o \in Tenants
  PROVE  /\ p = Absent => URLScope([site |-> ShortSite, header |-> p, code |-> c]) = {Absent}
         /\ p # Absent =>
              (InScope([site |-> ShortSite, header |-> p, code |-> c], o) <=> OwnHeader(p, o))
BY ShortConstants DEF URLScope, SiteScope, IsDeploymentHost, InScope, OwnHeader

\* At the start there are no links and no requests.
LEMMA ShortStart == ShortInit => ShortInv
BY DEF ShortInit, ShortInv, ShortTypeOK, AskingRecord, AskingStages, NoAsking, CodesAreUnique,
       AskingFields, AskingRows, HeldRow

-----------------------------------------------------------------------------
\* The handler reads: the rows stay as they are.
LEMMA TablesKept ==
  ASSUME UNCHANGED tables, NEW url, NEW o
  PROVE  /\ InScope(url, o)' <=> InScope(url, o)
         /\ LeadsTo(url)' = LeadsTo(url)
         /\ Visible(o)' = Visible(o)
BY DEF tables, InScope, URLScope, SiteScope, LeadsTo, GetByCode, Visible

\* What is left to show of a step of the handler that displays nothing.
LEMMA ReadingKeeps ==
  ASSUME ShortInv, UNCHANGED <<tables, held>>,
         asking' \in AskingRecord, AskingFields', AskingRows'
  PROVE  ShortInv'
<1>1. HeldRow'
  <2> SUFFICES ASSUME held # Absent
               PROVE  InScope(held.url, named[held.link].org)' <=> InScope(held.url, named[held.link].org)
    BY DEF ShortInv, HeldRow, tables
  <2> QED BY DEF tables, InScope, URLScope, SiteScope
<1> QED BY <1>1 DEF ShortInv, ShortTypeOK, CodesAreUnique, tables, AskingRecord

\* Asking for the URL to show of a link.
LEMMA ShowKeeps ==
  ASSUME ShortInv, NEW o \in Tenants, NEW l \in LinkIds, ShowLink(o, l)
  PROVE  ShortInv'
<1>1. /\ asking' = [at |-> "found", org |-> o, url |-> Absent, link |-> l,
                    code |-> named[l].code, late |-> FALSE]
      /\ named[l] # Absent /\ named[l].org = o /\ named[l].code \in Words
      /\ UNCHANGED <<tables, held>>
  BY DEF ShowLink, NoAsking, Visible, ShortInv, ShortTypeOK
<1>2. asking' \in AskingRecord /\ AskingFields'
  BY <1>1 DEF AskingRecord, AskingStages, AskingFields
<1>3. AskingRows'
  BY <1>1 DEF AskingRows, tables
<1> QED BY <1>1, <1>2, <1>3, ReadingKeeps

\* Asking about a URL.
LEMMA SubmitKeeps ==
  ASSUME ShortInv, NEW o \in Tenants, NEW url \in URLForms, SubmitURL(o, url)
  PROVE  ShortInv'
<1>1. /\ asking' = [at |-> IF url.header = Absent THEN "looking" ELSE "scoping", org |-> o,
                    url |-> url, link |-> Absent, code |-> url.code, late |-> FALSE]
      /\ url = [site |-> ShortSite, header |-> url.header, code |-> url.code]
      /\ url.header \in Headers \cup {Absent} /\ url.code \in Words
      /\ UNCHANGED <<tables, held>>
  BY DEF SubmitURL, NoAsking, URLForms
<1>2. asking' \in AskingRecord /\ AskingFields'
  BY <1>1, ShortConstants DEF AskingRecord, AskingStages, AskingFields
<1>3. ASSUME url.header = Absent
      PROVE  InScope(url, o)'
  <2>1. URLScope(url) = {Absent}
    BY <1>1, <1>3, ShortScopes
  <2> QED BY <1>1, <2>1, TablesKept DEF InScope
<1>4. AskingRows'
  BY <1>1, <1>3 DEF AskingRows
<1> QED BY <1>1, <1>2, <1>4, ReadingKeeps

\* Resolving the scope of the URL.
LEMMA ScopeKeeps ==
  ASSUME ShortInv, SubmittedScope
  PROVE  ShortInv'
<1> DEFINE url == asking.url
           o == asking.org
<1>1. /\ o \in Tenants /\ url \in URLForms /\ url.site = ShortSite /\ url.header \in Headers
      /\ url.code \in Words /\ url = [site |-> ShortSite, header |-> url.header, code |-> url.code]
  BY DEF ShortInv, SubmittedScope, AskingFields, AskingRecord, URLForms
<1>2. InScope(url, o) <=> OwnHeader(url.header, o)
  BY <1>1, ShortScopes, ShortConstants
<1>3. ~OwnHeader(url.header, o) => LeadsTo(url) \cap Visible(o) = {}
  BY <1>1, <1>2 DEF LeadsTo, Visible, InScope
<1>4. asking' \in AskingRecord /\ AskingFields'
  BY DEF ShortInv, SubmittedScope, AskingRecord, AskingStages, AskingFields
<1>5. AskingRows'
  <2>1. CASE OwnHeader(url.header, o)
    BY <1>2, <2>1, TablesKept DEF SubmittedScope, ShortInv, AskingRecord, AskingRows
  <2>2. CASE ~OwnHeader(url.header, o)
    BY <1>3, <2>2, TablesKept DEF SubmittedScope, ShortInv, AskingRecord, AskingRows
  <2> QED BY <2>1, <2>2
<1> QED BY <1>4, <1>5, ReadingKeeps DEF SubmittedScope

\* Looking its code up in the scope.
LEMMA CodeKeeps ==
  ASSUME ShortInv, SubmittedCode
  PROVE  ShortInv'
<1> DEFINE own == GetByCode(asking.code) \cap Visible(asking.org)
<1>1. /\ asking.url \in URLForms /\ asking.url # Absent /\ asking.url.code = asking.code
      /\ asking.org \in Tenants
  BY DEF ShortInv, SubmittedCode, AskingFields, AskingRecord
<1>2. CASE \E l \in own : asking' = [asking EXCEPT !.at = "found", !.link = l]
  <2>1. PICK l \in own : asking' = [asking EXCEPT !.at = "found", !.link = l]
    BY <1>2
  <2>2. l \in LinkIds /\ named[l] # Absent /\ named[l].org = asking.org /\ named[l].code = asking.code
    BY DEF GetByCode, Visible
  <2>3. asking' \in AskingRecord /\ AskingFields'
    BY <2>1, <2>2 DEF ShortInv, SubmittedCode, AskingRecord, AskingStages, AskingFields
  <2>4. AskingRows'
    BY <1>1, <2>1, <2>2, TablesKept DEF SubmittedCode, ShortInv, AskingRecord, AskingRows, tables
  <2> QED BY <2>3, <2>4, ReadingKeeps DEF SubmittedCode
<1>3. CASE own = {} /\ asking' = [asking EXCEPT !.at = "refused"]
  <2>1. LeadsTo(asking.url) \cap Visible(asking.org) = {}
    BY <1>1, <1>3 DEF LeadsTo
  <2>2. asking' \in AskingRecord /\ AskingFields'
    BY <1>3 DEF ShortInv, SubmittedCode, AskingRecord, AskingStages, AskingFields
  <2>3. AskingRows'
    BY <1>3, <2>1, TablesKept DEF SubmittedCode, ShortInv, AskingRecord, AskingRows
  <2> QED BY <2>2, <2>3, ReadingKeeps DEF SubmittedCode
<1> QED BY <1>2, <1>3 DEF SubmittedCode

\* The refusal, of the URL or of its link.
LEMMA RefusedKeeps ==
  ASSUME ShortInv, SubmittedRefused
  PROVE  ShortInv'
<1>1. asking' \in AskingRecord /\ AskingFields' /\ AskingRows'
  BY DEF SubmittedRefused, NoAsking, AskingRecord, AskingStages, AskingFields, AskingRows
<1> QED BY <1>1, ReadingKeeps DEF SubmittedRefused

\* An answer: the URL is in scope of the org of the link, and names its code.
LEMMA DisplayKeeps ==
  ASSUME ShortInv, asking.at \in {"found", "siteless"},
         NEW h \in Sites \cup {ShortSite}, NEW p \in Headers \cup {Absent}, Display(h, p),
         InScope([site |-> h, header |-> p, code |-> asking.code], asking.org)
  PROVE  ShortInv'
<1> DEFINE kept == [url |-> [site |-> h, header |-> p, code |-> asking.code],
                    link |-> asking.link]
<1>1. asking' \in AskingRecord /\ AskingFields' /\ AskingRows'
  BY DEF Display, NoAsking, AskingRecord, AskingStages, AskingFields, AskingRows
<1>2. CASE held' = held
  BY <1>1, <1>2, ReadingKeeps DEF Display
<1>3. CASE ~asking.late /\ held' = kept
  <2>1. /\ kept \in [url : URLForms, link : LinkIds]
        /\ named[kept.link] # Absent /\ named[kept.link].org = asking.org
        /\ named[kept.link].code = kept.url.code
        /\ InScope(kept.url, named[kept.link].org)
    BY <1>3 DEF ShortInv, AskingFields, AskingRows, URLForms
  <2>2. HeldRow'
    BY <1>3, <2>1 DEF Display, tables, HeldRow, InScope, URLScope, SiteScope
  <2>3. ShortTypeOK' /\ CodesAreUnique'
    BY <1>1, <1>3, <2>1 DEF Display, tables, ShortInv, ShortTypeOK, CodesAreUnique, AskingRecord
  <2> QED BY <1>1, <2>2, <2>3 DEF ShortInv
<1> QED BY <1>2, <1>3 DEF Display

\* Choosing the domain of the URL that is shown.
LEMMA DisplaySiteKeeps ==
  ASSUME ShortInv, DisplaySite
  PROVE  ShortInv'
<1>1. asking.org \in Tenants
  BY DEF ShortInv, DisplaySite, AskingFields
<1>2. ASSUME NEW h \in PrimarySite(asking.org), Display(h, Absent)
      PROVE  ShortInv'
  <2>1. h \in Sites /\ h # ShortSite /\ asking.org \in SiteScope(h)
    BY <1>1, <1>2, ShortConstants DEF PrimarySite, SiteScope, IsDeploymentHost
  <2>2. InScope([site |-> h, header |-> Absent, code |-> asking.code], asking.org)
    BY <1>1, <2>1 DEF InScope, URLScope
  <2> QED BY <1>2, <2>1, <2>2, DisplayKeeps DEF DisplaySite
<1>3. ASSUME asking' = [asking EXCEPT !.at = "siteless"], UNCHANGED <<tables, held>>
      PROVE  ShortInv'
  <2>1. asking' \in AskingRecord /\ AskingFields'
    BY <1>3 DEF ShortInv, DisplaySite, AskingRecord, AskingStages, AskingFields
  <2>2. AskingRows'
    BY <1>3 DEF ShortInv, DisplaySite, AskingRecord, AskingRows, tables
  <2> QED BY <1>3, <2>1, <2>2, ReadingKeeps
<1> QED BY <1>2, <1>3 DEF DisplaySite

\* Choosing its prefix.
LEMMA DisplayHeaderKeeps ==
  ASSUME ShortInv, DisplayHeader
  PROVE  ShortInv'
<1>1. asking.org \in Tenants /\ asking.code \in Words
  BY DEF ShortInv, DisplayHeader, AskingFields
<1>2. ASSUME NEW p \in PrimaryHeader(asking.org), Display(ShortSite, p)
      PROVE  ShortInv'
  <2>1. p \in Headers /\ p # Absent /\ OwnHeader(p, asking.org)
    BY <1>2, ShortConstants DEF PrimaryHeader, OwnHeader
  <2> QED BY <1>1, <1>2, <2>1, ShortScopes, DisplayKeeps DEF DisplayHeader
<1>3. ASSUME Display(ShortSite, Absent)
      PROVE  ShortInv'
  <2>1. InScope([site |-> ShortSite, header |-> Absent, code |-> asking.code], asking.org)
    BY <1>1, ShortScopes DEF InScope
  <2> QED BY <1>3, <2>1, DisplayKeeps DEF DisplayHeader
<1> QED BY <1>2, <1>3 DEF DisplayHeader

-----------------------------------------------------------------------------
\* The rows change, and the handler and the keeper of a URL with them.
LEMMA MeanwhileKeeps ==
  ASSUME ShortInv, Meanwhile, CodesAreUnique',
         named' \in [LinkIds -> [org : Tenants, code : Words] \cup {Absent}],
         site' \in [Sites -> SiteRow \cup {Absent}],
         header' \in [Headers -> HeaderRow \cup {Absent}]
  PROVE  ShortInv'
<1>1. PICK a \in {asking} : asking' = [a EXCEPT !.late = @ \/ AskedAbout(a)' # AskedAbout(a)]
  BY DEF Meanwhile
<1>2. PICK k \in {held} :
        held' = IF k # Absent /\ (named'[k.link] # named[k.link] \/ URLScope(k.url)' # URLScope(k.url))
                THEN Absent ELSE k
  BY DEF Meanwhile
<1>3. /\ a = asking /\ a \in AskingRecord /\ asking' \in AskingRecord
      /\ asking'.at = a.at /\ asking'.org = a.org /\ asking'.url = a.url
      /\ asking'.link = a.link /\ asking'.code = a.code
      /\ ~asking'.late => ~asking.late /\ AskedAbout(a)' = AskedAbout(a)
  BY <1>1 DEF ShortInv, AskingRecord
<1>4. ASSUME ~asking'.late
      PROVE  /\ ~asking.late
             /\ a.url # Absent => URLScope(a.url)' = URLScope(a.url)
             /\ \A l \in LinkIds : named[l] # Absent /\ named[l].code = a.code
                                   => named'[l] = named[l]
             /\ \A l \in LinkIds : named'[l] # Absent /\ named'[l].code = a.code
                                   => named'[l] = named[l]
  <2>1. /\ {<<l, named'[l]>> : l \in GetByCode(a.code)'} = {<<l, named[l]>> : l \in GetByCode(a.code)}
        /\ a.url # Absent => URLScope(a.url)' = URLScope(a.url)
    BY <1>3, <1>4 DEF AskedAbout
  <2>2. ASSUME NEW l \in GetByCode(a.code)
        PROVE  named'[l] = named[l]
    <3>1. <<l, named[l]>> \in {<<m, named'[m]>> : m \in GetByCode(a.code)'}
      BY <2>1
    <3> QED BY <3>1
  <2>3. ASSUME NEW l \in GetByCode(a.code)'
        PROVE  named'[l] = named[l]
    <3>1. <<l, named'[l]>> \in {<<m, named[m]>> : m \in GetByCode(a.code)}
      BY <2>1
    <3> QED BY <3>1
  <2> QED BY <1>3, <1>4, <2>1, <2>2, <2>3 DEF GetByCode
<1>5. AskingFields'
  BY <1>3 DEF ShortInv, AskingFields
<1>6. AskingRows'
  <2> SUFFICES ASSUME ~asking'.late
               PROVE  /\ a.at \in {"found", "siteless"} =>
                           /\ named'[a.link] # Absent
                           /\ named'[a.link].org = a.org /\ named'[a.link].code = a.code
                      /\ a.at \in {"looking", "found"} /\ a.url # Absent => InScope(a.url, a.org)'
                      /\ a.at = "refused" => LeadsTo(a.url)' \cap Visible(a.org)' = {}
    BY <1>3 DEF AskingRows
  <2>1. ASSUME a.at \in {"found", "siteless"}
        PROVE  /\ named'[a.link] # Absent
               /\ named'[a.link].org = a.org /\ named'[a.link].code = a.code
    BY <1>3, <1>4, <2>1 DEF ShortInv, AskingFields, AskingRows
  <2>2. ASSUME a.at \in {"looking", "found"}, a.url # Absent
        PROVE  InScope(a.url, a.org)'
    BY <1>3, <1>4, <2>2 DEF ShortInv, AskingRows, InScope
  <2>3. ASSUME a.at = "refused"
        PROVE  LeadsTo(a.url)' \cap Visible(a.org)' = {}
    <3>1. a.url # Absent /\ a.url.code = a.code /\ LeadsTo(a.url) \cap Visible(a.org) = {}
      BY <1>3, <1>4, <2>3 DEF ShortInv, AskingFields, AskingRows
    <3>2. ASSUME NEW l \in LeadsTo(a.url)', l \in Visible(a.org)'
          PROVE  l \in LeadsTo(a.url) \cap Visible(a.org)
      <4>1. /\ l \in LinkIds \ Unseen /\ named'[l] # Absent /\ named'[l].org = a.org
            /\ named'[l].code = a.code /\ URLScope(a.url)' \cap {Absent, named'[l].org} # {}
        BY <3>1, <3>2 DEF LeadsTo, GetByCode, Visible
      <4> QED BY <1>4, <3>1, <4>1 DEF LeadsTo, GetByCode, Visible
    <3> QED BY <3>1, <3>2
  <2> QED BY <2>1, <2>2, <2>3
<1>7. HeldRow'
  <2> SUFFICES ASSUME held' # Absent
               PROVE  /\ named'[k.link] # Absent /\ named'[k.link].code = k.url.code
                      /\ InScope(k.url, named[k.link].org)'
    BY <1>2 DEF HeldRow, InScope
  <2>1. k # Absent /\ k = held /\ named'[k.link] = named[k.link] /\ URLScope(k.url)' = URLScope(k.url)
    BY <1>2
  <2> QED BY <2>1 DEF ShortInv, HeldRow, InScope
<1>8. ShortTypeOK'
  BY <1>2, <1>3 DEF ShortInv, ShortTypeOK, AskingRecord
<1> QED BY <1>3, <1>5, <1>6, <1>7, <1>8 DEF ShortInv

\* What others change of the rows meanwhile.
LEMMA RowsChangeKeeps ==
  ASSUME ShortInv, RowsChange
  PROVE  ShortInv'
<1>1. ASSUME NEW l \in LinkIds, NEW c \in Words, SetAlias(l, c)
      PROVE  ShortInv'
  <2>1. named' \in [LinkIds -> [org : Tenants, code : Words] \cup {Absent}]
    BY <1>1 DEF ShortInv, ShortTypeOK, SetAlias
  <2>2. CodesAreUnique'
    BY <1>1 DEF ShortInv, ShortTypeOK, SetAlias, Free, GetByCode, CodesAreUnique
  <2> QED BY <1>1, <2>1, <2>2, MeanwhileKeeps DEF SetAlias, ShortInv, ShortTypeOK
<1>2. ASSUME NEW l \in LinkIds, NEW c \in Words, NEW o \in Tenants, CreateNamed(l, o, c)
      PROVE  ShortInv'
  <2>1. named' \in [LinkIds -> [org : Tenants, code : Words] \cup {Absent}]
    BY <1>2 DEF ShortInv, ShortTypeOK, CreateNamed
  <2>2. CodesAreUnique'
    BY <1>2 DEF ShortInv, ShortTypeOK, CreateNamed, Free, GetByCode, CodesAreUnique
  <2> QED BY <1>2, <2>1, <2>2, MeanwhileKeeps DEF CreateNamed, ShortInv, ShortTypeOK
<1>3. ASSUME NEW h \in Sites, ChangeSite(h) \/ MakeSitePrimary(h)
      PROVE  ShortInv'
  <2>1. ASSUME ChangeSite(h)
        PROVE  site' \in [Sites -> SiteRow \cup {Absent}]
    <3>1. PICK row \in SiteRowsAfter(site[h]) : site' = [site EXCEPT ![h] = row]
      BY <2>1 DEF ChangeSite
    <3>2. site \in [Sites -> SiteRow \cup {Absent}] /\ site[h] \in SiteRow \cup {Absent}
      BY DEF ShortInv, ShortTypeOK
    <3>3. row \in SiteRow \cup {Absent}
      <4>1. CASE site[h] = Absent
        BY <4>1 DEF SiteRowsAfter, SiteRow
      <4>2. CASE site[h] # Absent
        BY <3>2, <4>2 DEF SiteRowsAfter, SiteRow
      <4> QED BY <4>1, <4>2
    <3> QED BY <3>1, <3>2, <3>3
  <2>2. ASSUME MakeSitePrimary(h)
        PROVE  site' \in [Sites -> SiteRow \cup {Absent}]
    BY <2>2 DEF ShortInv, ShortTypeOK, MakeSitePrimary, Swapped, SiteRow
  <2>3. UNCHANGED <<named, header>> /\ Meanwhile
    BY <1>3 DEF ChangeSite, MakeSitePrimary
  <2> QED BY <1>3, <2>1, <2>2, <2>3, MeanwhileKeeps DEF ShortInv, ShortTypeOK, CodesAreUnique
<1>4. ASSUME NEW p \in Headers, ChangeHeader(p) \/ MakeHeaderPrimary(p)
      PROVE  ShortInv'
  <2>1. ASSUME ChangeHeader(p)
        PROVE  header' \in [Headers -> HeaderRow \cup {Absent}]
    <3>1. PICK row \in HeaderRowsAfter(header[p]) : header' = [header EXCEPT ![p] = row]
      BY <2>1 DEF ChangeHeader
    <3>2. header \in [Headers -> HeaderRow \cup {Absent}] /\ header[p] \in HeaderRow \cup {Absent}
      BY DEF ShortInv, ShortTypeOK
    <3>3. row \in HeaderRow \cup {Absent}
      <4>1. CASE header[p] = Absent
        BY <4>1 DEF HeaderRowsAfter, HeaderRow
      <4>2. CASE header[p] # Absent
        BY <3>2, <4>2 DEF HeaderRowsAfter, HeaderRow
      <4> QED BY <4>1, <4>2
    <3> QED BY <3>1, <3>2, <3>3
  <2>2. ASSUME MakeHeaderPrimary(p)
        PROVE  header' \in [Headers -> HeaderRow \cup {Absent}]
    BY <2>2 DEF ShortInv, ShortTypeOK, MakeHeaderPrimary, Swapped, HeaderRow
  <2>3. UNCHANGED <<named, site>> /\ Meanwhile
    BY <1>4 DEF ChangeHeader, MakeHeaderPrimary
  <2> QED BY <1>4, <2>1, <2>2, <2>3, MeanwhileKeeps DEF ShortInv, ShortTypeOK, CodesAreUnique
<1> QED BY <1>1, <1>2, <1>3, <1>4 DEF RowsChange

\* A step of another component.
LEMMA ShortIdles ==
  ASSUME ShortInv, UNCHANGED shortVars
  PROVE  ShortInv'
<1>1. UNCHANGED <<tables, held>> /\ asking' = asking
  BY DEF shortVars, tables
<1>2. asking' \in AskingRecord /\ AskingFields'
  BY <1>1 DEF ShortInv, AskingRecord, AskingFields
<1>3. AskingRows'
  <2> DEFINE url == asking.url
             o == asking.org
  <2>1. InScope(url, o)' <=> InScope(url, o)
    BY <1>1 DEF tables, InScope, URLScope, SiteScope
  <2>2. LeadsTo(url)' = LeadsTo(url) /\ Visible(o)' = Visible(o)
    BY <1>1 DEF tables, LeadsTo, GetByCode, Visible, URLScope, SiteScope
  <2> QED BY <1>1, <2>1, <2>2 DEF ShortInv, AskingRows, tables
<1> QED BY <1>1, <1>2, <1>3, ReadingKeeps

\* The strengthened invariant holds in every state.
THEOREM ShortInvariant == ShortSpec => []ShortInv
<1>1. ASSUME ShortInv, ShortNext
      PROVE  ShortInv'
  BY <1>1, ShowKeeps, SubmitKeeps, ScopeKeeps, CodeKeeps, RefusedKeeps, DisplaySiteKeeps,
     DisplayHeaderKeeps, RowsChangeKeeps DEF ShortNext, HandlerStep
<1> QED BY <1>1, ShortStart, ShortIdles, PTL DEF ShortSpec

\* What the answers display, what a visit leads to and what a submission is answered
\* with agree for any number of orgs, domains, prefixes, codes and links, whatever
\* happens to their rows between the reads of a handler.
THEOREM ShortAgree == ShortSpec => []ShortURLsAgree
BY ShortInvariant, ShortAgrees, PTL
=============================================================================
