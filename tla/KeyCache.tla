------------------------------ MODULE KeyCache -------------------------------
(***************************************************************************)
(* auth.jwksCache behind the Google and Microsoft providers, and the       *)
(* providers' use of it: an ID token names the key (kid) that signed it.   *)
(*                                                                         *)
(* key() holds the cache's mutex over the fetch, so a lookup is one step;  *)
(* a fetch ends within a tick (jwksFetchTimeout is below every other       *)
(* duration here).  Why a fetch fails, a network error, a status, a body   *)
(* or a key that does not parse, makes no difference to the cache.         *)
(***************************************************************************)
EXTENDS Clock

CONSTANTS
  Kids,         \* ids of the provider's keys
  Refetch,      \* jwksRefetchCooldown
  CacheTTL,     \* jwksCacheTTL
  CacheHorizon  \* the clock stops here (bound for TLC)

ASSUME KeyCacheAssumption ==
  /\ Refetch \in Nat \ {0}
  /\ CacheTTL \in Nat /\ CacheTTL > Refetch
  /\ CacheHorizon \in Nat

VARIABLES
  published,    \* the key set at the JWKS URL
  cached,       \* keys; a kid stands for its public key
  fetchedAt,    \* fetchedAt; Go's zero time is earlier than any TTL
  publishedTo,  \* history: publishedTo[k]: the last instant k was published
  publishedFrom, \* history: publishedFrom[k]: since when k is published without a gap
  accepted,     \* history: kids resolved since the clock last moved
  unknown       \* history: kids refused since then, though no fetch failed

cacheVars ==
  <<now, published, cached, fetchedAt, publishedTo, publishedFrom, accepted, unknown>>

\* The provider rotates its keys.
Rotate(keys) ==
  /\ keys # published
  /\ published' = keys
  /\ publishedTo' = [k \in Kids |-> IF k \in keys THEN now ELSE publishedTo[k]]
  /\ publishedFrom' = [k \in Kids |-> IF k \in keys \ published THEN now ELSE publishedFrom[k]]
  /\ UNCHANGED <<now, cached, fetchedAt, accepted, unknown>>

\* Mutant: a cached key never goes stale.
CachedForEver(kid) == kid \in cached

CachedFresh(kid) == kid \in cached /\ now - fetchedAt < CacheTTL

\* Mutant: nothing is fetched again until the cached keys are stale.
FetchDueWhenStale == now - fetchedAt >= CacheTTL \/ cached = {}

FetchDue == now - fetchedAt > Refetch \/ cached = {}

Answer(kid) ==
  IF kid \in cached'
    THEN accepted' = accepted \cup {kid} /\ unknown' = unknown
    ELSE unknown' = unknown \cup {kid} /\ accepted' = accepted

LookupCached(kid) ==
  /\ CachedFresh(kid)
  /\ UNCHANGED <<now, published, cached, fetchedAt, publishedTo, publishedFrom>>
  /\ Answer(kid)

\* Unknown or stale, but the last fetch is too recent for another.
LookupTooSoon(kid) ==
  /\ ~CachedFresh(kid) /\ ~FetchDue
  /\ UNCHANGED <<now, published, cached, fetchedAt, publishedTo, publishedFrom>>
  /\ Answer(kid)

\* A key set without a usable key counts as a failure.
LookupFetch(kid) ==
  /\ ~CachedFresh(kid) /\ FetchDue
  /\ published # {}
  /\ cached' = published
  /\ fetchedAt' = now
  /\ UNCHANGED <<now, published, publishedTo, publishedFrom>>
  /\ Answer(kid)

\* Neither the keys nor fetchedAt change, and the token is refused.
LookupFetchFails(kid) ==
  /\ ~CachedFresh(kid) /\ FetchDue
  /\ UNCHANGED <<now, published, cached, fetchedAt, publishedTo, publishedFrom, accepted, unknown>>

CacheTick ==
  /\ Advance(CacheHorizon)
  /\ publishedTo' = [k \in Kids |-> IF k \in published THEN now' ELSE publishedTo[k]]
  /\ accepted' = {}
  /\ unknown' = {}
  /\ UNCHANGED <<published, cached, fetchedAt, publishedFrom>>

CacheInit ==
  /\ published \in SUBSET Kids
  /\ cached = {}
  /\ fetchedAt = -CacheTTL
  /\ publishedTo = [k \in Kids |-> IF k \in published THEN 0 ELSE -CacheTTL]
  /\ publishedFrom = [k \in Kids |-> 0]
  /\ accepted = {}
  /\ unknown = {}

CacheNext ==
  \/ \E keys \in SUBSET Kids : Rotate(keys)
  \/ \E kid \in Kids :
       LookupCached(kid) \/ LookupTooSoon(kid) \/ LookupFetch(kid) \/ LookupFetchFails(kid)
  \/ CacheTick

CacheSpec == now = 0 /\ CacheInit /\ [][CacheNext]_cacheVars

-----------------------------------------------------------------------------
\* The cache holds keys only from its first successful fetch on.
CacheTypeOK ==
  /\ now \in 0 .. CacheHorizon
  /\ cached \subseteq Kids /\ published \subseteq Kids
  /\ fetchedAt \in -CacheTTL .. now
  /\ cached = {} <=> fetchedAt = -CacheTTL

\* A key the provider has withdrawn signs nobody in any more once the lifetime of the
\* cache is over, whatever fails meanwhile: a failed fetch never prolongs a stale key.
WithdrawnKeysExpire == \A k \in accepted : now - publishedTo[k] < CacheTTL

\* Rotation: a key that has been published for longer than the cooldown is refused
\* only in a lookup whose own fetch failed.  The price is that a failed fetch has no
\* cooldown: the next lookup fetches again at once.
RotatedKeysAreFound ==
  \A k \in unknown : k \notin published \/ now - publishedFrom[k] <= Refetch

\* The cache follows the provider both ways, as late as its lifetime and its cooldown.
KeysFollowProvider == WithdrawnKeysExpire /\ RotatedKeysAreFound
=============================================================================
