------------------------------- MODULE FeedList -------------------------------
(***************************************************************************)
(* The scanner's blocklist feeds, kept in the memory of the process: calls *)
(* of Refresh (the startup goroutine, cron ticks) fetch one feed after the *)
(* other and replace what the list held of it, while scans read the list.  *)
(* The verdict of the whole pipeline is the feeds' and Web Risk's: a       *)
(* destination here has passed the syntactic layer, which never changes    *)
(* its mind.                                                               *)
(***************************************************************************)
EXTENDS Naturals

CONSTANTS
  Pages,      \* destination URLs without their utm_ parameters
  Taggings,   \* whether the creator appended UTM values: a set of Booleans
  HostLines,  \* pages whose host some feed may list, as a host line
  UrlLines,   \* pages that some feed may list as a URL line
  NumFeeds,   \* len(feedURLs)
  Refreshers, \* calls of Refresh under way at once
  Risky       \* pages that Web Risk flags when it answers

ASSUME FeedListAssumption ==
  /\ Taggings \subseteq BOOLEAN
  /\ HostLines \cup UrlLines \subseteq Pages
  /\ NumFeeds \in Nat
  /\ Risky \subseteq Pages

VARIABLES
  upstream, \* upstream[f]: what the mirror of feed f serves
  feeds,    \* feeds[f]: what the list holds of feed f
  refresh   \* refresh[r]: the feed that call r has come to, and its answer

feedVars == <<upstream, feeds, refresh>>

Feeds == 1 .. NumFeeds

Entries == [kind : {"host"}, page : HostLines] \cup [kind : {"url"}, page : UrlLines]

Destinations == [page : Pages, tagged : Taggings]

-----------------------------------------------------------------------------
(***************************************************************************)
(* Scanning.                                                               *)
(***************************************************************************)
\* A host line covers every URL of the host; a URL line only the URL without
\* parameters, which is not what a link with UTM values has stored.
Matches(e, d) == e.page = d.page /\ (e.kind = "host" \/ ~d.tagged)

Listed(d) == \E f \in Feeds : \E e \in feeds[f] : Matches(e, d)

\* The pipeline's verdict.  Web Risk fails open, so it may miss what it would flag.
MayFlag(d) == Listed(d) \/ d.page \in Risky

MayAllow(d) == ~Listed(d)

-----------------------------------------------------------------------------
(***************************************************************************)
(* Refreshing.                                                             *)
(***************************************************************************)
Refresh == [feed : 0 .. NumFeeds, fetched : BOOLEAN, answer : SUBSET Entries]

NotRefreshing == [feed |-> 0, fetched |-> FALSE, answer |-> {}]

\* The loop over feedURLs.
NextFeed(r) ==
  refresh' = [refresh EXCEPT ![r] =
    IF @.feed = NumFeeds THEN NotRefreshing
    ELSE [NotRefreshing EXCEPT !.feed = refresh[r].feed + 1]]

\* The publisher of a feed adds or removes a line.
Publish(f) ==
  /\ \E e \in Entries :
       upstream' = [upstream EXCEPT ![f] = IF e \in @ THEN @ \ {e} ELSE @ \cup {e}]
  /\ UNCHANGED <<feeds, refresh>>

RefreshStart(r) ==
  /\ refresh[r].feed = 0
  /\ NextFeed(r)
  /\ UNCHANGED <<upstream, feeds>>

\* No answer, or not HTTP 200: the list keeps what it had.
FetchFails(r) ==
  /\ refresh[r].feed # 0
  /\ ~refresh[r].fetched
  /\ NextFeed(r)
  /\ UNCHANGED <<upstream, feeds>>

\* HTTP 200.  A body that breaks off, or a line that is too long, ends the parse with
\* the lines before it and without an error.
FetchAnswers(r) ==
  /\ refresh[r].feed # 0
  /\ ~refresh[r].fetched
  /\ \E part \in SUBSET upstream[refresh[r].feed] :
       refresh' = [refresh EXCEPT ![r].fetched = TRUE, ![r].answer = part]
  /\ UNCHANGED <<upstream, feeds>>

StoreFeed(r) ==
  /\ refresh[r].fetched
  /\ feeds' = [feeds EXCEPT ![refresh[r].feed] = refresh[r].answer]
  /\ NextFeed(r)
  /\ UNCHANGED upstream

\* The process stops and starts again: the list is empty until a feed is stored.
ForgetFeeds ==
  /\ feeds' = [f \in Feeds |-> {}]
  /\ refresh' = [r \in Refreshers |-> NotRefreshing]
  /\ UNCHANGED upstream

FeedInit ==
  /\ upstream = [f \in Feeds |-> {}]
  /\ feeds = [f \in Feeds |-> {}]
  /\ refresh = [r \in Refreshers |-> NotRefreshing]

FeedNext ==
  \/ \E f \in Feeds : Publish(f)
  \/ \E r \in Refreshers :
       RefreshStart(r) \/ FetchFails(r) \/ FetchAnswers(r) \/ StoreFeed(r)

FeedTypeOK ==
  /\ upstream \in [Feeds -> SUBSET Entries]
  /\ feeds \in [Feeds -> SUBSET Entries]
  /\ refresh \in [Refreshers -> Refresh]

=============================================================================
