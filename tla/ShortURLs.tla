------------------------------ MODULE ShortURLs ------------------------------
(***************************************************************************)
(* The short URLs of links: which one an answer displays (displayBase),    *)
(* where a visit to it leads (ResolveService.lookup) and what a member who *)
(* submits it for shortening is answered (existingShortURL).  A displayed  *)
(* URL is printed and sent, so it must go on leading to its link.          *)
(*                                                                         *)
(* The handlers only read, one row per statement.  How domains, prefixes   *)
(* and codes come and go is the matter of Domains and Namespace: here a    *)
(* row changes in one step, as the requests of those modules do it. Letter *)
(* case, the throttle and what a visit does with the link are left out.    *)
(***************************************************************************)
EXTENDS Naturals

CONSTANTS
  Tenants,    \* orgs.id
  Sites,      \* hostnames of custom domains
  ShortSite,  \* SHORT_DOMAIN
  Headers,    \* values of brand prefixes
  Words,      \* short codes
  MaxShort,   \* bound: links ever created
  Unseen,     \* links that are PRIVATE to others than the member who asks; they stay so
  Absent      \* no row, no prefix, the global namespace

ASSUME ShortAssumption ==
  /\ MaxShort \in Nat /\ Unseen \subseteq 1 .. MaxShort
  /\ ShortSite \notin Sites
  /\ Absent \notin Tenants \cup Sites \cup Headers \cup Words

VARIABLES
  named,    \* named[l]: org_id and code of link l
  site,     \* site[h]: the domains row of hostname h: its org, whether VERIFIED, is_primary
  header,   \* header[p]: the brand_prefixes row of value p: its org, whether APPROVED, is_primary
  asking,   \* what the one handler has read and where it stands
  held      \* history: a URL that was displayed, and the link it was displayed for

shortVars == <<named, site, header, asking, held>>

LinkIds == 1 .. MaxShort

URLForms == [site : Sites \cup {ShortSite}, header : Headers \cup {Absent}, code : Words]

ASSUME AbsentIsNoURL == Absent \notin URLForms

-----------------------------------------------------------------------------
(***************************************************************************)
(* A visit: the org it is confined to, Absent for none, and the links it   *)
(* may be answered with.                                                   *)
(***************************************************************************)
\* Loopback hosts and requests without a Host are the deployment's too.
IsDeploymentHost(h) == h = ShortSite

SiteScope(h) ==
  IF IsDeploymentHost(h) THEN {Absent}
  ELSE {o \in Tenants : site[h] # Absent /\ site[h].verified /\ site[h].org = o}

URLScope(url) ==
  IF url.header = Absent THEN SiteScope(url.site)
  ELSE {o \in Tenants : /\ SiteScope(url.site) = {Absent}
                        /\ header[url.header] # Absent
                        /\ header[url.header].approved
                        /\ header[url.header].org = o}

GetByCode(c) == {l \in LinkIds : named[l] # Absent /\ named[l].code = c}

LeadsTo(url) ==
  {l \in GetByCode(url.code) : URLScope(url) \cap {Absent, named[l].org} # {}}

-----------------------------------------------------------------------------
(***************************************************************************)
(* The handler: GET of a link, or a URL submitted for shortening, and then *)
(* the display of the link found.                                          *)
(***************************************************************************)
NoAsking == [at |-> "idle", org |-> Absent, url |-> Absent, link |-> Absent, code |-> Absent,
             late |-> FALSE]

AskingStages == {"idle", "scoping", "looking", "found", "siteless", "refused"}

tables == <<named, site, header>>

\* Get is scoped by org, and asks visibleTo.
Visible(o) == {l \in LinkIds \ Unseen : named[l] # Absent /\ named[l].org = o}

ShowLink(o, l) ==
  /\ asking = NoAsking
  /\ l \in Visible(o)
  /\ asking' = [NoAsking EXCEPT !.at = "found", !.org = o, !.link = l, !.code = named[l].code]
  /\ UNCHANGED <<tables, held>>

\* A URL on another host than SHORT_DOMAIN, an org's custom domain included, is a
\* destination like any other.
SubmitURL(o, url) ==
  /\ asking = NoAsking
  /\ url.site = ShortSite
  /\ asking' = [NoAsking EXCEPT !.at = IF url.header = Absent THEN "looking" ELSE "scoping",
                                !.org = o, !.url = url, !.code = url.code]
  /\ UNCHANGED <<tables, held>>

\* Mutant: any org's prefix will do.
AnyApprovedHeader(p, o) == header[p] # Absent /\ header[p].approved

\* The prefix is the org's own, and APPROVED.
OwnHeader(p, o) == header[p] # Absent /\ header[p].org = o /\ header[p].approved

SubmittedScope ==
  /\ asking.at = "scoping"
  /\ asking' = [asking EXCEPT
       !.at = IF OwnHeader(asking.url.header, asking.org) THEN "looking" ELSE "refused"]
  /\ UNCHANGED <<tables, held>>

SubmittedCode ==
  /\ asking.at = "looking"
  /\ LET own == GetByCode(asking.code) \cap Visible(asking.org) IN
       \/ \E l \in own : asking' = [asking EXCEPT !.at = "found", !.link = l]
       \/ own = {} /\ asking' = [asking EXCEPT !.at = "refused"]
  /\ UNCHANGED <<tables, held>>

\* 422: not one of the member's links.
SubmittedRefused ==
  /\ asking.at = "refused"
  /\ asking' = NoAsking
  /\ UNCHANGED <<tables, held>>

-----------------------------------------------------------------------------
\* Mutant: a primary domain is displayed whatever its status.
PrimarySiteAnyStatus(o) == {h \in Sites : site[h] # Absent /\ site[h].org = o /\ site[h].primary}

PrimarySite(o) ==
  {h \in Sites : site[h] # Absent /\ site[h].org = o /\ site[h].primary /\ site[h].verified}

PrimaryHeader(o) ==
  {p \in Headers : header[p] # Absent /\ header[p].org = o /\ header[p].primary /\ header[p].approved}

\* The answer; somebody may keep the URL.  It is wrong from the start when the link
\* was renamed after the handler had read it.
Display(h, p) ==
  LET url == [site |-> h, header |-> p, code |-> asking.code] IN
  /\ asking' = NoAsking
  /\ held' \in {held} \cup
       IF asking.late THEN {} ELSE {[url |-> url, link |-> asking.link]}
  /\ UNCHANGED tables

\* A read that fails counts as finding no domain, and no prefix.
DisplaySite ==
  /\ asking.at = "found"
  /\ \/ \E h \in PrimarySite(asking.org) : Display(h, Absent)
     \/ asking' = [asking EXCEPT !.at = "siteless"] /\ UNCHANGED <<tables, held>>

DisplayHeader ==
  /\ asking.at = "siteless"
  /\ \/ \E p \in PrimaryHeader(asking.org) : Display(ShortSite, p)
     \/ Display(ShortSite, Absent)

-----------------------------------------------------------------------------
(***************************************************************************)
(* The rows change.                                                        *)
(***************************************************************************)
\* What a handler in state a has been asked about: the row of the code, the scope of
\* the URL.
AskedAbout(a) ==
  [link |-> {<<l, named[l]>> : l \in GetByCode(a.code)},
   scope |-> IF a.url = Absent THEN {} ELSE URLScope(a.url)]

Meanwhile ==
  /\ \E a \in {asking} : asking' = [a EXCEPT !.late = @ \/ AskedAbout(a)' # AskedAbout(a)]
  /\ \E k \in {held} :
       held' = IF /\ k # Absent
                  /\ named'[k.link] # named[k.link] \/ URLScope(k.url)' # URLScope(k.url)
               THEN Absent ELSE k

\* The unique key on code.
Free(c) == GetByCode(c) = {}

CreateNamed(l, o, c) ==
  /\ named[l] = Absent /\ \A k \in 1 .. l - 1 : named[k] # Absent
  /\ Free(c)
  /\ named' = [named EXCEPT ![l] = [org |-> o, code |-> c]]
  /\ UNCHANGED <<site, header>>
  /\ Meanwhile

\* The old code is retired, and anybody's again.
SetAlias(l, c) ==
  /\ named[l] # Absent
  /\ Free(c)
  /\ named' = [named EXCEPT ![l].code = c]
  /\ UNCHANGED <<site, header>>
  /\ Meanwhile

SiteRow == [org : Tenants, verified : BOOLEAN, primary : BOOLEAN]

\* Registered, verified, disabled in the database, verified again, deleted.
SiteRowsAfter(row) ==
  IF row = Absent THEN [org : Tenants, verified : {FALSE}, primary : {FALSE}]
  ELSE {Absent} \cup {[row EXCEPT !.verified = b] : b \in BOOLEAN}

ChangeSite(h) ==
  /\ \E row \in SiteRowsAfter(site[h]) \ {site[h]} : site' = [site EXCEPT ![h] = row]
  /\ UNCHANGED <<named, header>>
  /\ Meanwhile

\* The primary row of an org is h and no other.
Swapped(table, h) ==
  [g \in DOMAIN table |->
     IF table[g] # Absent /\ table[g].org = table[h].org
     THEN [table[g] EXCEPT !.primary = (g = h)] ELSE table[g]]

MakeSitePrimary(h) ==
  /\ site[h] # Absent /\ site[h].verified
  /\ site' = Swapped(site, h)
  /\ UNCHANGED <<named, header>>
  /\ Meanwhile

HeaderRow == [org : Tenants, approved : BOOLEAN, primary : BOOLEAN]

\* Requested, approved, revoked, released or withdrawn; a decision clears is_primary.
HeaderRowsAfter(row) ==
  IF row = Absent THEN [org : Tenants, approved : {FALSE}, primary : {FALSE}]
  ELSE {Absent} \cup {[row EXCEPT !.approved = b, !.primary = FALSE] : b \in BOOLEAN}

ChangeHeader(p) ==
  /\ \E row \in HeaderRowsAfter(header[p]) \ {header[p]} : header' = [header EXCEPT ![p] = row]
  /\ UNCHANGED <<named, site>>
  /\ Meanwhile

MakeHeaderPrimary(p) ==
  /\ header[p] # Absent /\ header[p].approved
  /\ header' = Swapped(header, p)
  /\ UNCHANGED <<named, site>>
  /\ Meanwhile

ShortInit ==
  /\ named = [l \in LinkIds |-> Absent]
  /\ site = [h \in Sites |-> Absent]
  /\ header = [p \in Headers |-> Absent]
  /\ asking = NoAsking
  /\ held = Absent

HandlerStep ==
  \/ \E o \in Tenants :
       (\E l \in LinkIds : ShowLink(o, l)) \/ (\E url \in URLForms : SubmitURL(o, url))
  \/ SubmittedScope \/ SubmittedCode \/ SubmittedRefused
  \/ DisplaySite \/ DisplayHeader

RowsChange ==
  \/ \E l \in LinkIds, c \in Words : SetAlias(l, c) \/ \E o \in Tenants : CreateNamed(l, o, c)
  \/ \E h \in Sites : ChangeSite(h) \/ MakeSitePrimary(h)
  \/ \E p \in Headers : ChangeHeader(p) \/ MakeHeaderPrimary(p)

ShortNext == HandlerStep \/ RowsChange

ShortSpec == ShortInit /\ [][ShortNext]_shortVars

-----------------------------------------------------------------------------
\* Types of the rows and of what the handler holds.
ShortTypeOK ==
  /\ named \in [LinkIds -> [org : Tenants, code : Words] \cup {Absent}]
  /\ site \in [Sites -> SiteRow \cup {Absent}]
  /\ header \in [Headers -> HeaderRow \cup {Absent}]
  /\ asking.at \in AskingStages
  /\ held = Absent \/ held \in [url : URLForms, link : LinkIds]

\* A displayed URL leads to its link and to no other, on every host and under every
\* prefix, until the link is renamed or its org loses the domain or the prefix:
\* withShortURL and displayBase build what ResolveService.lookup takes apart.
DisplayedLeadsToItsLink == held # Absent => LeadsTo(held.url) = {held.link}

\* A submitted short URL is answered with the link that a visit to it leads to, and
\* refused only if the member may see no such link, unless a row has changed meanwhile:
\* existingShortURL and ResolveService.lookup read a URL the same way.
SubmittedAsVisited ==
  ~asking.late =>
    /\ asking.at = "found" /\ asking.url # Absent => LeadsTo(asking.url) = {asking.link}
    /\ asking.at = "refused" => LeadsTo(asking.url) \cap Visible(asking.org) = {}

\* Display, visit and submission of a short URL agree.
ShortURLsAgree == DisplayedLeadsToItsLink /\ SubmittedAsVisited
=============================================================================
