----------------------------- MODULE Discovery -----------------------------
(***************************************************************************)
(* A renter scrolls through the feed or a search: package discovery and    *)
(* the hook useDiscovery of the mobile app.                                *)
(*                                                                         *)
(* A page is queried by id and then enriched, listing by listing: those of *)
(* hosts that let too many requests expire are left out, and those beyond  *)
(* the drive time asked for.  The rest is sorted by rank, and the id that  *)
(* happens to come last is the cursor of the next page.  Meanwhile         *)
(* listings come and go, and so do the statistics of their hosts.          *)
(***************************************************************************)
EXTENDS Naturals, FiniteSets

CONSTANTS
  Hosts,
  MaxListings, \* bound on the ids, which grow with the time of creation
  Limit,       \* "limit": listings on a page
  Far,         \* listings whose cell has a drive time beyond what the renter asks for, if he does
  MaxRequests  \* bound on the transactions of a host

DiscoveryAssumption == MaxListings \in Nat /\ Limit \in Nat \ {0} /\ MaxRequests \in Nat

VARIABLES
  owner,    \* owner[l]: the host of listing l
  active,   \* listings that are ACTIVE, within the radius and match the query
  requests, \* requests[h]: transactions of the host, and those that were auto-declined
  scroll,   \* the request under way, and what the app has got so far
  steady    \* history: listings that were there for the renter since the scroll began: active,
            \* near, and of a host whose statistics could be read and kept him in

vars == <<owner, active, requests, scroll, steady>>

Listings == 1 .. MaxListings
NewScroll == [at |-> "query", cursor |-> 0, found |-> {}, left |-> {}, kept |-> {}, shown |-> {},
              emptied |-> FALSE]

TypeOK ==
  /\ owner \in [Listings -> Hosts] /\ active \subseteq Listings
  /\ requests \in [Hosts -> [all : 0 .. MaxRequests, expired : 0 .. MaxRequests]]
  /\ scroll \in [at : {"away", "query", "enrich", "end"}, cursor : 0 .. MaxListings,
                 found : SUBSET Listings, left : SUBSET Listings, kept : SUBSET Listings,
                 shown : SUBSET Listings, emptied : BOOLEAN]
  /\ scroll.left \cup scroll.kept \subseteq scroll.found
  /\ steady \subseteq active \ Far

\* A host without transactions counts as one who answers half of them.
ResponseRate(r) == IF r.all = 0 THEN 50 ELSE (100 * (r.all - r.expired)) \div r.all
Responsive(h) == ResponseRate(requests[h]) >= 30

Init ==
  /\ owner \in [Listings -> Hosts] /\ active \in SUBSET Listings
  /\ requests = [h \in Hosts |-> [all |-> 0, expired |-> 0]]
  /\ scroll = [NewScroll EXCEPT !.at = "away"]
  /\ steady = {}

-----------------------------------------------------------------------------
(* What goes on meanwhile.                                                 *)

\* An operator activates a listing, which may be an old one, or takes it off.
Publish(l) ==
  /\ l \notin active
  /\ active' = active \cup {l}
  /\ UNCHANGED <<owner, requests, scroll, steady>>

Withdraw(l) ==
  /\ l \in active
  /\ active' = active \ {l}
  /\ steady' = steady \ {l}
  /\ UNCHANGED <<owner, requests, scroll>>

\* A transaction more.
Book(h) ==
  /\ requests[h].all < MaxRequests
  /\ requests' = [requests EXCEPT ![h].all = @ + 1]
  /\ UNCHANGED <<owner, active, scroll, steady>>

AutoDecline(h) ==
  /\ requests[h].expired < requests[h].all
  /\ requests' = [requests EXCEPT ![h].expired = @ + 1]
  /\ steady' = {l \in steady : ResponseRate(requests'[owner[l]]) >= 30}
  /\ UNCHANGED <<owner, active, scroll>>

-----------------------------------------------------------------------------
(* The scroll.                                                             *)

Open ==
  /\ scroll.at \in {"away", "end"}
  /\ scroll' = NewScroll
  /\ steady' = {l \in active \ Far : Responsive(owner[l])}
  /\ UNCHANGED <<owner, active, requests>>

Below(cursor) == {l \in active : cursor = 0 \/ l < cursor}

\* Slip: the page begins with the oldest, though the cursor goes down from the newest.
PageFromOldest(cursor) == {l \in Below(cursor) : Cardinality({k \in Below(cursor) : k < l}) < Limit}

\* The newest ones below the cursor.
Page(cursor) == {l \in Below(cursor) : Cardinality({k \in Below(cursor) : k > l}) < Limit}

Query ==
  /\ scroll.at = "query"
  /\ scroll' = [scroll EXCEPT !.at = "enrich", !.found = Page(scroll.cursor),
                              !.left = Page(scroll.cursor), !.kept = {}]
  /\ UNCHANGED <<owner, active, requests, steady>>

\* Without an answer from the routing service everything is near, and one that is cached is
\* that of another listing of the same cell, about 1 km wide, in the listing's place.
Estimate(l) == {"no drive", "short drive"} \cup IF l \in Far THEN {"long drive"} ELSE {}

\* The listings of a page one after the other.
Turn(l) == l \in scroll.left /\ \A k \in scroll.left : k <= l

Enrich(l) ==
  /\ Turn(l)
  /\ \E drive \in Estimate(l) :
       scroll' = [scroll EXCEPT !.left = @ \ {l},
                                !.kept = IF Responsive(owner[l]) /\ drive # "long drive"
                                         THEN @ \cup {l} ELSE @]
  /\ UNCHANGED <<owner, active, requests, steady>>

\* The statistics of the host cannot be read: the listing is left out.
StatsFail(l) ==
  /\ Turn(l)
  /\ scroll' = [scroll EXCEPT !.left = @ \ {l}]
  /\ steady' = steady \ {l}
  /\ UNCHANGED <<owner, active, requests>>

\* Sorted by rank, any listing may be the last one; the app takes it for the cursor, and a
\* page without listings for the end.
Rank ==
  /\ scroll.at = "enrich" /\ scroll.left = {}
  /\ IF scroll.kept = {}
     THEN scroll' = [scroll EXCEPT !.at = "end", !.emptied = scroll.found # {}]
     ELSE \E last \in scroll.kept :
            scroll' = [scroll EXCEPT !.at = "query", !.cursor = last,
                                     !.shown = @ \cup scroll.kept]
  /\ UNCHANGED <<owner, active, requests, steady>>

\* The request fails; the app asks for the same page again, or the renter starts afresh.
Fail ==
  /\ scroll.at \in {"query", "enrich"}
  /\ scroll' \in {[scroll EXCEPT !.at = "query", !.found = {}, !.left = {}, !.kept = {}],
                  [NewScroll EXCEPT !.at = "away"]}
  /\ steady' = IF scroll'.at = "away" THEN {} ELSE steady
  /\ UNCHANGED <<owner, active, requests>>

Next ==
  \/ \E l \in Listings : Publish(l) \/ Withdraw(l) \/ Enrich(l) \/ StatsFail(l)
  \/ \E h \in Hosts : Book(h) \/ AutoDecline(h)
  \/ Open \/ Query \/ Rank \/ Fail

Spec == Init /\ [][Next]_vars

-----------------------------------------------------------------------------
(* A property.                                                             *)

\* Whatever comes and goes meanwhile, and whichever listing the rank puts last on a page:
\* when the scroll is at its end, the renter has seen every listing that was there for him
\* all the time, unless a page with nothing but left-out listings looked like the end.
FeedIsWhole == scroll.at = "end" /\ ~ scroll.emptied => steady \subseteq scroll.shown

=============================================================================
