----------------------------- MODULE MC_Office -----------------------------
(* The platform around a rental, on small instances: a listing and its prices (Listing), *)
(* the feed (Discovery), notifications (Notification), messages (Messaging), sessions    *)
(* (Sessions), the accounts with Stripe (Accounts) and the administrator's jobs          *)
(* (Backfill).  They share no state, so one run examines one of them per behaviour:      *)
(* "component" is chosen at the start and the variables of the others rest.              *)
EXTENDS Listing, TLC

CONSTANTS
  DayLength, QuietStarts, QuietEnds, Notices, Tokens, Malformed, MaxChanges, MaxLosses,
  Senders, Readers, MaxMessages, PageSize,
  Devices, Slots, MaxTokens, MaxFaults,
  Setups, MaxObjects, MaxErrors,
  Items, Runners, MaxQueued,
  Hosts, MaxListings, Limit, Far, MaxRequests

VARIABLES component,
  hour, prefs, tokens, gone, notice, records, pushes, changes, losses,
  ids, draft, rows, reader,
  exists, stored, issued, held, call, faults, crowded,
  customer, account, made, setup, cards, charged, undisturbed, errors,
  kind, needs, queued, job, progress, apart,
  owner, active, requests, scroll, steady

notification == <<hour, prefs, tokens, gone, notice, records, pushes, changes, losses>>
messaging == <<ids, draft, rows, reader>>
session == <<exists, stored, issued, held, call, faults, crowded>>
stripe == <<customer, account, made, setup, cards, charged, undisturbed, errors>>
backfill == <<kind, needs, queued, job, progress, apart>>
discovery == <<owner, active, requests, scroll, steady>>
office == <<component, vars, notification, messaging, session, stripe, backfill, discovery>>

N == INSTANCE Notification WITH Devices <- Tokens
M == INSTANCE Messaging
S == INSTANCE Sessions
A == INSTANCE Accounts
B == INSTANCE Backfill WITH run <- job
D == INSTANCE Discovery

\* What Office_proofs proves, it proves from this.
ASSUME OfficeAssumption ==
  /\ ListingAssumption /\ N!NotificationAssumption /\ B!BackfillAssumption
  /\ M!MessagingAssumption /\ S!SessionAssumption /\ A!AccountAssumption /\ D!DiscoveryAssumption

OfficeInit ==
  /\ component \in {"listing", "notification", "messaging", "session", "stripe", "backfill",
                   "discovery"}
  /\ Init /\ M!Init /\ S!Init /\ A!Init
  /\ B!Init /\ (component # "backfill" => kind = "risk" /\ needs = {})
  /\ D!Init /\ (component # "discovery" =>
                   active = {} /\ \A l \in D!Listings : owner[l] = CHOOSE h \in Hosts : TRUE)
  /\ N!Init /\ (component # "notification" => hour = 0 /\ prefs = N!DefaultPreferences)

Offering == component = "listing" /\ Next
  /\ UNCHANGED <<component, notification, messaging, session, stripe, backfill, discovery>>
Notifying == component = "notification" /\ N!Next
  /\ UNCHANGED <<component, vars, messaging, session, stripe, backfill, discovery>>
Talking == component = "messaging" /\ M!Next
  /\ UNCHANGED <<component, vars, notification, session, stripe, backfill, discovery>>
SigningIn == component = "session" /\ S!Next
  /\ UNCHANGED <<component, vars, notification, messaging, stripe, backfill, discovery>>
Paying == component = "stripe" /\ A!Next
  /\ UNCHANGED <<component, vars, notification, messaging, session, backfill, discovery>>
Administering == component = "backfill" /\ B!Next
  /\ UNCHANGED <<component, vars, notification, messaging, session, stripe, discovery>>
Scrolling == component = "discovery" /\ D!Next
  /\ UNCHANGED <<component, vars, notification, messaging, session, stripe, backfill>>

OfficeNext == Offering \/ Notifying \/ Talking \/ SigningIn \/ Paying \/ Administering \/ Scrolling

OfficeSpec == OfficeInit /\ [][OfficeNext]_office

\* The actors of each component are interchangeable; they are called alike so that one
\* permutation serves for all.  The hosts of listings are left apart.
Symmetry == Permutations(Senders)

\* A booking ends what is examined of a listing.
NotBooked == booking = {}

OfficeTypeOK == TypeOK /\ N!TypeOK /\ M!TypeOK /\ S!TypeOK /\ A!TypeOK /\ B!TypeOK
                /\ D!TypeOK

\* A push in time respects the quiet hours (Notification).
QuietIsKept == N!QuietIsKept
\* Who reads a thread reads all of it (Messaging).
ScanIsWhole == M!ScanIsWhole
\* After overlapping logins and refreshes of devices one of them is logged in (Sessions).
OneDeviceIsIn == S!OneDeviceIsIn
\* Damage is charged to the customer that has the user's cards (Accounts).
CardIsTheChargedOnes == A!CardIsTheChargedOnes
\* Who scrolls to the end of the feed has seen all that was there (Discovery).
FeedIsWhole == D!FeedIsWhole
\* The status of a backfill tells how much is left to do (Backfill).
StatusIsTrue == B!StatusIsTrue

=============================================================================
