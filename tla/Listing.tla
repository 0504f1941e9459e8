------------------------------ MODULE Listing ------------------------------
(***************************************************************************)
(* One listing: what its host enters (package listing), what the appraisal *)
(* suggests (package agent/appraisal), and what a renter is quoted and     *)
(* charged for it (package payment).                                       *)
(*                                                                         *)
(* A nullable column is a set of at most one value, {} for NULL.  Titles,  *)
(* descriptions and tags are left out; amounts are in cents.               *)
(***************************************************************************)
EXTENDS Fees

CONSTANTS
  Appraisers,     \* runs of Appraise that may overlap: the River job, the host's requests
  Worths, Prices, \* amounts that hosts and the model may come up with
  ShortOfACent,   \* those whose product with 100 falls short of the whole number
  Durations       \* hours of a booking

ListingAssumption ==
  /\ Worths \subseteq Nat /\ Prices \subseteq Nat /\ Durations \subseteq Nat
  /\ 0 \notin ShortOfACent

VARIABLES
  listing,    \* the row of listings
  photos,     \* whether a listing photo is attached
  appraisal,  \* the row of appraisals
  run,        \* run[a]: how far an appraisal is, and the answer of the model
  host,       \* history: what the host entered last
  quote,      \* the estimate that the renter was shown last
  booking     \* the amounts of the last booking

vars == <<listing, photos, appraisal, run, host, quote, booking>>

NULL == {}
Optional(values) == {NULL} \cup {{v} : v \in values}
Coalesce(first, second) == IF first # NULL THEN first ELSE second
Value(column) == IF column = NULL THEN 0 ELSE CHOOSE v \in column : TRUE

AppraisalStatus == {"PENDING", "COMPLETE", "FAILED"}
\* The model may suggest nothing useful, which is 0 and not NULL.
Answer == {[worth |-> w, hour |-> p, day |-> p] : w \in Worths, p \in Prices}
NoAnswer == [worth |-> 0, hour |-> 0, day |-> 0]
Waiting == [at |-> "idle", answer |-> NoAnswer]
Entries == [hour : Optional(Prices \ {0}), day : Optional(Prices \ {0}), available : BOOLEAN]

TypeOK ==
  /\ listing \in [status : {"none", "PENDING", "ACTIVE"}, hour : Optional(Prices),
                  day : Optional(Prices), declared : Optional(Worths), estimated : Optional(Worths),
                  available : BOOLEAN, appraisal : AppraisalStatus]
  /\ photos \in BOOLEAN
  /\ appraisal \in [status : {"none"} \cup AppraisalStatus, estimated : Optional(Worths)]
  /\ run \in [Appraisers -> [at : {"idle", "found", "photos", "answered", "saved", "failing", "failed"},
                             answer : Answer \cup {NoAnswer}]]
  /\ host \in [hour : Optional(Prices \ {0}), day : Optional(Prices \ {0})]
  /\ \A q \in quote : q \in [value : Nat, hold : Nat, gap : Nat]
  /\ \A b \in booking : b \in [value : Nat, hold : Nat, gap : Nat, reserve : Nat, fee : Nat,
                              platform : Nat, payout : Nat, contribution : Nat]

\* A row without windows counts as available at any time.
Init ==
  /\ listing = [status |-> "none", hour |-> NULL, day |-> NULL, declared |-> NULL,
                estimated |-> NULL, available |-> FALSE, appraisal |-> "PENDING"]
  /\ photos = FALSE
  /\ appraisal = [status |-> "none", estimated |-> NULL]
  /\ run = [a \in Appraisers |-> Waiting]
  /\ host = [hour |-> NULL, day |-> NULL]
  /\ quote = NULL /\ booking = NULL

-----------------------------------------------------------------------------
(* The host.  "available" is whether the row holds the host's windows.     *)

\* The appraisal is queued best-effort; the host can ask for it at any time.
Create ==
  /\ listing.status = "none"
  /\ \E e \in Entries, declared \in Optional(Worths \ {0}) :
       /\ listing' = [listing EXCEPT !.status = "PENDING", !.hour = e.hour, !.day = e.day,
                                     !.declared = declared, !.available = e.available]
       /\ host' = [hour |-> e.hour, day |-> e.day]
  /\ UNCHANGED <<photos, appraisal, run, quote, booking>>

\* What is not sent keeps its value, but windows that are not sent are cleared.
Update ==
  /\ listing.status # "none"
  /\ \E e \in Entries :
       /\ listing' = [listing EXCEPT !.hour = Coalesce(e.hour, @), !.day = Coalesce(e.day, @),
                                     !.available = e.available]
       /\ host' = [hour |-> Coalesce(e.hour, host.hour), day |-> Coalesce(e.day, host.day)]
  /\ UNCHANGED <<photos, appraisal, run, quote, booking>>

AttachMedia ==
  /\ listing.status # "none" /\ ~ photos
  /\ photos' = TRUE
  /\ UNCHANGED <<listing, appraisal, run, host, quote, booking>>

\* No code in the repository makes a listing ACTIVE: someone does it in the database.
Activate ==
  /\ listing.status = "PENDING"
  /\ listing' = [listing EXCEPT !.status = "ACTIVE"]
  /\ UNCHANGED <<photos, appraisal, run, host, quote, booking>>

-----------------------------------------------------------------------------
(* The appraisal.                                                          *)

\* Suggestions fill in what is NULL.
UpdateAppraisalFields(status, worth, hour, day) ==
  listing' = [listing EXCEPT !.appraisal = status, !.estimated = Coalesce(@, worth),
                             !.hour = Coalesce(@, hour), !.day = Coalesce(@, day)]

Goto(a, at) == run' = [run EXCEPT ![a].at = at]
Stop(a) == run' = [run EXCEPT ![a] = Waiting]

\* As the job, or asked for by the host.
AppraiseBegins(a) ==
  /\ run[a].at = "idle" /\ listing.status # "none"
  /\ Goto(a, IF appraisal.status = "none" THEN "found" ELSE "photos")
  /\ UNCHANGED <<listing, photos, appraisal, host, quote, booking>>

\* The unique index refuses a second row for the listing.
AppraiseInserts(a) ==
  /\ run[a].at = "found"
  /\ \/ /\ appraisal.status = "none"
        /\ appraisal' = [appraisal EXCEPT !.status = "PENDING"]
        /\ Goto(a, "photos")
     \/ /\ appraisal.status # "none"
        /\ Stop(a)
        /\ UNCHANGED appraisal
  /\ UNCHANGED <<listing, photos, host, quote, booking>>

\* The photos are read and the model is asked; either may fail.
AppraiseAsks(a) ==
  /\ run[a].at = "photos"
  /\ \/ /\ photos
        /\ \E answer \in Answer : run' = [run EXCEPT ![a] = [at |-> "answered", answer |-> answer]]
     \/ Goto(a, "failing")
  /\ UNCHANGED <<listing, photos, appraisal, host, quote, booking>>

\* Overwrites what an earlier run has saved.
AppraiseSaves(a) ==
  /\ run[a].at = "answered"
  /\ appraisal' = [appraisal EXCEPT !.status = "COMPLETE", !.estimated = {run[a].answer.worth}]
  /\ Goto(a, "saved")
  /\ UNCHANGED <<listing, photos, host, quote, booking>>

\* Best-effort: the job is done although the listing is still PENDING.
AppraiseSuggests(a) ==
  /\ run[a].at = "saved"
  /\ \/ LET answer == run[a].answer
        IN UpdateAppraisalFields("COMPLETE", {answer.worth}, {answer.hour}, {answer.day})
     \/ UNCHANGED listing
  /\ Stop(a)
  /\ UNCHANGED <<photos, appraisal, host, quote, booking>>

\* Either write of markFailed may fail; the job comes again.  A failure also forgets the
\* estimate of an earlier run.
MarkFailed(a) ==
  /\ run[a].at = "failing"
  /\ \/ appraisal' = [appraisal EXCEPT !.status = "FAILED", !.estimated = NULL]
     \/ UNCHANGED appraisal
  /\ Goto(a, "failed")
  /\ UNCHANGED <<listing, photos, host, quote, booking>>

MarkListingFailed(a) ==
  /\ run[a].at = "failed"
  /\ UpdateAppraisalFields("FAILED", NULL, NULL, NULL) \/ UNCHANGED listing
  /\ Stop(a)
  /\ UNCHANGED <<photos, appraisal, host, quote, booking>>

\* The process stops, or the request is cut off; River runs the job again.
AppraiseCrashes(a) ==
  /\ run[a].at # "idle"
  /\ Stop(a)
  /\ UNCHANGED <<listing, photos, appraisal, host, quote, booking>>

-----------------------------------------------------------------------------
(* The renter.                                                             *)

\* dollars * 100, truncated: 19.99 is 1998 cents.
Cents(amount) == IF amount \in ShortOfACent THEN amount - 1 ELSE amount

\* Slip: the estimate comes first.
ItemValueEstimateFirst(row) ==
  IF Value(row.estimated) > 0 THEN Cents(Value(row.estimated)) ELSE Cents(Value(row.declared))

\* The host's declaration first, whatever ReviewOverride said of it.
itemValue(row) ==
  IF Value(row.declared) > 0 THEN Cents(Value(row.declared)) ELSE Cents(Value(row.estimated))

GetHoldEstimate ==
  /\ listing.status = "ACTIVE"
  /\ LET value == itemValue(listing)
         hold == TieredHold(value)
     IN quote' = {[value |-> value, hold |-> hold, gap |-> GuaranteeGap(value, hold)]}
  /\ UNCHANGED <<listing, photos, appraisal, run, host, booking>>

\* Reads the listing again; what was quoted is not looked at.
CreateBooking ==
  /\ listing.status = "ACTIVE"
  /\ \E hours \in Durations :
       booking' = {Amounts(itemValue(listing), Cents(Value(listing.hour)),
                           Cents(Value(listing.day)), hours)}
  /\ UNCHANGED <<listing, photos, appraisal, run, host, quote>>

-----------------------------------------------------------------------------

Appraising(a) ==
  \/ AppraiseBegins(a) \/ AppraiseInserts(a) \/ AppraiseAsks(a) \/ AppraiseSaves(a)
  \/ AppraiseSuggests(a) \/ MarkFailed(a) \/ MarkListingFailed(a) \/ AppraiseCrashes(a)

Next ==
  \/ Create \/ Update \/ AttachMedia \/ Activate
  \/ GetHoldEstimate \/ CreateBooking
  \/ \E a \in Appraisers : Appraising(a)

Spec == Init /\ [][Next]_vars

-----------------------------------------------------------------------------
(* Properties.                                                             *)

\* The amounts of every booking add up (AddsUp in Fees).
AmountsAddUp == \A b \in booking : AddsUp(b)

\* However appraisals overlap with the host's edits and with each other: a price that the
\* host entered is the one in force until the host enters another.
HostPricesStand ==
  /\ host.hour # NULL => listing.hour = host.hour
  /\ host.day # NULL => listing.day = host.day

\* Once a renter was quoted a hold for a listing with a value, a booking holds just that,
\* although it reads the listing again and appraisals and edits go on.
QuoteStands ==
  [][booking' # booking =>
       \A q \in quote : q.value > 0 => \A b \in booking' : b.hold = q.hold /\ b.gap = q.gap]_vars

=============================================================================
