--------------------------- MODULE Office_proofs ---------------------------
(***************************************************************************)
(* Theorems about the platform around a rental, as MC_Office composes it,  *)
(* for any instance: about Fees and Listing, Sessions, Accounts,           *)
(* Discovery, QuietHours and Notification, and Backfill.                   *)
(***************************************************************************)
EXTENDS MC_Office, RowOrder, TLAPS, WellFoundedInduction, FiniteSetTheorems, SequenceTheorems

\* A step of the office is a step of one component and leaves the others alone.
LEMMA StepsApart ==
  ASSUME [OfficeNext]_office
  PROVE  /\ [Next]_vars /\ [N!Next]_notification /\ [M!Next]_messaging /\ [S!Next]_session
         /\ [A!Next]_stripe /\ [B!Next]_backfill /\ [D!Next]_discovery
  <1>1. CASE UNCHANGED office
    BY <1>1 DEF office
  <1>2. CASE OfficeNext
    BY <1>2 DEF OfficeNext, Offering, Notifying, Talking, SigningIn, Paying, Administering, Scrolling
  <1> QED BY <1>1, <1>2

LEMMA BeginApart ==
  OfficeInit => Init /\ N!Init /\ M!Init /\ S!Init /\ A!Init /\ B!Init /\ D!Init
  BY DEF OfficeInit

-----------------------------------------------------------------------------
\* A share of an amount is between nothing and the whole of it (the basis of every split
\* in hold.go).
LEMMA ShareIsPart ==
  ASSUME NEW amount \in Nat, NEW bps \in BPS
  PROVE  Share(amount, bps) \in Nat /\ Share(amount, bps) <= amount
PROOF
  <1>1. amount * bps \in Nat /\ amount * bps <= amount * 10000
    BY DEF BPS
  <1> DEFINE p == amount * bps
  <1>2. p \in Nat /\ p <= amount * 10000
    BY <1>1
  <1> HIDE DEF p
  <1>3. p \div 10000 \in Nat /\ p \div 10000 <= amount
    BY <1>2
  <1> QED BY <1>3 DEF Share, p

\* TieredHold: the hold never exceeds the item's value nor the ceiling, and with the gap
\* that the guarantee fund covers it is exactly that value.
THEOREM HoldCoversWithGap ==
  ASSUME NEW value \in Nat
  PROVE  /\ TieredHold(value) \in Nat /\ TieredHold(value) <= 132500
         /\ TieredHold(value) + GuaranteeGap(value, TieredHold(value)) = value
BY DEF TieredHold, GuaranteeGap

\* TieredHold: a more valuable item is never held for less.
THEOREM HoldGrowsWithValue ==
  ASSUME NEW low \in Nat, NEW high \in Nat, low <= high
  PROVE  TieredHold(low) <= TieredHold(high)
BY DEF TieredHold

\* Each rate of the configuration is such a share.
LEMMA PartsOfFees ==
  ASSUME NEW amount \in Nat
  PROVE  /\ PlatformFee(amount) \in Nat /\ PlatformFee(amount) <= amount
         /\ GuaranteeFundContribution(amount) <= amount
         /\ DamageReserve(amount) <= amount
PROOF
  <1>1. \A bps \in BPS : Share(amount, bps) \in Nat /\ Share(amount, bps) <= amount
    BY ShareIsPart, Zenon
  <1> QED BY <1>1, FeesAssumption, Zenon DEF PlatformFee, GuaranteeFundContribution, DamageReserve

\* The late fee's cap and the damage reserve are cut from one hold and do not overlap.
LEMMA LateFeesLeaveReserve ==
  ASSUME NEW hold \in Nat, DamageReserveRate < 10000
  PROVE  DamageReserve(hold) + MaxLateFeeCap(hold) <= hold
PROOF
  <1>1. CASE DamageReserveRate = 0
    <2>1. hold * DamageReserveRate = 0
      BY <1>1
    <2>2. DamageReserve(hold) = 0
      BY <2>1 DEF DamageReserve, Share
    <2>3. MaxLateFeeCap(hold) = Share(hold, 6000)
      BY <1>1 DEF MaxLateFeeCap
    <2>4. 6000 \in BPS
      BY DEF BPS
    <2>5. MaxLateFeeCap(hold) \in Nat /\ MaxLateFeeCap(hold) <= hold
      BY <2>3, <2>4, ShareIsPart
    <2> QED BY <2>2, <2>5
  <1>2. CASE DamageReserveRate \in 1 .. 9999
    <2> DEFINE p == hold * DamageReserveRate
               q == hold * (10000 - DamageReserveRate)
    <2>1. p \in Nat /\ q \in Nat /\ p + q = hold * 10000
      BY <1>2
    <2>2. MaxLateFeeCap(hold) = q \div 10000 /\ DamageReserve(hold) = p \div 10000
      <3>1. (IF DamageReserveRate \in 1 .. 9999 THEN DamageReserveRate ELSE 4000) = DamageReserveRate
        BY <1>2
      <3>2. MaxLateFeeCap(hold) = Share(hold, 10000 - DamageReserveRate)
        BY <3>1 DEF MaxLateFeeCap
      <3>3. Share(hold, 10000 - DamageReserveRate) = q \div 10000
        BY DEF Share
      <3>4. DamageReserve(hold) = p \div 10000
        BY DEF DamageReserve, Share
      <3> QED BY <3>2, <3>3, <3>4
    <2> HIDE DEF p, q
    <2>3. p \div 10000 + q \div 10000 <= hold
      BY <2>1
    <2> QED BY <2>2, <2>3
  <1>3. DamageReserveRate \in 0 .. 9999
    <2>1. DamageReserveRate \in BPS
      BY FeesAssumption
    <2> QED BY <2>1 DEF BPS
  <1> QED BY <1>1, <1>2, <1>3

\* CreateBooking: whatever the prices and the duration, the amounts it stores add up.
THEOREM BookingAddsUp ==
  ASSUME NEW value \in Nat, NEW perHour \in Nat, NEW perDay \in Nat, NEW hours \in Nat
  PROVE  AddsUp(Amounts(value, perHour, perDay, hours))
PROOF
  <1> DEFINE hold == TieredHold(value)
             fee == RentalFee(perHour, perDay, hours)
             platform == PlatformFee(fee)
  <1>1. hold \in Nat /\ hold <= 132500 /\ hold + GuaranteeGap(value, hold) = value
    BY HoldCoversWithGap
  <1>2. DamageReserve(hold) <= hold
    BY <1>1, PartsOfFees
  <1>3. fee \in Nat
    <2>1. hours \div 24 \in Nat
      OBVIOUS
    <2>2. (IF hours = 0 THEN 1 ELSE hours) \in Nat
      OBVIOUS
    <2> DEFINE days == hours \div 24
               paid == IF hours = 0 THEN 1 ELSE hours
    <2>3. \A a, b \in Nat : a * b \in Nat
      OBVIOUS
    <2>4. perDay * days \in Nat /\ perHour * paid \in Nat
      BY <2>1, <2>2, <2>3
    <2> QED BY <2>4 DEF RentalFee
  <1>4. platform \in Nat /\ platform <= fee
    BY <1>3, PartsOfFees
  <1>5. GuaranteeFundContribution(platform) <= platform
    BY <1>4, PartsOfFees
  <1>6. HostPayout(fee, platform) + platform = fee
    BY <1>3, <1>4 DEF HostPayout
  <1>7. DamageReserveRate < 10000 => DamageReserve(hold) + MaxLateFeeCap(hold) <= hold
    BY <1>1, LateFeesLeaveReserve
  <1> HIDE DEF hold, fee, platform
  <1>8. Amounts(value, perHour, perDay, hours) =
          [value |-> value, hold |-> hold, gap |-> GuaranteeGap(value, hold),
           reserve |-> DamageReserve(hold), fee |-> fee, platform |-> platform,
           payout |-> HostPayout(fee, platform),
           contribution |-> GuaranteeFundContribution(platform)]
    BY DEF Amounts, hold, fee, platform
  <1> QED BY <1>1, <1>2, <1>4, <1>5, <1>6, <1>7, <1>8 DEF AddsUp

-----------------------------------------------------------------------------

Rows == [status : {"none", "PENDING", "ACTIVE"}, hour : Optional(Prices), day : Optional(Prices),
         declared : Optional(Worths), estimated : Optional(Worths), available : BOOLEAN,
         appraisal : AppraisalStatus]

\* The inductive invariant: what the row and a pending suggestion hold are amounts, and the
\* host's prices are in force.
ListingInv ==
  /\ listing \in Rows
  /\ host \in [hour : Optional(Prices), day : Optional(Prices)]
  /\ run \in [Appraisers -> [at : {"idle", "found", "photos", "answered", "saved", "failing", "failed"},
                              answer : Answer \cup {NoAnswer}]]
  /\ \A a \in Appraisers : run[a].at \in {"answered", "saved"} => run[a].answer \in Answer
  /\ AmountsAddUp /\ HostPricesStand

\* Reading a nullable column of amounts, in cents (itemValue, listingPriceCents).
LEMMA ColumnsAreAmounts ==
  ASSUME ListingAssumption, NEW column \in Optional(Worths) \cup Optional(Prices)
  PROVE  Value(column) \in Nat /\ Cents(Value(column)) \in Nat
  <1>1. Value(column) \in Nat
    BY DEF ListingAssumption, Optional, Value, NULL
  <1>2. Value(column) \in ShortOfACent => Value(column) # 0
    BY DEF ListingAssumption
  <1> QED BY <1>1, <1>2 DEF Cents

LEMMA ListingInit == Init => ListingInv
  BY DEF Init, ListingInv, Rows, Optional, NULL, AppraisalStatus, Waiting, AmountsAddUp, HostPricesStand

LEMMA CoalesceIsOptional ==
  ASSUME NEW of, NEW first \in Optional(of), NEW second \in Optional(of)
  PROVE  Coalesce(first, second) \in Optional(of) /\ (first # NULL => Coalesce(first, second) = first)
  BY DEF Coalesce

\* Suggestions and failures never touch a price that is there.
LEMMA SuggestionsKeepPrices ==
  ASSUME ListingInv, NEW status \in AppraisalStatus, NEW worth \in Optional(Worths),
         NEW perHour \in Optional(Prices), NEW perDay \in Optional(Prices),
         UpdateAppraisalFields(status, worth, perHour, perDay), UNCHANGED <<host, booking>>
  PROVE  listing' \in Rows /\ AmountsAddUp' /\ HostPricesStand'
  <1>1. /\ listing'.hour = Coalesce(listing.hour, perHour) /\ listing'.day = Coalesce(listing.day, perDay)
        /\ listing' \in Rows
    BY CoalesceIsOptional DEF UpdateAppraisalFields, ListingInv, Rows
  <1>2. HostPricesStand'
    BY <1>1 DEF ListingInv, HostPricesStand, Coalesce
  <1> QED BY <1>1, <1>2 DEF ListingInv, AmountsAddUp

LEMMA AppraisingKeepsListing ==
  ASSUME ListingInv, NEW a \in Appraisers, Appraising(a)
  PROVE  ListingInv'
  <1> USE DEF Goto, Stop, Waiting
  <1>1. CASE AppraiseBegins(a) \/ AppraiseInserts(a) \/ AppraiseCrashes(a)
    BY <1>1 DEF AppraiseBegins, AppraiseInserts, AppraiseCrashes, ListingInv, AmountsAddUp, HostPricesStand
  <1>2. CASE AppraiseAsks(a)
    BY <1>2 DEF AppraiseAsks, ListingInv, AmountsAddUp, HostPricesStand
  <1>3. CASE AppraiseSaves(a)
    BY <1>3 DEF AppraiseSaves, ListingInv, AmountsAddUp, HostPricesStand
  <1>4. CASE AppraiseSuggests(a)
    <2>1. run[a].answer \in Answer
      BY <1>4 DEF AppraiseSuggests, ListingInv
    <2>2. /\ {run[a].answer.worth} \in Optional(Worths)
          /\ {run[a].answer.hour} \in Optional(Prices) /\ {run[a].answer.day} \in Optional(Prices)
      BY <2>1 DEF Answer, Optional
    <2>3. listing' \in Rows /\ AmountsAddUp' /\ HostPricesStand'
      <3>1. CASE UNCHANGED listing
        BY <1>4, <3>1 DEF AppraiseSuggests, ListingInv, AmountsAddUp, HostPricesStand
      <3>2. CASE UpdateAppraisalFields("COMPLETE", {run[a].answer.worth}, {run[a].answer.hour},
                                       {run[a].answer.day})
        BY <1>4, <2>2, <3>2, SuggestionsKeepPrices DEF AppraiseSuggests, AppraisalStatus
      <3> QED BY <1>4, <3>1, <3>2 DEF AppraiseSuggests
    <2> QED BY <1>4, <2>3 DEF AppraiseSuggests, ListingInv
  <1>5. CASE MarkFailed(a)
    BY <1>5 DEF MarkFailed, ListingInv, AmountsAddUp, HostPricesStand
  <1>6. CASE MarkListingFailed(a)
    <2>1. NULL \in Optional(Worths) /\ NULL \in Optional(Prices)
      BY DEF Optional
    <2>2. listing' \in Rows /\ AmountsAddUp' /\ HostPricesStand'
      <3>1. CASE UNCHANGED listing
        BY <1>6, <3>1 DEF MarkListingFailed, ListingInv, AmountsAddUp, HostPricesStand
      <3>2. CASE UpdateAppraisalFields("FAILED", NULL, NULL, NULL)
        BY <1>6, <2>1, <3>2, SuggestionsKeepPrices DEF MarkListingFailed, AppraisalStatus
      <3> QED BY <1>6, <3>1, <3>2 DEF MarkListingFailed
    <2> QED BY <1>6, <2>2 DEF MarkListingFailed, ListingInv
  <1> QED BY <1>1, <1>2, <1>3, <1>4, <1>5, <1>6 DEF Appraising

LEMMA ListingNext == ASSUME ListingAssumption PROVE ListingInv /\ [Next]_vars => ListingInv'
  <1> SUFFICES ASSUME ListingInv, [Next]_vars PROVE ListingInv'
    OBVIOUS
  <1>1. CASE Create
    <2>1. PICK e \in Entries, declared \in Optional(Worths \ {0}) :
            /\ listing' = [listing EXCEPT !.status = "PENDING", !.hour = e.hour, !.day = e.day,
                                          !.declared = declared, !.available = e.available]
            /\ host' = [hour |-> e.hour, day |-> e.day]
      BY <1>1 DEF Create
    <2>2. /\ e.hour \in Optional(Prices) /\ e.day \in Optional(Prices) /\ e.available \in BOOLEAN
          /\ declared \in Optional(Worths)
      BY DEF Entries, Optional
    <2>3. listing' \in Rows /\ listing'.hour = e.hour /\ listing'.day = e.day
      BY <2>1, <2>2 DEF ListingInv, Rows
    <2> QED BY <1>1, <2>1, <2>2, <2>3 DEF Create, ListingInv, AmountsAddUp, HostPricesStand
  <1>2. CASE Update
    <2>1. PICK e \in Entries :
            /\ listing' = [listing EXCEPT !.hour = Coalesce(e.hour, @), !.day = Coalesce(e.day, @),
                                          !.available = e.available]
            /\ host' = [hour |-> Coalesce(e.hour, host.hour), day |-> Coalesce(e.day, host.day)]
      BY <1>2 DEF Update
    <2>2. e.hour \in Optional(Prices) /\ e.day \in Optional(Prices) /\ e.available \in BOOLEAN
      BY DEF Entries, Optional
    <2>3. /\ listing' \in Rows
          /\ listing'.hour = Coalesce(e.hour, listing.hour)
          /\ listing'.day = Coalesce(e.day, listing.day)
      BY <2>1, <2>2, CoalesceIsOptional DEF ListingInv, Rows
    <2>4. host' \in [hour : Optional(Prices), day : Optional(Prices)]
      BY <2>1, <2>2, CoalesceIsOptional DEF ListingInv
    <2>5. HostPricesStand'
      BY <2>1, <2>3 DEF ListingInv, HostPricesStand, Coalesce
    <2> QED BY <1>2, <2>3, <2>4, <2>5 DEF Update, ListingInv, AmountsAddUp
  <1>3. CASE AttachMedia \/ GetHoldEstimate \/ UNCHANGED vars
    BY <1>3 DEF AttachMedia, GetHoldEstimate, vars, ListingInv, AmountsAddUp, HostPricesStand
  <1>4. CASE Activate
    BY <1>4 DEF Activate, ListingInv, Rows, AmountsAddUp, HostPricesStand
  <1>5. CASE CreateBooking
    <2>1. PICK hours \in Durations :
            booking' = {Amounts(itemValue(listing), Cents(Value(listing.hour)),
                                Cents(Value(listing.day)), hours)}
      BY <1>5 DEF CreateBooking
    <2>2. /\ itemValue(listing) \in Nat /\ hours \in Nat
          /\ Cents(Value(listing.hour)) \in Nat /\ Cents(Value(listing.day)) \in Nat
      BY ColumnsAreAmounts DEF ListingInv, Rows, itemValue, ListingAssumption
    <2>3. AmountsAddUp'
      BY <2>1, <2>2, BookingAddsUp DEF AmountsAddUp
    <2> QED BY <1>5, <2>3 DEF CreateBooking, ListingInv, HostPricesStand
  <1> QED BY <1>1, <1>2, <1>3, <1>4, <1>5, AppraisingKeepsListing DEF Next

\* CreateBooking, Update and Appraise together: whatever the host enters and the appraisal
\* suggests, in whatever order, the amounts of every booking add up, and a price that the host
\* has entered is the one in force.
THEOREM OfferStands == OfficeSpec => [](AmountsAddUp /\ HostPricesStand)
  <1>1. OfficeInit => ListingInv
    BY BeginApart, ListingInit
  <1>2. ListingInv /\ [OfficeNext]_office => ListingInv'
    BY OfficeAssumption, ListingNext, StepsApart
  <1>3. ListingInv => AmountsAddUp /\ HostPricesStand
    BY DEF ListingInv
  <1> QED BY <1>1, <1>2, <1>3, PTL DEF OfficeSpec

\* A quote that is worth something shows what the listing is still worth: the host's
\* declaration is entered once, and an estimate is only written where there is none.
QuoteInv ==
  \A q \in quote :
    q.value > 0 =>
      /\ listing.status = "ACTIVE" /\ q.value = itemValue(listing)
      /\ q.hold = TieredHold(q.value) /\ q.gap = GuaranteeGap(q.value, q.hold)

LEMMA EstimateStays ==
  ASSUME ListingAssumption, ListingInv, NEW status \in AppraisalStatus,
         NEW worth \in Optional(Worths), NEW perHour, NEW perDay,
         UpdateAppraisalFields(status, worth, perHour, perDay)
  PROVE  /\ listing'.status = listing.status
         /\ itemValue(listing) > 0 => itemValue(listing') = itemValue(listing)
  <1>1. /\ listing'.status = listing.status /\ listing'.declared = listing.declared
        /\ listing'.estimated = Coalesce(listing.estimated, worth)
    BY DEF UpdateAppraisalFields, ListingInv, Rows
  <1>2. CASE listing.estimated # NULL
    BY <1>1, <1>2 DEF Coalesce, itemValue
  <1>3. CASE listing.estimated = NULL
    <2>1. Value(listing.estimated) = 0 /\ Cents(0) = 0
      BY <1>3 DEF Value, Cents, ListingAssumption
    <2> QED BY <1>1, <2>1 DEF itemValue
  <1> QED BY <1>1, <1>2, <1>3

LEMMA QuoteNext ==
  ASSUME ListingAssumption, ListingInv, QuoteInv, [Next]_vars
  PROVE  QuoteInv'
  <1>1. CASE UNCHANGED <<listing, quote>>
    BY <1>1 DEF QuoteInv
  <1>2. CASE GetHoldEstimate
    BY <1>2 DEF GetHoldEstimate, QuoteInv
  <1>3. CASE Create \/ Activate
    BY <1>3 DEF Create, Activate, QuoteInv
  <1>4. CASE Update
    <2>1. PICK e \in Entries :
            listing' = [listing EXCEPT !.hour = Coalesce(e.hour, @), !.day = Coalesce(e.day, @),
                                       !.available = e.available]
      BY <1>4 DEF Update
    <2>2. /\ listing'.status = listing.status /\ listing'.declared = listing.declared
          /\ listing'.estimated = listing.estimated
      BY <2>1 DEF ListingInv, Rows
    <2> QED BY <1>4, <2>2 DEF Update, QuoteInv, itemValue
  <1>5. ASSUME NEW a \in Appraisers, AppraiseSuggests(a) \/ MarkListingFailed(a), listing' # listing
        PROVE  QuoteInv'
    <2>1. quote' = quote
      BY <1>5 DEF AppraiseSuggests, MarkListingFailed
    <2>2. \E status \in AppraisalStatus, worth \in Optional(Worths) :
            \E perHour, perDay : UpdateAppraisalFields(status, worth, perHour, perDay)
      <3>1. CASE AppraiseSuggests(a)
        <4>1. UpdateAppraisalFields("COMPLETE", {run[a].answer.worth}, {run[a].answer.hour},
                                    {run[a].answer.day})
          BY <1>5, <3>1 DEF AppraiseSuggests
        <4>2. run[a].answer \in Answer
          BY <3>1 DEF AppraiseSuggests, ListingInv
        <4>3. {run[a].answer.worth} \in Optional(Worths) /\ "COMPLETE" \in AppraisalStatus
          BY <4>2 DEF Answer, Optional, AppraisalStatus
        <4> QED BY <4>1, <4>3
      <3>2. CASE MarkListingFailed(a)
        <4>1. UpdateAppraisalFields("FAILED", NULL, NULL, NULL)
          BY <1>5, <3>2 DEF MarkListingFailed
        <4>2. NULL \in Optional(Worths) /\ "FAILED" \in AppraisalStatus
          BY DEF Optional, AppraisalStatus
        <4> QED BY <4>1, <4>2
      <3> QED BY <1>5, <3>1, <3>2
    <2>3. listing'.status = listing.status
          /\ (itemValue(listing) > 0 => itemValue(listing') = itemValue(listing))
      BY <2>2, EstimateStays
    <2> QED BY <2>1, <2>3 DEF QuoteInv
  <1> QED
    BY <1>1, <1>2, <1>3, <1>4, <1>5
    DEF Next, vars, Appraising, AttachMedia, CreateBooking, AppraiseBegins, AppraiseInserts,
        AppraiseAsks, AppraiseSaves, AppraiseSuggests, MarkFailed, MarkListingFailed, AppraiseCrashes

LEMMA BookingAsQuoted ==
  ASSUME QuoteInv, [Next]_vars, booking' # booking
  PROVE  \A q \in quote : q.value > 0 => \A b \in booking' : b.hold = q.hold /\ b.gap = q.gap
  <1>1. CASE CreateBooking
    <2>1. PICK hours \in Durations :
            booking' = {Amounts(itemValue(listing), Cents(Value(listing.hour)),
                                Cents(Value(listing.day)), hours)}
      BY <1>1 DEF CreateBooking
    <2>2. \A b \in booking' : /\ b.hold = TieredHold(itemValue(listing))
                              /\ b.gap = GuaranteeGap(itemValue(listing), b.hold)
      BY <2>1 DEF Amounts
    <2> QED BY <2>2 DEF QuoteInv
  <1>2. CASE ~ CreateBooking
    BY <1>2
    DEF Next, vars, Create, Update, AttachMedia, Activate, GetHoldEstimate, Appraising,
        AppraiseBegins, AppraiseInserts, AppraiseAsks, AppraiseSaves, AppraiseSuggests, MarkFailed,
        MarkListingFailed, AppraiseCrashes
  <1> QED BY <1>1, <1>2

\* GetHoldEstimate and CreateBooking, with appraisals and edits in between: the hold and the
\* gap of a booking are those that the renter was quoted.
THEOREM QuoteIsKept == OfficeSpec => QuoteStands
  <1>1. OfficeInit => ListingInv /\ QuoteInv
    BY BeginApart, ListingInit DEF Init, QuoteInv, NULL
  <1>2. ListingInv /\ QuoteInv /\ [OfficeNext]_office => ListingInv' /\ QuoteInv'
    BY OfficeAssumption, ListingNext, QuoteNext, StepsApart
  <1>3. ListingInv /\ QuoteInv /\ [OfficeNext]_office =>
          [booking' # booking =>
             \A q \in quote : q.value > 0 => \A b \in booking' : b.hold = q.hold /\ b.gap = q.gap]_vars
    BY BookingAsQuoted, StepsApart
  <1> QED BY <1>1, <1>2, <1>3, PTL DEF OfficeSpec, QuoteStands

-----------------------------------------------------------------------------
\* The hour it is after a while of at most a day.
HourAfter(h, wait) == IF h + wait >= DayLength THEN h + wait - DayLength ELSE h + wait

\* QuietHoursEndTime: wherever the window lies, the wait is at least an hour and at most a
\* day, and ends at the end of the window.
THEOREM WaitEndsWithTheWindow ==
  ASSUME N!QuietHoursAssumption, NEW window \in [start : N!Hours, end : N!Hours], NEW h \in N!Hours
  PROVE  /\ N!UntilQuietHoursEnd(window, h) \in 1 .. DayLength
         /\ HourAfter(h, N!UntilQuietHoursEnd(window, h)) = window.end
BY DEF N!QuietHoursAssumption, N!Hours, N!UntilQuietHoursEnd, HourAfter

\* IsQuietHours: the end of a window is not quiet, nor is anything between it and the start.
THEOREM EndIsNotQuiet ==
  ASSUME N!QuietHoursAssumption, NEW window \in [start : N!Hours, end : N!Hours]
  PROVE  ~ N!IsQuietHours(window, window.end)
BY DEF N!QuietHoursAssumption, N!Hours, N!IsQuietHours

LEMMA NextHour ==
  ASSUME N!QuietHoursAssumption, NEW h \in N!Hours
  PROVE  /\ (h + 1) % DayLength \in N!Hours
         /\ \A wait \in 1 .. DayLength : HourAfter((h + 1) % DayLength, wait - 1) = HourAfter(h, wait)
  <1>1. DayLength \in Nat \ {0} /\ h \in 0 .. DayLength - 1
    BY DEF N!QuietHoursAssumption, N!Hours
  <1>2. CASE h + 1 = DayLength
    <2>1. (h + 1) % DayLength = 0
      BY <1>1, <1>2
    <2> QED BY <1>1, <1>2, <2>1 DEF N!Hours, HourAfter
  <1>3. CASE h + 1 # DayLength
    <2>1. (h + 1) % DayLength = h + 1
      BY <1>1, <1>3
    <2> QED BY <1>1, <1>3, <2>1 DEF N!Hours, HourAfter
  <1> QED BY <1>2, <1>3

\* As much of the types as the argument needs.
NoticeRecord(r) ==
  /\ r = [at |-> r.at, from |-> r.from, type |-> r.type, prefs |-> r.prefs,
          deferred |-> r.deferred, wait |-> r.wait, stale |-> r.stale, steady |-> r.steady]
  /\ r.prefs \in N!Preferences \cup {N!DefaultPreferences}
  /\ r.wait \in 0 .. DayLength
  /\ r.deferred \in BOOLEAN /\ r.steady \in BOOLEAN
  /\ ~ r.deferred => r.wait = 0
  /\ r.at \in {"stored", "deferring"} => ~ r.deferred
  /\ r.at = "waiting" => r.deferred

\* What is known of a notice while nothing has disturbed it: a deferred push is due when the
\* window of the preferences in force ends, and another one was decided on in this very hour.
Timely(r, p, h) ==
  r.steady =>
    /\ r.deferred => HourAfter(h, r.wait) = p.quiet.end
    /\ r.deferred /\ r.at # "waiting" => r.wait = 0
    /\ ~ r.deferred /\ r.at = "sending" => ~ N!IsQuietHours(p.quiet, h)

\* The inductive invariant.
NoticeInv ==
  /\ hour \in N!Hours
  /\ prefs \in N!Preferences \cup {N!DefaultPreferences}
  /\ notice = [n \in Notices |-> notice[n]]
  /\ \A n \in Notices : NoticeRecord(notice[n]) /\ Timely(notice[n], prefs, hour)

LEMMA NoticeInit == ASSUME N!NotificationAssumption PROVE N!Init => NoticeInv
  <1> SUFFICES ASSUME N!Init PROVE NoticeInv
    OBVIOUS
  <1>1. NoticeRecord(N!Nothing) /\ ~ N!Nothing.steady
    BY DEF N!NotificationAssumption, N!QuietHoursAssumption, NoticeRecord, N!Nothing
  <1>2. notice = [n \in Notices |-> notice[n]] /\ \A n \in Notices : notice[n] = N!Nothing
    BY DEF N!Init
  <1> QED BY <1>1, <1>2 DEF N!Init, NoticeInv, Timely

\* A step of one delivery: the record it leaves must be as timely as the ones it leaves alone.
LEMMA DeliveryKeepsNotices ==
  ASSUME NoticeInv, NEW n \in Notices, UNCHANGED <<hour, prefs>>,
         DOMAIN notice' = Notices, notice' = [m \in Notices |-> notice'[m]],
         \A m \in Notices : m # n => notice'[m] = notice[m],
         NoticeRecord(notice'[n]), Timely(notice'[n], prefs, hour)
  PROVE  NoticeInv'
  BY DEF NoticeInv, NoticeRecord, Timely

LEMMA TickKeepsNotices == ASSUME N!NotificationAssumption, NoticeInv, N!Tick PROVE NoticeInv'
  <1>1. /\ hour' = (hour + 1) % DayLength /\ prefs' = prefs
        /\ notice' = [n \in Notices |->
             [notice[n] EXCEPT !.wait = IF @ > 0 THEN @ - 1 ELSE 0,
                               !.steady = @ /\ notice[n].wait > 0]]
    BY DEF N!Tick
  <1>2. hour' \in N!Hours
    BY <1>1, NextHour DEF NoticeInv, N!NotificationAssumption
  <1>3. ASSUME NEW n \in Notices PROVE NoticeRecord(notice'[n]) /\ Timely(notice'[n], prefs, hour')
    <2>1. /\ notice'[n].wait = IF notice[n].wait > 0 THEN notice[n].wait - 1 ELSE 0
          /\ notice'[n].steady => notice[n].steady /\ notice[n].wait > 0
          /\ notice'[n].at = notice[n].at /\ notice'[n].deferred = notice[n].deferred
          /\ NoticeRecord(notice'[n])
      <3> DEFINE old == notice[n]
                 wait == IF old.wait > 0 THEN old.wait - 1 ELSE 0
                 calm == old.steady /\ old.wait > 0
      <3>1. NoticeRecord(old) /\ DayLength \in Nat
        BY DEF NoticeInv, N!NotificationAssumption, N!QuietHoursAssumption
      <3>2. wait \in 0 .. DayLength /\ (old.wait = 0 => wait = 0) /\ calm \in BOOLEAN
        BY <3>1 DEF NoticeRecord
      <3>3. notice'[n] = [old EXCEPT !.wait = wait, !.steady = calm]
        BY <1>1
      <3> HIDE DEF wait
      <3>4. /\ notice'[n].wait = wait /\ notice'[n].steady = calm
            /\ notice'[n].at = old.at /\ notice'[n].deferred = old.deferred
            /\ NoticeRecord(notice'[n])
        BY <3>1, <3>2, <3>3 DEF NoticeRecord
      <3> QED BY <3>4 DEF wait
    <2>2. CASE ~ notice'[n].steady
      BY <2>1, <2>2 DEF Timely
    <2>3. CASE notice'[n].steady
      <3>1. notice[n].steady /\ notice[n].wait \in 1 .. DayLength
        BY <2>1, <2>3 DEF NoticeInv, NoticeRecord
      <3>2. HourAfter(hour', notice'[n].wait) = HourAfter(hour, notice[n].wait)
        <4>1. HourAfter((hour + 1) % DayLength, notice[n].wait - 1) = HourAfter(hour, notice[n].wait)
          BY <3>1, NextHour DEF NoticeInv, N!NotificationAssumption
        <4>2. notice'[n].wait = notice[n].wait - 1
          BY <2>1, <3>1
        <4> QED BY <1>1, <4>1, <4>2
      <3>3. notice[n].deferred
        BY <3>1 DEF NoticeInv, NoticeRecord
      <3> QED BY <2>1, <3>1, <3>2, <3>3 DEF NoticeInv, Timely
    <2> QED BY <2>1, <2>2, <2>3
  <1> QED BY <1>1, <1>2, <1>3 DEF NoticeInv

LEMMA UpdateKeepsNotices == ASSUME NoticeInv, N!UpdatePreferences PROVE NoticeInv'
  <1>1. /\ prefs' \in N!Preferences /\ hour' = hour
        /\ notice' = [n \in Notices |-> [notice[n] EXCEPT !.steady = FALSE]]
    BY DEF N!UpdatePreferences
  <1>2. ASSUME NEW n \in Notices PROVE NoticeRecord(notice'[n]) /\ ~ notice'[n].steady
    <2>1. NoticeRecord(notice[n])
      BY DEF NoticeInv
    <2> QED BY <1>1, <2>1 DEF NoticeRecord
  <1> QED BY <1>1, <1>2 DEF NoticeInv, Timely

LEMMA DeliveringKeepsNotices ==
  ASSUME N!NotificationAssumption, NoticeInv, NEW n \in Notices, N!Delivering(n)
  PROVE  NoticeInv'
  <1> DEFINE old == notice[n]
  <1>0. /\ NoticeRecord(old) /\ Timely(old, prefs, hour) /\ hour \in N!Hours
        /\ notice = [m \in Notices |-> notice[m]] /\ DayLength \in Nat \ {0}
    BY DEF NoticeInv, N!NotificationAssumption, N!QuietHoursAssumption
  <1>1. ASSUME NEW from, NEW type, N!Notify(n, from, type) PROVE NoticeInv'
    <2>1. PICK read \in {prefs, N!DefaultPreferences}, ok \in BOOLEAN :
            notice' = [notice EXCEPT ![n] =
              [N!Nothing EXCEPT !.from = from, !.type = type, !.prefs = read, !.steady = ok,
                              !.at = IF N!IsTypeDisabled(read, type) THEN "done" ELSE "loaded"]]
      BY <1>1 DEF N!Notify
    <2>2. /\ ~ notice'[n].deferred /\ notice'[n].at # "sending" /\ NoticeRecord(notice'[n])
      <3> DEFINE at == IF N!IsTypeDisabled(read, type) THEN "done" ELSE "loaded"
      <3>1. at \in {"done", "loaded"} /\ read \in N!Preferences \cup {N!DefaultPreferences}
        BY DEF NoticeInv
      <3>2. notice'[n] = [at |-> at, from |-> from, type |-> type, prefs |-> read,
                          deferred |-> FALSE, wait |-> 0, stale |-> {}, steady |-> ok]
        BY <1>0, <2>1 DEF N!Nothing
      <3> HIDE DEF at
      <3> QED BY <1>0, <3>1, <3>2 DEF NoticeRecord
    <2> QED BY <1>0, <1>1, <2>1, <2>2, DeliveryKeepsNotices DEF N!Notify, N!world, Timely
  <1>2. CASE N!NotifyDirect(n)
    <2>1. PICK read \in {prefs, N!DefaultPreferences} :
            notice' = [notice EXCEPT ![n] = [old EXCEPT !.prefs = read,
                !.at = IF N!IsTypeDisabled(read, notice[n].type) THEN "done" ELSE "loaded"]]
      BY <1>2 DEF N!NotifyDirect
    <2>2. /\ notice'[n].deferred = old.deferred /\ notice'[n].wait = 0 /\ old.wait = 0
          /\ notice'[n].at # "sending" /\ notice'[n].steady = old.steady /\ NoticeRecord(notice'[n])
      BY <1>0, <1>2, <2>1 DEF N!NotifyDirect, NoticeRecord, NoticeInv
    <2>3. old.deferred /\ (old.steady => HourAfter(hour, 0) = prefs.quiet.end)
      BY <1>0, <1>2, <2>2 DEF N!NotifyDirect, NoticeRecord, Timely
    <2>4. Timely(notice'[n], prefs, hour)
      BY <2>2, <2>3 DEF Timely
    <2> QED BY <1>0, <1>2, <2>1, <2>2, <2>4, DeliveryKeepsNotices DEF N!NotifyDirect, N!world
  <1>3. CASE N!StoreNotification(n)
    <2>1. PICK at \in {"done", "sending", "stored", "waiting"} :
            /\ notice' = [notice EXCEPT ![n].at = at]
            /\ at \in {"sending", "waiting"} => old.deferred
            /\ at = "stored" => ~ old.deferred
            /\ old.at = "loaded"
      BY <1>3 DEF N!StoreNotification, N!Goto
    <2>2. /\ notice'[n].deferred = old.deferred /\ notice'[n].wait = old.wait
          /\ notice'[n].at = at /\ notice'[n].steady = old.steady /\ NoticeRecord(notice'[n])
      BY <1>0, <2>1 DEF NoticeRecord
    <2> QED BY <1>0, <1>3, <2>1, <2>2, DeliveryKeepsNotices DEF N!StoreNotification, N!world, Timely
  <1>4. CASE N!Decide(n)
    <2> DEFINE quiet == N!IsQuietHours(old.prefs.quiet, hour)
    <2>1. notice' = [notice EXCEPT ![n] =
            [old EXCEPT !.at = IF quiet THEN "deferring" ELSE "sending",
                        !.steady = old.prefs = prefs]]
      BY <1>4 DEF N!Decide
    <2>2. /\ ~ notice'[n].deferred /\ notice'[n].steady = (old.prefs = prefs)
          /\ notice'[n].at = IF quiet THEN "deferring" ELSE "sending"
          /\ NoticeRecord(notice'[n])
      <3>1. ~ old.deferred /\ old.wait = 0
        BY <1>0, <1>4 DEF N!Decide, NoticeRecord
      <3> DEFINE at == IF quiet THEN "deferring" ELSE "sending"
                 calm == old.prefs = prefs
      <3>2. at \in {"deferring", "sending"} /\ calm \in BOOLEAN
        OBVIOUS
      <3>3. notice'[n] = [old EXCEPT !.at = at, !.steady = calm]
        BY <1>0, <2>1
      <3> HIDE DEF at, calm, quiet
      <3>4. notice'[n].at = at /\ notice'[n].steady = calm /\ ~ notice'[n].deferred /\ NoticeRecord(notice'[n])
        BY <1>0, <3>1, <3>2, <3>3 DEF NoticeRecord
      <3> QED BY <3>4 DEF at, calm
    <2>3. Timely(notice'[n], prefs, hour)
      BY <2>2 DEF Timely
    <2> QED BY <1>0, <1>4, <2>1, <2>2, <2>3, DeliveryKeepsNotices DEF N!Decide, N!world
  <1>5. CASE N!DeferPush(n)
    <2> DEFINE wait == N!UntilQuietHoursEnd(old.prefs.quiet, hour)
    <2>1. CASE notice' = [notice EXCEPT ![n] =
                 [old EXCEPT !.at = "waiting", !.deferred = TRUE, !.wait = wait,
                             !.steady = old.prefs = prefs]]
      <3>1. wait \in 1 .. DayLength /\ HourAfter(hour, wait) = old.prefs.quiet.end
        <4>1. old.prefs.quiet \in [start : N!Hours, end : N!Hours]
          BY <1>0 DEF NoticeRecord, N!Preferences, N!Windows, N!DefaultPreferences, N!NoWindow, N!Hours,
                      N!NotificationAssumption, N!QuietHoursAssumption
        <4> QED BY <1>0, <4>1, WaitEndsWithTheWindow DEF N!NotificationAssumption
      <3> DEFINE calm == old.prefs = prefs
      <3> HIDE DEF wait, calm
      <3>2. calm \in BOOLEAN /\ wait \in 0 .. DayLength
        BY <1>0, <3>1 DEF calm
      <3>3. notice'[n] = [old EXCEPT !.at = "waiting", !.deferred = TRUE, !.wait = wait, !.steady = calm]
        BY <1>0, <2>1 DEF calm
      <3>4. /\ notice'[n].at = "waiting" /\ notice'[n].deferred /\ notice'[n].wait = wait
            /\ notice'[n].steady = calm /\ NoticeRecord(notice'[n])
        BY <1>0, <3>2, <3>3 DEF NoticeRecord
      <3>5. Timely(notice'[n], prefs, hour)
        BY <3>1, <3>4 DEF Timely, calm
      <3> QED BY <1>0, <1>5, <2>1, <3>4, <3>5, DeliveryKeepsNotices DEF N!DeferPush, N!world
    <2>2. CASE notice' = [notice EXCEPT ![n].at = "done"]
      <3>1. /\ notice'[n].at = "done" /\ notice'[n].deferred = old.deferred
            /\ notice'[n].wait = old.wait /\ notice'[n].steady = old.steady /\ NoticeRecord(notice'[n])
        BY <1>0, <2>2 DEF NoticeRecord
      <3>2. Timely(notice'[n], prefs, hour)
        BY <1>0, <1>5, <3>1 DEF N!DeferPush, Timely
      <3> QED BY <1>0, <1>5, <2>2, <3>1, <3>2, DeliveryKeepsNotices DEF N!DeferPush, N!world
    <2> QED BY <1>5, <2>1, <2>2 DEF N!DeferPush, N!Goto
  <1>6. CASE N!SendPush(n)
    <2>1. \/ notice' = [notice EXCEPT ![n] = [old EXCEPT !.at = "pruning", !.stale = N!Stale(N!Sendable)]]
          \/ notice' = [notice EXCEPT ![n].at = "done"]
      BY <1>6 DEF N!SendPush, N!Goto
    <2> HIDE DEF old
    <2>2. /\ notice'[n].at \in {"pruning", "done"} /\ notice'[n].deferred = old.deferred
          /\ notice'[n].wait = old.wait /\ notice'[n].steady = old.steady /\ NoticeRecord(notice'[n])
      <3>1. CASE notice' = [notice EXCEPT ![n] = [old EXCEPT !.at = "pruning", !.stale = N!Stale(N!Sendable)]]
        BY <1>0, <3>1 DEF NoticeRecord
      <3>2. CASE notice' = [notice EXCEPT ![n].at = "done"]
        BY <1>0, <3>2 DEF NoticeRecord, old
      <3> QED BY <2>1, <3>1, <3>2
    <2>3. Timely(notice'[n], prefs, hour)
      BY <1>0, <1>6, <2>2 DEF N!SendPush, Timely, old
    <2> QED BY <1>0, <1>6, <2>1, <2>2, <2>3, DeliveryKeepsNotices DEF N!SendPush, N!world
  <1>7. CASE N!DeletePushTokens(n)
    <2>1. notice' = [notice EXCEPT ![n] = [old EXCEPT !.at = "done", !.stale = {}]]
      BY <1>7 DEF N!DeletePushTokens
    <2>2. /\ notice'[n].at = "done" /\ notice'[n].deferred = old.deferred
          /\ notice'[n].wait = old.wait /\ notice'[n].steady = old.steady /\ NoticeRecord(notice'[n])
      BY <1>0, <2>1 DEF NoticeRecord
    <2>3. Timely(notice'[n], prefs, hour)
      BY <1>0, <1>7, <2>2 DEF N!DeletePushTokens, Timely
    <2> QED BY <1>0, <1>7, <2>1, <2>2, <2>3, DeliveryKeepsNotices DEF N!DeletePushTokens
  <1>8. CASE N!Crash(n)
    <2>1. PICK at \in {"waiting", "done"} :
            /\ notice' = [notice EXCEPT ![n] = [old EXCEPT !.at = at, !.stale = {}]]
            /\ at = "waiting" => old.deferred
      BY <1>8 DEF N!Crash
    <2>2. /\ notice'[n].at = at /\ notice'[n].deferred = old.deferred
          /\ notice'[n].wait = old.wait /\ notice'[n].steady = old.steady /\ NoticeRecord(notice'[n])
      BY <1>0, <2>1 DEF NoticeRecord
    <2>3. Timely(notice'[n], prefs, hour)
      BY <1>0, <1>8, <2>1, <2>2 DEF N!Crash, Timely
    <2> QED BY <1>0, <1>8, <2>1, <2>2, <2>3, DeliveryKeepsNotices DEF N!Crash, N!world
  <1> QED BY <1>1, <1>2, <1>3, <1>4, <1>5, <1>6, <1>7, <1>8 DEF N!Delivering

LEMMA NoticeNext == ASSUME N!NotificationAssumption PROVE NoticeInv /\ [N!Next]_notification => NoticeInv'
  <1> SUFFICES ASSUME NoticeInv, [N!Next]_notification PROVE NoticeInv'
    OBVIOUS
  <1>1. ASSUME NEW d \in Tokens, N!RegisterPushToken(d) \/ N!Uninstall(d) PROVE NoticeInv'
    BY <1>1 DEF N!RegisterPushToken, N!Uninstall, N!delivery, NoticeInv
  <1>2. CASE UNCHANGED notification
    BY <1>2 DEF notification, NoticeInv
  <1> QED BY <1>1, <1>2, TickKeepsNotices, UpdateKeepsNotices, DeliveringKeepsNotices DEF N!Next

\* A notice keeps its counter.
Counted == DOMAIN pushes = Notices

LEMMA NextCounted == Counted /\ [N!Next]_notification => Counted'
  BY DEF Counted, N!Next, N!Tick, N!UpdatePreferences, N!RegisterPushToken, N!Uninstall, N!Delivering, N!Notify,
         N!NotifyDirect, N!StoreNotification, N!Decide, N!DeferPush, N!SendPush, N!DeletePushTokens, N!Crash,
         notification, N!delivery

\* Only SendPush publishes: what it finds is timely, so it is not quiet.
LEMMA PushesAreTimely ==
  ASSUME N!NotificationAssumption, NoticeInv, Counted, [N!Next]_notification, NEW n \in Notices,
         pushes'[n] # pushes[n], notice[n].steady
  PROVE  ~ N!IsQuietHours(prefs.quiet, hour)
  <1>1. notice[n].at = "sending"
    <2>1. PICK m \in Notices : N!SendPush(m)
      BY DEF N!Next, N!Tick, N!UpdatePreferences, N!RegisterPushToken, N!Uninstall, N!Delivering, N!Notify,
             N!NotifyDirect, N!StoreNotification, N!Decide, N!DeferPush, N!DeletePushTokens, N!Crash,
             notification, N!delivery
    <2>2. m = n
      BY <2>1 DEF N!SendPush, Counted
    <2> QED BY <2>1, <2>2 DEF N!SendPush
  <1>2. NoticeRecord(notice[n]) /\ Timely(notice[n], prefs, hour) /\ hour \in N!Hours
    BY DEF NoticeInv
  <1>3. CASE notice[n].deferred
    <2>1. prefs.quiet \in [start : N!Hours, end : N!Hours]
      BY DEF NoticeInv, N!Preferences, N!Windows, N!DefaultPreferences, N!NoWindow, N!Hours,
             N!NotificationAssumption, N!QuietHoursAssumption
    <2>2. HourAfter(hour, 0) = hour
      BY <1>2 DEF HourAfter, N!Hours, N!NotificationAssumption, N!QuietHoursAssumption
    <2>3. hour = prefs.quiet.end
      BY <1>1, <1>2, <1>3, <2>2 DEF Timely
    <2> QED BY <2>1, <2>3, EndIsNotQuiet DEF N!NotificationAssumption
  <1>4. CASE ~ notice[n].deferred
    BY <1>1, <1>2, <1>4 DEF Timely
  <1> QED BY <1>3, <1>4

\* A push that is neither late nor raced by a change of the preferences is never published in
\* quiet hours (Notify, deferPush, notifyDirect).
THEOREM QuietIsAlwaysKept == OfficeSpec => QuietIsKept
  <1> DEFINE Kept == \A n \in Notices :
               pushes'[n] # pushes[n] /\ notice[n].steady => ~ N!IsQuietHours(prefs.quiet, hour)
  <1>1. OfficeInit => NoticeInv /\ Counted
    BY BeginApart, OfficeAssumption, NoticeInit DEF N!Init, Counted
  <1>2. NoticeInv /\ Counted /\ [OfficeNext]_office => NoticeInv' /\ Counted'
    BY StepsApart, OfficeAssumption, NoticeNext, NextCounted
  <1>3. NoticeInv /\ Counted /\ [OfficeNext]_office => [Kept]_(N!vars)
    <2> SUFFICES ASSUME NoticeInv, Counted, [OfficeNext]_office PROVE Kept
      OBVIOUS
    <2> QED BY StepsApart, OfficeAssumption, PushesAreTimely
  <1>4. NoticeInv /\ Counted /\ [OfficeNext]_office =>
          [\A n \in Notices :
             pushes'[n] # pushes[n] /\ notice[n].steady => ~ N!IsQuietHours(prefs.quiet, hour)]_(N!vars)
    BY <1>3
  <1> QED BY <1>1, <1>2, <1>4, PTL DEF OfficeSpec, QuietIsKept, N!QuietIsKept

-----------------------------------------------------------------------------
AtWork(w) == ~ B!At(w, "idle")

\* What the counters are while a job that is alone goes from step to step.
RightCounters(r, p) ==
  /\ r.at \in {"done", "errors"} => p.total = B!Cardinality(r.batch)
  /\ r.at = "errors" => p.done = 0
  /\ r.at = "loop" => p.total = p.done + B!Cardinality(r.batch) /\ p.errors <= p.done
  /\ r.at = "count" => p.total = p.done + 1 + B!Cardinality(r.batch) /\ p.errors <= p.done + 1

\* The inductive invariant: a job that started alone is the only one, and its counters fit
\* the step it is at; without a job the counters are those of a finished one.
BackfillInv ==
  /\ B!TypeOK
  /\ apart =>
       /\ \A v, w \in Runners : AtWork(v) /\ AtWork(w) => v = w
       /\ \A w \in Runners : AtWork(w) => RightCounters(job[w], progress)
       /\ (\A w \in Runners : ~ AtWork(w)) =>
            progress.total = progress.done /\ progress.errors <= progress.done

\* The modules that MC_Office instantiates have a Cardinality of their own.
LEMMA SameCardinality ==
  \A things : B!Cardinality(things) = Cardinality(things)
              /\ (B!IsFiniteSet(things) <=> IsFiniteSet(things))
  BY Zenon DEF B!Cardinality, Cardinality, B!IsFiniteSet, IsFiniteSet

LEMMA BatchIsFinite ==
  ASSUME B!BackfillAssumption, B!TypeOK, NEW w \in Runners
  PROVE  B!IsFiniteSet(job[w].batch) /\ B!Cardinality(job[w].batch) \in Nat
  <1>1. job[w].batch \subseteq Items
    BY DEF B!TypeOK
  <1>2. B!IsFiniteSet(job[w].batch)
    BY <1>1, SameCardinality, FS_Subset DEF B!BackfillAssumption
  <1> QED BY <1>2, SameCardinality, FS_CardinalityType

LEMMA BackfillInit == ASSUME B!BackfillAssumption PROVE B!Init => BackfillInv
  BY DEF B!BackfillAssumption, B!Init, BackfillInv, B!TypeOK, B!Idle, B!NewJobProgress, AtWork, B!At

LEMMA BackfillNext == ASSUME B!BackfillAssumption PROVE BackfillInv /\ [B!Next]_backfill => BackfillInv'
  <1> SUFFICES ASSUME BackfillInv, [B!Next]_backfill PROVE BackfillInv'
    OBVIOUS
  <1> USE DEF BackfillInv, B!TypeOK, AtWork, B!At, B!Goto
  <1>1. CASE B!Post
    BY <1>1 DEF B!Post, B!BackfillAssumption, RightCounters
  <1>2. CASE B!Crash
    <2>1. B!Cardinality({w \in Runners : ~ B!At(w, "idle")}) \in Nat
      BY SameCardinality, FS_Subset, FS_CardinalityType DEF B!BackfillAssumption
    <2> QED BY <1>2, <2>1 DEF B!Crash, B!Idle, B!NewJobProgress, B!BackfillAssumption
  <1>3. ASSUME NEW i \in Items, B!Appear(i) PROVE BackfillInv'
    BY <1>3 DEF B!Appear, RightCounters
  <1>4. ASSUME NEW w \in Runners, B!Begin(w) PROVE BackfillInv'
    BY <1>4 DEF B!Begin, B!Find, RightCounters, B!BackfillAssumption
  <1>5. ASSUME NEW w \in Runners, B!StoreTotal(w) PROVE BackfillInv'
    BY <1>5, BatchIsFinite DEF B!StoreTotal, RightCounters
  <1>6. ASSUME NEW w \in Runners, B!ResetDone(w) PROVE BackfillInv'
    BY <1>6 DEF B!ResetDone, RightCounters
  <1>7. ASSUME NEW w \in Runners, B!ResetErrors(w) PROVE BackfillInv'
    BY <1>7, BatchIsFinite DEF B!ResetErrors, RightCounters
  <1>8. ASSUME NEW w \in Runners, NEW i \in Items, NEW of, NEW outcome, needs' \subseteq Items,
               B!ComeTo(w, i, of, outcome)
        PROVE  BackfillInv'
    <2>1. B!Cardinality(job[w].batch \ {i}) = B!Cardinality(job[w].batch) - 1
      <3>1. i \in job[w].batch
        BY <1>8 DEF B!ComeTo
      <3>2. IsFiniteSet(job[w].batch)
        BY BatchIsFinite, SameCardinality
      <3>3. Cardinality(job[w].batch \ {i}) = Cardinality(job[w].batch) - 1
        BY <3>1, <3>2, FS_RemoveElement
      <3> QED BY <3>3, SameCardinality
    <2> QED BY <1>8, <2>1, BatchIsFinite DEF B!ComeTo, RightCounters
  <1>9. ASSUME NEW w \in Runners, B!Count(w) PROVE BackfillInv'
    BY <1>9, BatchIsFinite DEF B!Count, RightCounters
  <1>10. ASSUME NEW w \in Runners, B!Finish(w) PROVE BackfillInv'
    <2>1. B!Cardinality(job[w].batch) = 0
      BY <1>10, SameCardinality, FS_EmptySet DEF B!Finish
    <2>2. apart => progress.total = progress.done /\ progress.errors <= progress.done
      BY <1>10, <2>1 DEF B!Finish, RightCounters
    <2>3. apart => \A v \in Runners : v # w => ~ AtWork(v)
      BY <1>10 DEF B!Finish
    <2> QED BY <1>10, <2>2, <2>3 DEF B!Finish, RightCounters, B!Idle
  <1>11. CASE UNCHANGED backfill
    BY <1>11 DEF backfill, RightCounters
  <1> QED
    BY <1>1, <1>2, <1>3, <1>4, <1>5, <1>6, <1>7, <1>8, <1>9, <1>10, <1>11
    DEF B!Next, B!Working, B!Appraise, B!RecalculateReputation, B!ComputeRiskScore

LEMMA CountersGiveTruth == ASSUME B!BackfillAssumption PROVE BackfillInv => B!StatusIsTrue
  <1> SUFFICES ASSUME BackfillInv, apart PROVE B!StatusIsTrue
    BY DEF B!StatusIsTrue
  <1>1. \A w \in Runners : B!Cardinality(job[w].batch) \in Nat
    BY BatchIsFinite DEF BackfillInv
  <1> QED BY <1>1 DEF BackfillInv, B!TypeOK, B!StatusIsTrue, AtWork, B!At, RightCounters

\* The counters that the status endpoint reports fit the work that is left (JobProgress), for
\* any number of items and workers, as long as the jobs of a kind do not overlap.
THEOREM StatusStaysTrue == OfficeSpec => [](B!TypeOK /\ StatusIsTrue)
  <1>1. OfficeInit => BackfillInv
    BY BeginApart, OfficeAssumption, BackfillInit
  <1>2. BackfillInv /\ [OfficeNext]_office => BackfillInv'
    BY StepsApart, OfficeAssumption, BackfillNext
  <1>3. BackfillInv => B!TypeOK /\ StatusIsTrue
    BY OfficeAssumption, CountersGiveTruth DEF BackfillInv, StatusIsTrue
  <1> QED BY <1>1, <1>2, <1>3, PTL DEF OfficeSpec

-----------------------------------------------------------------------------
(* Sessions: a user with any number of devices.                            *)

\* The call will store a token of its own, or has stored the one that is there.
OnTheWay(c) ==
  \/ call[c].at \in {"known", "checked", "issued"}
  \/ call[c].at = "answered" /\ call[c].token = stored /\ stored # 0

\* The device holds the stored token, and none of its calls has got anywhere.
SignedIn(d) ==
  /\ held[d] = stored /\ stored # 0
  /\ \A c \in S!Calls : c[1] = d => call[c].at \in {"idle", "sent"}

\* A device waits for the call it has started, and holds the token it has sent.
OneCallEach ==
  \A c \in S!Calls :
    call[c].at # "idle" =>
      /\ \A b \in S!Calls : b[1] = c[1] /\ b # c => call[b].at = "idle"
      /\ call[c].at = "sent" => call[c].token = held[c[1]]

\* The inductive invariant: a token that is to be stored is one; and as long as nothing fails
\* and no device is crowded, a user with an account has a device that is in or on the way.
SessionInv ==
  /\ S!TypeOK
  /\ \A c \in S!Calls : call[c].at \in {"issued", "answered"} => call[c].token # 0
  /\ \A c \in S!Calls : call[c].at = "idle" => call[c].token = 0
  /\ ~ crowded => /\ OneCallEach
                  /\ exists /\ faults = 0 =>
                       (\E c \in S!Calls : OnTheWay(c)) \/ \E d \in Devices : SignedIn(d)

LEMMA CallsHaveDevices == \A c \in S!Calls : c[1] \in Devices
  BY DEF S!Calls

LEMMA SessionInit == ASSUME S!SessionAssumption, S!Init PROVE SessionInv
  <1>1. \A c \in S!Calls : call[c] = [at |-> "idle", token |-> 0]
    BY DEF S!Init, S!Idle
  <1>2. 0 \in 0 .. MaxTokens /\ 0 \in 0 .. MaxFaults
    BY DEF S!SessionAssumption
  <1>3. S!TypeOK
    BY <1>2 DEF S!Init, S!TypeOK, S!Idle
  <1> QED BY <1>1, <1>3 DEF SessionInv, OneCallEach, S!Init

\* A device that sends a request waits for no other, unless it is crowded from now on.
LEMMA CallBegins ==
  ASSUME SessionInv, NEW c \in S!Calls, NEW at \in {"known", "sent"}, NEW token \in 0 .. MaxTokens,
         S!Begin(c, at, token)
  PROVE  /\ call[c].at = "idle" /\ call' = [call EXCEPT ![c] = [at |-> at, token |-> token]]
         /\ crowded' \in BOOLEAN
         /\ ~ crowded' => ~ crowded /\ \A b \in S!Calls : b[1] = c[1] => call[b].at = "idle"
  <1>1. ASSUME NEW b \in S!Calls, b[1] = c[1], ~ crowded' PROVE call[b].at = "idle"
    <2>1. b = <<c[1], b[2]>> /\ b[2] \in Slots
      BY <1>1 DEF S!Calls
    <2>2. call[<<c[1], b[2]>>] = S!Idle
      BY <1>1, <2>1 DEF S!Begin
    <2>3. call[b] = S!Idle
      BY <2>1, <2>2
    <2> QED BY <2>3 DEF S!Idle
  <1> QED BY <1>1 DEF S!Begin, S!Idle, SessionInv, S!TypeOK

LEMMA SessionStep == ASSUME S!SessionAssumption, SessionInv, [S!Next]_session PROVE SessionInv'
  <1> USE CallsHaveDevices
          DEF SessionInv, S!TypeOK, S!Goto, S!SessionAssumption, OnTheWay, SignedIn, OneCallEach
  <1>1. CASE UNCHANGED session
    BY <1>1 DEF session
  <1>2. CASE S!Expire
    BY <1>2 DEF S!Expire
  <1>3. ASSUME NEW c \in S!Calls, S!Register(c) \/ S!Login(c) PROVE SessionInv'
    <2>1. /\ call[c].at = "idle" /\ call' = [call EXCEPT ![c] = [at |-> "known", token |-> 0]]
          /\ crowded' \in BOOLEAN
          /\ ~ crowded' => ~ crowded /\ \A b \in S!Calls : b[1] = c[1] => call[b].at = "idle"
      BY <1>3, CallBegins DEF S!Register, S!Login
    <2>2. exists' \in BOOLEAN /\ UNCHANGED <<stored, issued, held, faults>>
      BY <1>3 DEF S!Register, S!Login
    <2> QED BY <2>1, <2>2
  <1>4. ASSUME NEW c \in S!Calls, S!RefreshSends(c) PROVE SessionInv'
    <2>1. /\ call[c].at = "idle" /\ call' = [call EXCEPT ![c] = [at |-> "sent", token |-> held[c[1]]]]
          /\ crowded' \in BOOLEAN
          /\ ~ crowded' => ~ crowded /\ \A b \in S!Calls : b[1] = c[1] => call[b].at = "idle"
      BY <1>4, CallBegins DEF S!RefreshSends
    <2>2. UNCHANGED <<exists, stored, issued, held, faults>>
      BY <1>4 DEF S!RefreshSends
    <2> QED BY <2>1, <2>2
  <1>5. ASSUME NEW c \in S!Calls, S!RefreshChecks(c) PROVE SessionInv'
    BY <1>5 DEF S!RefreshChecks
  <1>6. ASSUME NEW c \in S!Calls, S!Logout(c) PROVE SessionInv'
    BY <1>6 DEF S!Logout, S!Idle
  <1>7. ASSUME NEW c \in S!Calls, S!RefreshDeletes(c) PROVE SessionInv'
    BY <1>7 DEF S!RefreshDeletes
  <1>8. ASSUME NEW c \in S!Calls, S!IssueTokens(c) PROVE SessionInv'
    BY <1>8 DEF S!IssueTokens, S!Issue
  <1>9. ASSUME NEW c \in S!Calls, S!StoreRefresh(c) PROVE SessionInv'
    BY <1>9 DEF S!StoreRefresh
  <1>10. ASSUME NEW c \in S!Calls, S!Answer(c) PROVE SessionInv'
    BY <1>10 DEF S!Answer, S!Idle
  <1>11. ASSUME NEW c \in S!Calls, S!Fail(c) PROVE SessionInv'
    BY <1>11 DEF S!Fail, S!Idle
  <1> QED
    BY <1>1, <1>2, <1>3, <1>4, <1>5, <1>6, <1>7, <1>8, <1>9, <1>10, <1>11 DEF S!Next, S!Calling

\* Login, Register and Refresh of any number of devices, in any order: when they are over, none
\* has failed and no device had two under way, one device holds the token that is stored.
THEOREM SomeoneIsIn == OfficeSpec => [](S!TypeOK /\ OneDeviceIsIn)
  <1>1. OfficeInit => SessionInv
    BY BeginApart, OfficeAssumption, SessionInit
  <1>2. SessionInv /\ [OfficeNext]_office => SessionInv'
    BY StepsApart, OfficeAssumption, SessionStep
  <1>3. SessionInv => S!TypeOK /\ OneDeviceIsIn
    BY DEF SessionInv, OnTheWay, SignedIn, OneDeviceIsIn, S!OneDeviceIsIn, S!Idle
  <1> QED BY <1>1, <1>2, <1>3, PTL DEF OfficeSpec

-----------------------------------------------------------------------------
(* Accounts: a user with any number of requests.                           *)

SettingUp(s) == setup[s].at \in {"create", "store", "intent", "card"}

\* The inductive invariant, as long as no two setups have overlapped and none has failed: one
\* request at most is in flight, and once there is a customer, every card and every charge is
\* that customer's, and so is the card that is being saved.
AccountInv ==
  /\ A!TypeOK
  /\ undisturbed =>
       /\ \A s, t \in Setups : SettingUp(s) /\ SettingUp(t) => s = t
       /\ cards \cup charged \subseteq {customer} \ {0}
       /\ \A s \in Setups :
            /\ setup[s].at \in {"create", "store"} => customer = 0
            /\ setup[s].at = "store" => setup[s].object # 0
            /\ setup[s].at \in {"intent", "card"} => setup[s].object = customer /\ customer # 0

LEMMA AccountInit == ASSUME A!AccountAssumption, A!Init PROVE AccountInv
  <1>1. \A s \in Setups : setup[s] = [at |-> "idle", object |-> 0]
    BY DEF A!Init, A!Ready
  <1>2. A!TypeOK
    BY DEF A!AccountAssumption, A!Init, A!TypeOK, A!Ready, A!Objects
  <1> QED BY <1>1, <1>2 DEF AccountInv, A!Init, SettingUp

LEMMA AccountStep == ASSUME A!AccountAssumption, AccountInv, [A!Next]_stripe PROVE AccountInv'
  <1> USE DEF AccountInv, A!TypeOK, A!Ready, A!Objects, A!Goto, A!AccountAssumption, SettingUp
  <1>1. CASE UNCHANGED stripe
    BY <1>1 DEF stripe
  <1>2. CASE A!ChargeForDamageOverflow
    <2>1. /\ customer # 0 /\ charged' = charged \cup {customer}
          /\ UNCHANGED <<customer, account, made, setup, cards, undisturbed, errors>>
      BY <1>2 DEF A!ChargeForDamageOverflow
    <2>2. undisturbed => cards' \cup charged' \subseteq {customer} \ {0}
      BY <2>1
    <2> QED BY <2>1, <2>2
  <1>3. ASSUME NEW s \in Setups, A!SetupRenterPayment(s) PROVE AccountInv'
    <2>1. /\ UNCHANGED <<customer, account, made, cards, charged, errors>>
          /\ undisturbed' = (undisturbed /\ \A t \in Setups : setup[t] = A!Ready)
          /\ \/ /\ customer = 0
                /\ setup' = [setup EXCEPT ![s] = [at |-> "create", object |-> 0]]
             \/ /\ customer # 0
                /\ setup' = [setup EXCEPT ![s] = [at |-> "intent", object |-> customer]]
      BY <1>3 DEF A!SetupRenterPayment
    <2>2. /\ undisturbed' \in BOOLEAN
          /\ undisturbed' => undisturbed /\ \A t \in Setups : setup[t] = A!Ready
      BY Zenon, <2>1
    <2>3. A!TypeOK'
      BY <2>1, <2>2
    <2>4. ASSUME undisturbed'
          PROVE  /\ \A t \in Setups : t # s => setup'[t].at = "idle"
                 /\ cards' \cup charged' \subseteq {customer'} \ {0}
                 /\ setup'[s].object = customer'
                 /\ \/ setup'[s].at = "create" /\ customer' = 0
                    \/ setup'[s].at = "intent" /\ customer' # 0
      BY <2>1, <2>2, <2>4
    <2> QED BY <2>3, <2>4
  <1>4. ASSUME NEW s \in Setups, A!CreateCustomer(s) PROVE AccountInv'
    BY SMTT(30), <1>4 DEF A!CreateCustomer
  <1>5. ASSUME NEW s \in Setups, A!StoreStripeCustomerID(s) PROVE AccountInv'
    BY SMTT(30), <1>5 DEF A!StoreStripeCustomerID
  <1>6. ASSUME NEW s \in Setups, A!CreateSetupIntent(s) PROVE AccountInv'
    BY SMTT(30), <1>6 DEF A!CreateSetupIntent
  <1>7. ASSUME NEW s \in Setups, A!SaveCard(s) PROVE AccountInv'
    <2>1. /\ setup[s].object \in A!Objects /\ setup[s].at = "card"
          /\ setup' = [setup EXCEPT ![s] = [at |-> "idle", object |-> 0]]
          /\ cards' = cards \cup {setup[s].object} \/ cards' = cards
          /\ customer' = customer /\ charged' = charged /\ undisturbed' = undisturbed
          /\ UNCHANGED <<account, made, errors>>
      BY <1>7 DEF A!SaveCard
    <2>2. cards' \subseteq A!Objects
      BY <2>1
    <2>3. setup' \in [Setups -> [at : {"idle", "create", "store", "intent", "card", "account"},
                                 object : A!Objects]]
      BY <2>1
    <2>4. A!TypeOK'
      BY <2>1, <2>2, <2>3
    <2>5. undisturbed => cards' \cup charged' \subseteq {customer} \ {0}
      BY <2>1
    <2> QED BY <2>1, <2>4, <2>5
  <1>8. ASSUME NEW s \in Setups, A!CreateConnectedAccount(s) PROVE AccountInv'
    BY <1>8 DEF A!CreateConnectedAccount
  <1>9. ASSUME NEW s \in Setups, A!StoreStripeAccountID(s) PROVE AccountInv'
    BY <1>9 DEF A!StoreStripeAccountID
  <1>10. ASSUME NEW s \in Setups, A!Fail(s) PROVE AccountInv'
    <2>1. /\ errors' \in 0 .. MaxErrors /\ undisturbed' = FALSE
          /\ setup' = [setup EXCEPT ![s] = [at |-> "idle", object |-> 0]]
          /\ UNCHANGED <<customer, account, made, cards, charged>>
      BY <1>10 DEF A!Fail
    <2>2. setup' \in [Setups -> [at : {"idle", "create", "store", "intent", "card", "account"},
                                 object : A!Objects]]
      BY <2>1
    <2> QED BY <2>1, <2>2
  <1> QED
    BY <1>1, <1>2, <1>3, <1>4, <1>5, <1>6, <1>7, <1>8, <1>9, <1>10 DEF A!Next, A!Setting

\* SetupRenterPayment and ChargeForDamageOverflow over any number of setups: as long as no two
\* overlap and none fails, damage is charged to the customer that has the user's cards.
THEOREM CardsAreTheChargedOnes == OfficeSpec => [](A!TypeOK /\ CardIsTheChargedOnes)
  <1>1. OfficeInit => AccountInv
    BY BeginApart, OfficeAssumption, AccountInit
  <1>2. AccountInv /\ [OfficeNext]_office => AccountInv'
    BY StepsApart, OfficeAssumption, AccountStep
  <1>3. AccountInv => A!TypeOK /\ CardIsTheChargedOnes
    BY DEF AccountInv, CardIsTheChargedOnes, A!CardIsTheChargedOnes
  <1> QED BY <1>1, <1>2, <1>3, PTL DEF OfficeSpec


-----------------------------------------------------------------------------
(* Discovery: a feed of any length, pages of any size.                     *)

\* A set of naturals that is not empty has a least element.
LEMMA LeastInSet ==
  ASSUME NEW of \in SUBSET Nat, of # {}
  PROVE  \E x \in of : \A y \in of : x <= y
  <1> DEFINE Less == OpToRel(<, Nat)
  <1>1. Less = {ss \in Nat \X Nat : ss[1] < ss[2]}
    BY Zenon DEF OpToRel
  <1>2. PICK x \in of : \A y \in of : <<y, x>> \notin Less
    <2> HIDE DEF Less
    <2>1. IsWellFoundedOn(Less, Nat)
      BY NatLessThanWellFounded DEF Less
    <2> QED BY <2>1, WFMin
  <1>3. ASSUME NEW y \in of PROVE x <= y
    <2> HIDE DEF Less
    <2>1. <<y, x>> \notin Less
      BY <1>2
    <2>2. ~ (y < x)
      BY <1>1, <2>1
    <2> QED BY <2>2
  <1> QED BY <1>3

LEMMA CountInListings ==
  ASSUME D!DiscoveryAssumption, NEW of \in SUBSET D!Listings
  PROVE  /\ D!Cardinality(of) = Cardinality(of) /\ IsFiniteSet(of) /\ Cardinality(of) \in Nat
         /\ \A less \in SUBSET of : Cardinality(less) <= Cardinality(of)
  <1>1. D!Cardinality(of) = Cardinality(of)
    BY Zenon DEF D!Cardinality, Cardinality
  <1>2. IsFiniteSet(D!Listings)
    BY FS_Interval DEF D!Listings, D!DiscoveryAssumption
  <1>3. IsFiniteSet(of)
    BY <1>2, FS_Subset
  <1> QED BY <1>1, <1>3, FS_CardinalityType, FS_Subset

\* Query: whatever is below the cursor and not on the page is older than all of the page, and
\* there is a page.
LEMMA PageIsNewest ==
  ASSUME D!DiscoveryAssumption, D!TypeOK, NEW cursor \in Nat, NEW l \in D!Below(cursor),
         l \notin D!Page(cursor)
  PROVE  D!Page(cursor) # {} /\ \A k \in D!Page(cursor) : l < k
  <1> DEFINE all == D!Below(cursor)
             Newer(k) == {j \in all : j > k}
  <1>1. all \in SUBSET D!Listings /\ D!Page(cursor) = {k \in all : D!Cardinality(Newer(k)) < Limit}
    BY DEF D!Below, D!Page, D!TypeOK
  <1>2. D!Listings \subseteq Nat /\ Limit \in Nat \ {0} /\ MaxListings \in Nat
        /\ \A k \in D!Listings : k <= MaxListings
    BY DEF D!Listings, D!DiscoveryAssumption
  <1> HIDE DEF all
  <1>3. ASSUME NEW k \in D!Page(cursor) PROVE l < k
    <2> SUFFICES ASSUME ~ l < k PROVE FALSE
      OBVIOUS
    <2>1. l \in all /\ k \in all /\ k \in Nat /\ l \in Nat
      BY <1>1, <1>2 DEF all
    <2>2. Newer(l) \in SUBSET Newer(k) /\ Newer(k) \in SUBSET D!Listings
          /\ Newer(l) \in SUBSET D!Listings
      <3>1. \A j \in all : j \in Nat /\ j \in D!Listings
        BY <1>1, <1>2
      <3>2. \A j \in all : j > l => j > k
        BY <2>1, <3>1
      <3> QED BY <3>1, <3>2
    <2> HIDE DEF Newer
    <2>3. D!Cardinality(Newer(l)) <= D!Cardinality(Newer(k)) /\ D!Cardinality(Newer(l)) \in Nat
          /\ D!Cardinality(Newer(k)) \in Nat
      BY <2>2, CountInListings
    <2>4. D!Cardinality(Newer(k)) < Limit
      BY <1>1
    <2>5. D!Cardinality(Newer(l)) < Limit
      BY <1>2, <2>3, <2>4
    <2> QED BY <1>1, <2>1, <2>5
  <1>4. D!Page(cursor) # {}
    <2> DEFINE ages == {MaxListings - k : k \in all}
    <2>1. ages \in SUBSET Nat /\ ages # {}
      <3>1. \A k \in all : MaxListings - k \in Nat
        BY <1>1, <1>2
      <3>2. l \in all
        BY DEF all
      <3> QED BY <3>1, <3>2
    <2>2. PICK x \in ages : \A y \in ages : x <= y
      BY <2>1, LeastInSet
    <2>3. PICK k \in all : x = MaxListings - k
      OBVIOUS
    <2>4. Newer(k) = {}
      <3> SUFFICES ASSUME NEW j \in all, j > k PROVE FALSE
        OBVIOUS
      <3>1. MaxListings - k <= MaxListings - j
        BY <2>2, <2>3
      <3> QED BY <1>1, <1>2, <3>1
    <2>5. D!Cardinality(Newer(k)) = 0
      BY <2>4, CountInListings, FS_EmptySet
    <2> QED BY <1>1, <1>2, <2>5
  <1> QED BY <1>3, <1>4

\* Book and ResponseRate: a transaction more never makes a host unresponsive.
LEMMA MoreIsResponsive ==
  ASSUME NEW r, r.all \in Nat, r.expired \in Nat, r.expired <= r.all, D!ResponseRate(r) >= 30,
         NEW s, s.all = r.all + 1, s.expired = r.expired
  PROVE  D!ResponseRate(s) >= 30
  <1>1. ASSUME NEW x \in Nat, NEW n \in Nat \ {0} PROVE x \div n >= 30 <=> x >= 30 * n
    <2> DEFINE q == x \div n
    <2>1. q \in Nat /\ x % n \in 0 .. n - 1 /\ x = (n * q) + (x % n)
      OBVIOUS
    <2> HIDE DEF q
    <2>2. CASE q >= 30
      <3>1. n * q >= n * 30
        BY <2>1, <2>2
      <3> QED BY <2>1, <2>2, <3>1 DEF q
    <2>3. CASE q <= 29
      <3>1. n * q <= n * 29
        BY <2>1, <2>3
      <3> QED BY <2>1, <2>3, <3>1 DEF q
    <2> QED BY <2>1, <2>2, <2>3
  <1>2. CASE r.all = 0
    BY <1>2 DEF D!ResponseRate
  <1>3. CASE r.all # 0
    <2>1. 100 * (r.all - r.expired) \in Nat /\ 100 * (s.all - s.expired) \in Nat
          /\ s.all \in Nat \ {0} /\ r.all \in Nat \ {0}
      BY <1>3
    <2>2. 100 * (r.all - r.expired) >= 30 * r.all
      BY <1>1, <1>3, <2>1 DEF D!ResponseRate
    <2>3. 100 * (s.all - s.expired) >= 30 * s.all
      BY <2>1, <2>2
    <2> QED BY <1>1, <2>1, <2>3 DEF D!ResponseRate
  <1> QED BY <1>2, <1>3

Missed == steady \ scroll.shown

\* The inductive invariant: the hosts of the listings that are there for the renter keep him in,
\* and what he has missed of them so far is below the cursor, and, while a page is enriched, on
\* that page and not yet left out, or older than all of it.
FeedInv ==
  /\ D!TypeOK /\ FeedIsWhole
  /\ \A h \in Hosts : requests[h].expired <= requests[h].all
  /\ \A l \in steady : D!Responsive(owner[l])
  /\ scroll.left # {} => scroll.at = "enrich"
  /\ scroll.at \in {"query", "enrich"} =>
       \A l \in Missed : scroll.cursor = 0 \/ l < scroll.cursor
  /\ scroll.at = "enrich" =>
       \A l \in Missed : \/ l \in scroll.left \cup scroll.kept
                         \/ scroll.found # {} /\ \A k \in scroll.found : l < k

LEMMA FeedInit == ASSUME D!DiscoveryAssumption, D!Init PROVE FeedInv
  <1>1. 0 \in 0 .. MaxListings /\ 0 \in 0 .. MaxRequests
    BY DEF D!DiscoveryAssumption
  <1>2. D!TypeOK
    BY <1>1 DEF D!Init, D!TypeOK, D!NewScroll
  <1> QED BY <1>2 DEF D!Init, D!NewScroll, FeedInv, FeedIsWhole, D!FeedIsWhole, Missed

LEMMA FeedStep == ASSUME D!DiscoveryAssumption, FeedInv, [D!Next]_discovery PROVE FeedInv'
  <1> USE DEF FeedInv, D!TypeOK, Missed, FeedIsWhole, D!FeedIsWhole, D!DiscoveryAssumption
  <1>1. CASE UNCHANGED discovery
    BY <1>1 DEF discovery, D!Responsive
  <1>2. ASSUME NEW l \in D!Listings, D!Publish(l) PROVE FeedInv'
    BY <1>2 DEF D!Publish, D!Responsive
  <1>3. ASSUME NEW l \in D!Listings, D!Withdraw(l) PROVE FeedInv'
    BY <1>3 DEF D!Withdraw, D!Responsive
  <1>4. ASSUME NEW h \in Hosts, D!Book(h) PROVE FeedInv'
    <2>1. /\ requests' = [requests EXCEPT ![h].all = requests[h].all + 1]
          /\ UNCHANGED <<owner, active, scroll, steady>>
          /\ requests[h].all < MaxRequests
      BY <1>4 DEF D!Book
    <2>2. /\ requests'[h].all = requests[h].all + 1 /\ requests'[h].expired = requests[h].expired
          /\ requests[h].all \in Nat /\ requests[h].expired \in Nat
          /\ \A g \in Hosts : g # h => requests'[g] = requests[g]
          /\ requests' \in [Hosts -> [all : 0 .. MaxRequests, expired : 0 .. MaxRequests]]
      BY <2>1
    <2>3. ASSUME NEW l \in steady PROVE D!Responsive(owner[l])'
      <3>1. owner[l] \in Hosts /\ D!ResponseRate(requests[owner[l]]) >= 30
        BY DEF D!Responsive
      <3>2. D!ResponseRate(requests'[owner[l]]) >= 30
        BY <2>2, <3>1, MoreIsResponsive
      <3> QED BY <2>1, <3>2 DEF D!Responsive
    <2> QED BY <2>1, <2>2, <2>3
  <1>5. ASSUME NEW h \in Hosts, D!AutoDecline(h) PROVE FeedInv'
    BY <1>5 DEF D!AutoDecline, D!Responsive
  <1>6. CASE D!Open
    BY <1>6 DEF D!Open, D!NewScroll, D!Responsive
  <1>7. CASE D!Query
    <2> DEFINE page == D!Page(scroll.cursor)
    <2>1. page \subseteq D!Below(scroll.cursor) /\ D!Below(scroll.cursor) \subseteq D!Listings
      BY DEF D!Page, D!Below
    <2>2. ASSUME NEW l \in Missed, l \notin page PROVE page # {} /\ \A k \in page : l < k
      <3>1. l \in D!Below(scroll.cursor) /\ scroll.cursor \in Nat
        BY <1>7 DEF D!Query, D!Below
      <3> QED BY <2>2, <3>1, PageIsNewest
    <2> HIDE DEF page
    <2>3. /\ scroll' = [scroll EXCEPT !.at = "enrich", !.found = page, !.left = page, !.kept = {}]
          /\ scroll.at = "query" /\ UNCHANGED <<owner, active, requests, steady>>
      BY <1>7 DEF D!Query, page
    <2>4. D!TypeOK'
      BY <2>1, <2>3
    <2>5. \A l \in Missed' : \/ l \in scroll'.left
                             \/ scroll'.found # {} /\ \A k \in scroll'.found : l < k
      BY <2>2, <2>3
    <2> QED BY <2>3, <2>4, <2>5 DEF D!Responsive
  <1>8. ASSUME NEW l \in D!Listings, D!Enrich(l) PROVE FeedInv'
    <2>1. PICK drive \in D!Estimate(l) :
            scroll' = [scroll EXCEPT !.left = scroll.left \ {l},
                                     !.kept = IF D!Responsive(owner[l]) /\ drive # "long drive"
                                              THEN scroll.kept \cup {l} ELSE scroll.kept]
      BY <1>8 DEF D!Enrich
    <2> DEFINE kept == IF D!Responsive(owner[l]) /\ drive # "long drive"
                       THEN scroll.kept \cup {l} ELSE scroll.kept
    <2>2. /\ l \in scroll.left /\ scroll.at = "enrich"
          /\ UNCHANGED <<owner, active, requests, steady>>
      BY <1>8 DEF D!Enrich, D!Turn
    <2>3. kept \subseteq scroll.kept \cup {l} /\ scroll.kept \subseteq kept
          /\ (l \in steady => l \in kept)
      BY DEF D!Estimate
    <2> HIDE DEF kept
    <2>4. scroll' = [scroll EXCEPT !.left = scroll.left \ {l}, !.kept = kept]
      BY <2>1 DEF kept
    <2>5. D!TypeOK'
      BY <2>2, <2>3, <2>4
    <2>6. \A k \in Missed' : \/ k \in scroll'.left \cup scroll'.kept
                             \/ scroll'.found # {} /\ \A m \in scroll'.found : k < m
      BY <2>2, <2>3, <2>4
    <2> QED BY <2>2, <2>4, <2>5, <2>6 DEF D!Responsive
  <1>9. ASSUME NEW l \in D!Listings, D!StatsFail(l) PROVE FeedInv'
    BY <1>9 DEF D!StatsFail, D!Turn, D!Responsive
  <1>10. CASE D!Rank
    <2>1. scroll.at = "enrich" /\ scroll.left = {} /\ UNCHANGED <<owner, active, requests, steady>>
      BY <1>10 DEF D!Rank
    <2>2. CASE scroll.kept = {}
      <3> DEFINE none == scroll.found # {}
      <3>1. scroll' = [scroll EXCEPT !.at = "end", !.emptied = none]
        BY <1>10, <2>2 DEF D!Rank
      <3>2. none \in BOOLEAN /\ (~ none => Missed = {})
        BY <2>1, <2>2
      <3> HIDE DEF none
      <3>3. D!TypeOK'
        BY <2>1, <3>1, <3>2
      <3> QED BY <2>1, <3>1, <3>2, <3>3 DEF D!Responsive
    <2>3. CASE scroll.kept # {}
      <3>1. PICK last \in scroll.kept :
              scroll' = [scroll EXCEPT !.at = "query", !.cursor = last,
                                       !.shown = scroll.shown \cup scroll.kept]
        BY <1>10, <2>3 DEF D!Rank
      <3>2. last \in 0 .. MaxListings /\ last \in scroll.found
        BY DEF D!Listings
      <3>3. D!TypeOK'
        BY <2>1, <3>1, <3>2
      <3>4. \A l \in Missed' : l < scroll'.cursor
        BY <2>1, <3>1, <3>2
      <3> QED BY <2>1, <3>1, <3>3, <3>4 DEF D!Responsive
    <2> QED BY <2>2, <2>3
  <1>11. CASE D!Fail
    <2>1. scroll.at \in {"query", "enrich"} /\ UNCHANGED <<owner, active, requests>>
      BY <1>11 DEF D!Fail
    <2>2. CASE scroll' = [scroll EXCEPT !.at = "query", !.found = {}, !.left = {}, !.kept = {}]
      BY <1>11, <2>1, <2>2 DEF D!Fail, D!Responsive
    <2>3. CASE scroll' = [D!NewScroll EXCEPT !.at = "away"]
      <3>1. scroll' = [at |-> "away", cursor |-> 0, found |-> {}, left |-> {}, kept |-> {},
                       shown |-> {}, emptied |-> FALSE] /\ steady' = {}
        BY <1>11, <2>3 DEF D!Fail, D!NewScroll
      <3>2. D!TypeOK'
        BY <2>1, <3>1
      <3> QED BY <2>1, <3>1, <3>2
    <2> QED BY <1>11, <2>2, <2>3 DEF D!Fail
  <1> QED BY <1>1, <1>2, <1>3, <1>4, <1>5, <1>6, <1>7, <1>8, <1>9, <1>10, <1>11 DEF D!Next

\* Query, enrichListings and the cursor of useDiscovery, whatever comes and goes meanwhile: who
\* scrolls to the end has seen every listing that was there for him all the time.
THEOREM FeedStaysWhole == OfficeSpec => [](D!TypeOK /\ FeedIsWhole)
  <1>1. OfficeInit => FeedInv
    BY BeginApart, OfficeAssumption, FeedInit
  <1>2. FeedInv /\ [OfficeNext]_office => FeedInv'
    BY StepsApart, OfficeAssumption, FeedStep
  <1>3. FeedInv => D!TypeOK /\ FeedIsWhole
    BY DEF FeedInv
  <1> QED BY <1>1, <1>2, <1>3, PTL DEF OfficeSpec

-----------------------------------------------------------------------------
(* RowOrder: what a query returns in order, whatever the rows.             *)

UpTo(of, x) == {y \in of : y <= x}

\* The place of a number among the others of its set.
LEMMA PlacesGrow ==
  ASSUME NEW of \in SUBSET Nat, IsFiniteSet(of), NEW x \in of
  PROVE  /\ Cardinality(UpTo(of, x)) \in 1 .. Cardinality(of)
         /\ \A y \in of : x < y => Cardinality(UpTo(of, x)) < Cardinality(UpTo(of, y))
  <1>1. ASSUME NEW z \in of
        PROVE  /\ IsFiniteSet(UpTo(of, z)) /\ Cardinality(UpTo(of, z)) \in Nat
               /\ Cardinality(UpTo(of, z)) <= Cardinality(of) /\ Cardinality(of) \in Nat
    <2>1. UpTo(of, z) \in SUBSET of
      BY DEF UpTo
    <2> QED BY <2>1, FS_Subset, FS_CardinalityType
  <1>2. Cardinality(UpTo(of, x)) # 0
    <2>1. x \in UpTo(of, x)
      BY DEF UpTo
    <2> QED BY <1>1, <2>1, FS_EmptySet
  <1>3. ASSUME NEW y \in of, x < y
        PROVE  Cardinality(UpTo(of, x)) < Cardinality(UpTo(of, y))
    <2>1. UpTo(of, x) \in SUBSET UpTo(of, y) /\ y \in UpTo(of, y) /\ y \notin UpTo(of, x)
      <3>1. \A z \in of : z \in Nat
        OBVIOUS
      <3>2. x \in Nat /\ y \in Nat /\ \A z \in of : z <= x => z <= y
        BY <1>3, <3>1
      <3>3. \A z \in of : z \in UpTo(of, x) => z \in UpTo(of, y)
        BY <3>2 DEF UpTo
      <3>4. y \in UpTo(of, y) /\ ~ (y <= x)
        BY <1>3, <3>2 DEF UpTo
      <3> QED BY <3>3, <3>4 DEF UpTo
    <2>2. /\ Cardinality(UpTo(of, x)) <= Cardinality(UpTo(of, y))
          /\ Cardinality(UpTo(of, x)) # Cardinality(UpTo(of, y))
      BY <1>1, <2>1, FS_Subset
    <2> QED BY <1>1, <2>2
  <1> QED BY <1>1, <1>2, <1>3

\* ORDER BY: every row once, in ascending order.
LEMMA InOrder ==
  ASSUME NEW of \in SUBSET Nat, IsFiniteSet(of)
  PROVE  /\ Cardinality(of) \in Nat /\ Ascending(of) \in Seq(of)
         /\ Len(Ascending(of)) = Cardinality(of)
         /\ \A i, j \in 1 .. Cardinality(of) : i < j => Ascending(of)[i] < Ascending(of)[j]
         /\ \A x \in of : \E i \in 1 .. Cardinality(of) : Ascending(of)[i] = x
  <1> DEFINE n == Cardinality(of)
             place == [x \in of |-> Cardinality(UpTo(of, x))]
  <1>1. n \in Nat
    BY FS_CardinalityType
  <1>2. place \in [of -> 1 .. n] /\ \A x, y \in of : x < y => place[x] < place[y]
    BY PlacesGrow
  <1> HIDE DEF place
  <1>3. \A x, y \in of : place[x] = place[y] => x = y
    <2> SUFFICES ASSUME NEW x \in of, NEW y \in of, place[x] = place[y], x # y PROVE FALSE
      OBVIOUS
    <2>1. x < y \/ y < x
      OBVIOUS
    <2>2. place[x] \in Nat /\ place[y] \in Nat
      BY <1>1, <1>2
    <2> QED BY <1>2, <2>1, <2>2
  <1>4. place \in Surjection(of, 1 .. n)
    <2>1. place \in Injection(of, 1 .. n)
      BY <1>2, <1>3 DEF Injection, IsInjective
    <2>2. IsFiniteSet(1 .. n) /\ Cardinality(1 .. n) = n
      BY <1>1, FS_Interval
    <2> QED BY <2>1, <2>2, FS_Injection
  <1>5. ASSUME NEW i \in 1 .. n PROVE \E x \in of : place[x] = i
    BY <1>4 DEF Surjection
  <1>6. ASSUME NEW i \in 1 .. n PROVE Ascending(of)[i] \in of /\ place[Ascending(of)[i]] = i
    <2>1. Ascending(of)[i] = CHOOSE x \in of : Cardinality({y \in of : y <= x}) = i
      BY DEF Ascending
    <2>2. \E x \in of : Cardinality({y \in of : y <= x}) = i
      BY <1>5 DEF place, UpTo
    <2>3. Ascending(of)[i] \in of /\ Cardinality({y \in of : y <= Ascending(of)[i]}) = i
      BY <2>1, <2>2
    <2> QED BY <2>3 DEF place, UpTo
  <1>7. Ascending(of) = [i \in 1 .. n |-> Ascending(of)[i]]
    BY DEF Ascending
  <1>8. Ascending(of) \in [1 .. n -> of]
    BY <1>6, <1>7
  <1>9. Ascending(of) \in Seq(of) /\ Len(Ascending(of)) = n
    BY <1>1, <1>8
  <1>10. ASSUME NEW i \in 1 .. n, NEW j \in 1 .. n, i < j
         PROVE  Ascending(of)[i] < Ascending(of)[j]
    <2> DEFINE a == Ascending(of)[i]
               b == Ascending(of)[j]
    <2>1. a \in of /\ b \in of /\ place[a] = i /\ place[b] = j
      BY <1>6
    <2> HIDE DEF a, b
    <2>2. ~ (b < a) /\ b # a
      BY <1>1, <1>2, <1>10, <2>1
    <2>3. a < b
      BY <2>1, <2>2
    <2> QED BY <2>3 DEF a, b
  <1>11. ASSUME NEW x \in of PROVE \E i \in 1 .. n : Ascending(of)[i] = x
    <2>1. place[x] \in 1 .. n
      BY <1>2
    <2> QED BY <1>3, <1>6, <2>1
  <1> QED BY <1>1, <1>9, <1>10, <1>11

-----------------------------------------------------------------------------
(* Messaging: a thread of any length, read in pages of any size.           *)

Ids == 1 .. MaxMessages
Later(cursor) == {rows[i] : i \in DOMAIN rows} \ 0 .. cursor

LEMMA SameOrderOfMessages == \A of : M!Ascending(of) = Ascending(of)
  BY Zenon DEF M!Ascending, Ascending, M!Cardinality, Cardinality

\* GetMessages: a page holds messages after the cursor in ascending order; those it leaves out are
\* after its last one, and there are none unless it is full.
LEMMA PageIsNext ==
  ASSUME M!MessagingAssumption, rows \in Seq(Ids), NEW cursor \in 0 .. MaxMessages,
         NEW page, page = M!Page(cursor)
  PROVE  /\ page \in Seq(Ids) /\ Len(page) \in 0 .. PageSize
         /\ \A i \in 1 .. Len(page) : page[i] > cursor
         /\ \A i, j \in 1 .. Len(page) : i < j => page[i] < page[j]
         /\ \A x \in Later(cursor) : \/ \E i \in 1 .. Len(page) : page[i] = x
                                     \/ Len(page) = PageSize /\ x > page[PageSize]
  <1> DEFINE later == Later(cursor)
             all == Ascending(later)
             n == Cardinality(later)
             m == IF n < PageSize THEN n ELSE PageSize
  <1>1. later \in SUBSET Nat /\ \A x \in later : x \in Ids /\ x > cursor
    BY DEF Later, Ids, M!MessagingAssumption
  <1>2. IsFiniteSet(later)
    <2>1. later \in SUBSET Ids /\ IsFiniteSet(Ids)
      BY <1>1, FS_Interval DEF M!MessagingAssumption, Ids
    <2> QED BY <2>1, FS_Subset
  <1> HIDE DEF later
  <1>3. /\ n \in Nat /\ all \in Seq(later) /\ Len(all) = n
        /\ \A i, j \in 1 .. n : i < j => all[i] < all[j]
        /\ \A x \in later : \E i \in 1 .. n : all[i] = x
    BY <1>1, <1>2, InOrder
  <1>4. M!After(cursor) = all
    BY SameOrderOfMessages DEF M!After, Later, later
  <1> HIDE DEF all, n
  <1>5. page = SubSeq(all, 1, m)
    BY <1>3, <1>4 DEF M!Page
  <1>6. m \in Nat /\ m <= n /\ m <= PageSize /\ PageSize \in Nat \ {0}
        /\ (m = n \/ m = PageSize)
    BY <1>3 DEF M!MessagingAssumption
  <1> HIDE DEF m
  <1>7. all \in [1 .. n -> later]
    BY <1>3
  <1>8. /\ page \in Seq(later) /\ Len(page) = m
        /\ \A i \in 1 .. m : page[i] = all[i] /\ page[i] \in later
    <2>1. \A i \in 1 .. m : all[i] \in later
      BY <1>3, <1>6, <1>7
    <2>2. /\ SubSeq(all, 1, m) \in Seq(later)
          /\ Len(SubSeq(all, 1, m)) = IF 1 <= m THEN m - 1 + 1 ELSE 0
          /\ \A i \in 1 .. m - 1 + 1 : SubSeq(all, 1, m)[i] = all[1 + i - 1]
      BY <1>6, <2>1, SubSeqProperties
    <2>3. Len(SubSeq(all, 1, m)) = m /\ \A i \in 1 .. m : SubSeq(all, 1, m)[i] = all[i]
      BY <1>6, <2>2
    <2> QED BY <1>5, <2>1, <2>2, <2>3
  <1>9. page \in Seq(Ids)
    <2>1. later \subseteq Ids
      BY <1>1
    <2> QED BY <1>8, <2>1, SeqMonotonic
  <1>10. ASSUME NEW x \in later
         PROVE  \/ \E i \in 1 .. m : page[i] = x
                \/ m = PageSize /\ x > page[PageSize]
    <2>1. PICK i \in 1 .. n : all[i] = x
      BY <1>3
    <2>2. CASE i <= m
      BY <1>8, <2>1, <2>2
    <2>3. CASE i > m
      <3>1. m = PageSize /\ m \in 1 .. n
        BY <1>6, <2>1, <2>3
      <3>2. all[m] < all[i]
        BY <1>3, <2>1, <2>3, <3>1
      <3>3. page[m] = all[m] /\ all[m] \in Nat /\ x \in Nat
        <4>1. m \in 1 .. m
          BY <1>6, <3>1
        <4>2. page[m] = all[m] /\ all[m] \in later
          BY <1>8, <4>1
        <4> QED BY <1>1, <4>2
      <3> QED BY <2>1, <3>1, <3>2, <3>3
    <2> QED BY <1>6, <2>1, <2>2, <2>3
  <1>11. \A i, j \in 1 .. m : i < j => page[i] < page[j]
    BY <1>3, <1>6, <1>8
  <1> QED BY <1>1, <1>6, <1>8, <1>9, <1>10, <1>11 DEF later

Was(x, id) == \E j \in 1 .. Len(x.read) : x.read[j] = id

\* What a reader has read so far: in ascending order, up to the cursor, and of the messages that
\* were there when the thread was opened all that the cursor has passed.
ReadInv(x) ==
  /\ x.before <= Len(rows)
  /\ \A i, j \in 1 .. Len(x.read) : i < j => x.read[i] < x.read[j]
  /\ x.at = "reading" => \A j \in 1 .. Len(x.read) : x.read[j] <= x.cursor
  /\ x.at = "reading" => \A i \in 1 .. x.before : rows[i] > x.cursor \/ Was(x, rows[i])
  /\ x.at = "done" => \A i \in 1 .. x.before : Was(x, rows[i])

\* The ids that were given out are those of one row or one draft each.
IdsInv ==
  /\ ids \in 0 .. MaxMessages /\ draft \in [Senders -> 0 .. MaxMessages] /\ rows \in Seq(Ids)
  /\ \A s \in Senders : draft[s] <= ids
  /\ \A i \in 1 .. Len(rows) : rows[i] <= ids
  /\ \A i, j \in 1 .. Len(rows) : rows[i] = rows[j] => i = j
  /\ \A s \in Senders, i \in 1 .. Len(rows) : draft[s] # rows[i]
  /\ \A s, t \in Senders : draft[s] = draft[t] => s = t \/ draft[s] = 0

\* The inductive invariant.
ThreadInv ==
  /\ IdsInv
  /\ reader \in [Readers -> [at : {"away", "reading", "done"}, shown : 0 .. MaxMessages,
                             before : 0 .. MaxMessages, cursor : 0 .. MaxMessages,
                             read : Seq(Ids)]]
  /\ \A r \in Readers : ReadInv(reader[r])

LEMMA RowsAreFew == ASSUME M!MessagingAssumption, IdsInv PROVE Len(rows) \in 0 .. MaxMessages
  <1>1. Len(rows) \in Nat /\ rows \in [1 .. Len(rows) -> Ids] /\ MaxMessages \in Nat
    BY LenProperties DEF IdsInv, M!MessagingAssumption
  <1>2. rows \in Injection(1 .. Len(rows), Ids)
    BY <1>1 DEF IdsInv, Injection, IsInjective
  <1>3. IsFiniteSet(Ids) /\ Cardinality(Ids) = MaxMessages
    BY SMTT(30), <1>1, FS_Interval DEF Ids
  <1>4. Cardinality(1 .. Len(rows)) <= Cardinality(Ids)
    BY <1>2, <1>3, FS_Injection
  <1>5. Cardinality(1 .. Len(rows)) = Len(rows)
    BY SMTT(30), <1>1, FS_Interval
  <1> QED BY <1>1, <1>3, <1>4, <1>5

LEMMA IdsStep ==
  ASSUME M!MessagingAssumption, IdsInv, [M!Next]_messaging
  PROVE  IdsInv' /\ Len(rows) <= Len(rows') /\ \A i \in 1 .. Len(rows) : rows'[i] = rows[i]
  <1> USE DEF IdsInv, M!MessagingAssumption
  <1>1. ASSUME NEW s \in Senders, M!SendMessage(s) PROVE IdsInv' /\ rows' = rows
    BY <1>1 DEF M!SendMessage, Ids
  <1>2. ASSUME NEW s \in Senders, M!InsertFails(s) PROVE IdsInv' /\ rows' = rows
    BY <1>2 DEF M!InsertFails, Ids
  <1>3. ASSUME NEW s \in Senders, M!Insert(s)
        PROVE  IdsInv' /\ Len(rows) <= Len(rows') /\ \A i \in 1 .. Len(rows) : rows'[i] = rows[i]
    <2>1. draft[s] \in Ids /\ Len(rows) \in Nat
      BY <1>3 DEF M!Insert, Ids
    <2>2. /\ rows' \in Seq(Ids) /\ Len(rows') = Len(rows) + 1 /\ rows'[Len(rows) + 1] = draft[s]
          /\ \A i \in 1 .. Len(rows) : rows'[i] = rows[i]
      BY <1>3, <2>1 DEF M!Insert
    <2>3. \A i \in 1 .. Len(rows') : i \in 1 .. Len(rows) \/ i = Len(rows) + 1
      BY <2>1, <2>2
    <2>4. /\ ids' = ids /\ draft' \in [Senders -> 0 .. MaxMessages] /\ draft'[s] = 0
          /\ \A t \in Senders : t # s => draft'[t] = draft[t]
      BY <1>3 DEF M!Insert
    <2> DEFINE n == Len(rows)
    <2> HIDE DEF n
    <2>5. \A i \in 1 .. n : rows[i] \in Ids
      BY ElementOfSeq DEF n
    <2>6. /\ \A i \in 1 .. n : rows'[i] = rows[i] /\ rows'[i] # draft[s]
          /\ rows'[n + 1] = draft[s] /\ Len(rows') = n + 1 /\ n \in Nat
          /\ \A i \in 1 .. n + 1 : i \in 1 .. n \/ i = n + 1
          /\ n + 1 \notin 1 .. n
      BY <2>1, <2>2, <2>3 DEF n
    <2>7. \A i \in 1 .. n + 1 : rows'[i] <= ids'
      BY <2>4, <2>6 DEF n
    <2>8. \A i, j \in 1 .. n + 1 : rows'[i] = rows'[j] => i = j
      BY <2>6 DEF n
    <2>9. \A t \in Senders, i \in 1 .. n + 1 : draft'[t] # rows'[i]
      <3>1. \A i \in 1 .. n + 1 : rows'[i] # 0
        BY <2>1, <2>5, <2>6 DEF Ids
      <3>2. \A t \in Senders : t # s => draft[t] # draft[s]
        BY <2>1 DEF Ids
      <3> QED BY <2>4, <2>6, <3>1, <3>2 DEF n
    <2>10. \A t, u \in Senders : draft'[t] = draft'[u] => t = u \/ draft'[t] = 0
      BY <2>4
    <2>11. \A t \in Senders : draft'[t] <= ids'
      BY <2>4
    <2>12. IdsInv'
      <3>1. 1 .. Len(rows') = 1 .. n + 1 /\ ids' \in 0 .. MaxMessages
        BY <2>4, <2>6
      <3> HIDE DEF IdsInv
      <3>2. /\ \A i \in 1 .. Len(rows') : rows'[i] <= ids'
            /\ \A i, j \in 1 .. Len(rows') : rows'[i] = rows'[j] => i = j
            /\ \A t \in Senders, i \in 1 .. Len(rows') : draft'[t] # rows'[i]
        BY Zenon, <2>7, <2>8, <2>9, <3>1
      <3> QED BY Zenon, <2>2, <2>4, <2>10, <2>11, <3>1, <3>2 DEF IdsInv
    <2> QED BY <2>1, <2>2, <2>12
  <1>4. CASE UNCHANGED <<ids, draft, rows>>
    BY <1>4
  <1>5. Len(rows) \in Nat
    BY LenProperties
  <1>6. \/ UNCHANGED <<ids, draft, rows>>
        \/ \E s \in Senders : M!SendMessage(s) \/ M!InsertFails(s) \/ M!Insert(s)
    BY DEF M!Next, messaging, M!ListConversations, M!GetMessages
  <1> HIDE DEF IdsInv
  <1> QED BY <1>1, <1>2, <1>3, <1>4, <1>5, <1>6

\* Messages that come in disturb no reader.
LEMMA RowsKeepReaders ==
  ASSUME M!MessagingAssumption, ThreadInv, [M!Next]_messaging, NEW r \in Readers,
         reader'[r] = reader[r]
  PROVE  ReadInv(reader[r])'
  <1> DEFINE x == reader[r]
  <1>1. ReadInv(x) /\ x.before \in Nat /\ x' = x
    BY DEF ThreadInv
  <1>2. /\ Len(rows) <= Len(rows') /\ Len(rows) \in Nat /\ Len(rows') \in Nat
        /\ \A i \in 1 .. Len(rows) : rows'[i] = rows[i]
    BY IdsStep, LenProperties DEF ThreadInv, IdsInv
  <1> HIDE DEF x
  <1>3. x.before <= Len(rows') /\ \A i \in 1 .. x.before : rows'[i] = rows[i]
    BY <1>1, <1>2 DEF ReadInv
  <1>4. ReadInv(x)'
    BY <1>1, <1>3 DEF ReadInv, Was
  <1> QED BY <1>4 DEF x

LEMMA OpeningIsRead ==
  ASSUME M!MessagingAssumption, ThreadInv, NEW r \in Readers, M!ListConversations(r)
  PROVE  ThreadInv'
  <1> DEFINE next == [at |-> "reading", shown |-> rows[Len(rows)], before |-> Len(rows),
                      cursor |-> 0, read |-> << >>]
  <1>1. Len(rows) \in 1 .. MaxMessages /\ rows[Len(rows)] \in 0 .. MaxMessages
        /\ Len(rows) \in Nat /\ rows[Len(rows)] \in Nat
    <2>1. rows \in Seq(Ids) /\ Len(rows) \in 0 .. MaxMessages /\ MaxMessages \in Nat
      BY RowsAreFew DEF ThreadInv, IdsInv, M!MessagingAssumption
    <2>2. Len(rows) # 0
      BY <2>1, EmptySeq DEF M!ListConversations
    <2>3. Len(rows) \in 1 .. Len(rows)
      BY <2>1, <2>2
    <2>4. rows[Len(rows)] \in Ids
      BY <2>1, <2>3, ElementOfSeq
    <2> QED BY <2>1, <2>2, <2>4 DEF Ids
  <1>2. reader' = [reader EXCEPT ![r] = next] /\ UNCHANGED <<ids, draft, rows>>
    <2>1. next = [M!Away EXCEPT !.at = "reading", !.before = Len(rows), !.shown = M!Last(rows)]
      <3>1. M!Last(rows) = rows[Len(rows)]
        BY DEF M!Last
      <3>2. ASSUME NEW old, old = M!Away,
                   NEW new, new = [old EXCEPT !.at = "reading", !.before = Len(rows),
                                              !.shown = rows[Len(rows)]]
            PROVE  new = next
        BY <3>2 DEF M!Away
      <3> QED BY Zenon, <3>1, <3>2
    <2> HIDE DEF next
    <2> QED BY <2>1 DEF M!ListConversations
  <1>3. next \in [at : {"away", "reading", "done"}, shown : 0 .. MaxMessages,
                  before : 0 .. MaxMessages, cursor : 0 .. MaxMessages, read : Seq(Ids)]
    BY <1>1 DEF M!MessagingAssumption
  <1>4. \A i \in 1 .. Len(rows) : rows[i] > 0
    BY ElementOfSeq DEF ThreadInv, IdsInv, Ids, M!MessagingAssumption
  <1>5. /\ next.at = "reading" /\ next.before = Len(rows) /\ next.cursor = 0 /\ next.read = << >>
        /\ Len(next.read) = 0
    BY EmptySeq
  <1> HIDE DEF next
  <1>6. ReadInv(next)
    BY <1>1, <1>4, <1>5 DEF ReadInv
  <1>7. \A q \in Readers : ReadInv(reader'[q])
    BY <1>2, <1>6 DEF ThreadInv
  <1>8. (\A q \in Readers : ReadInv(reader[q]))'
    BY <1>2, <1>7 DEF ReadInv, Was
  <1> QED BY <1>2, <1>3, <1>8 DEF ThreadInv, IdsInv

LEMMA PageIsRead ==
  ASSUME M!MessagingAssumption, ThreadInv, NEW r \in Readers, M!GetMessages(r)
  PROVE  ThreadInv'
  <1> DEFINE old == reader[r]
             page == M!Page(old.cursor)
             next == M!NextCursor(page, old.cursor)
             new == [old EXCEPT !.read = old.read \o page, !.cursor = next,
                                !.at = IF next = 0 THEN "done" ELSE "reading"]
  <1>1. /\ reader' = [reader EXCEPT ![r] = new] /\ UNCHANGED <<ids, draft, rows>>
        /\ old.at = "reading"
    BY DEF M!GetMessages
  <1>2. /\ old \in [at : {"away", "reading", "done"}, shown : 0 .. MaxMessages,
                    before : 0 .. MaxMessages, cursor : 0 .. MaxMessages, read : Seq(Ids)]
        /\ ReadInv(old) /\ rows \in Seq(Ids) /\ PageSize \in Nat \ {0} /\ MaxMessages \in Nat
    BY DEF ThreadInv, IdsInv, M!MessagingAssumption
  <1> HIDE DEF old, page
  <1>3. /\ page \in Seq(Ids) /\ Len(page) \in 0 .. PageSize
        /\ \A i \in 1 .. Len(page) : page[i] > old.cursor
        /\ \A i, j \in 1 .. Len(page) : i < j => page[i] < page[j]
        /\ \A x \in Later(old.cursor) : \/ \E i \in 1 .. Len(page) : page[i] = x
                                        \/ Len(page) = PageSize /\ x > page[PageSize]
    BY <1>2, PageIsNext DEF page
  <1>4. next = IF Len(page) = PageSize THEN page[PageSize] ELSE 0
    BY DEF M!NextCursor, M!Last
  <1>5. next \in 0 .. MaxMessages /\ (next # 0 <=> Len(page) = PageSize)
    BY <1>2, <1>3, <1>4 DEF Ids
  <1> HIDE DEF next
  <1> DEFINE read == old.read \o page
             at == IF next = 0 THEN "done" ELSE "reading"
  <1>6. /\ read \in Seq(Ids) /\ Len(read) = Len(old.read) + Len(page)
        /\ Len(old.read) \in Nat /\ Len(page) \in Nat
        /\ \A j \in 1 .. Len(old.read) : read[j] = old.read[j] /\ read[j] <= old.cursor
        /\ \A j \in 1 .. Len(page) :
             read[Len(old.read) + j] = page[j] /\ read[Len(old.read) + j] > old.cursor
    <2>1. old.read \in Seq(Ids) /\ page \in Seq(Ids)
      BY <1>2, <1>3
    <2>2. /\ old.read \o page \in Seq(Ids)
          /\ Len(old.read \o page) = Len(old.read) + Len(page)
          /\ \A i \in 1 .. Len(old.read) + Len(page) :
               (old.read \o page)[i] = IF i <= Len(old.read) THEN old.read[i]
                                       ELSE page[i - Len(old.read)]
      BY <2>1, ConcatProperties
    <2>3. Len(old.read) \in Nat /\ Len(page) \in Nat
      BY <2>1, LenProperties
    <2>4. \A j \in 1 .. Len(old.read) : old.read[j] <= old.cursor
      BY <1>1, <1>2 DEF ReadInv, old
    <2>5. ASSUME NEW j \in 1 .. Len(page) PROVE read[Len(old.read) + j] = page[j]
      BY <2>2, <2>3
    <2> QED BY <1>3, <2>2, <2>3, <2>4, <2>5
  <1> HIDE DEF read
  <1>7. \A k \in 1 .. Len(read) : \/ k \in 1 .. Len(old.read)
                                  \/ \E j \in 1 .. Len(page) : k = Len(old.read) + j
    <2> SUFFICES ASSUME NEW k \in 1 .. Len(read)
                 PROVE  \/ k \in 1 .. Len(old.read)
                        \/ \E j \in 1 .. Len(page) : k = Len(old.read) + j
      OBVIOUS
    <2>1. CASE k <= Len(old.read)
      BY <1>6, <2>1
    <2>2. CASE k > Len(old.read)
      <3>1. k - Len(old.read) \in 1 .. Len(page) /\ k = Len(old.read) + (k - Len(old.read))
        BY <1>6, <2>2
      <3> QED BY <3>1
    <2> QED BY <1>6, <2>1, <2>2
  <1>8. \A i, j \in 1 .. Len(read) : i < j => read[i] < read[j]
    <2> SUFFICES ASSUME NEW i \in 1 .. Len(read), NEW j \in 1 .. Len(read), i < j
                 PROVE  read[i] < read[j]
      OBVIOUS
    <2>0. /\ \A k \in 1 .. Len(old.read) : old.read[k] \in Nat
          /\ \A k \in 1 .. Len(page) : page[k] \in Nat
          /\ old.cursor \in Nat
      <3>1. Ids \subseteq Nat
        BY DEF Ids
      <3>2. old.read \in Seq(Ids) /\ page \in Seq(Ids) /\ old.cursor \in Nat
        BY <1>2, <1>3
      <3> QED BY <3>1, <3>2, ElementOfSeq
    <2>1. CASE j \in 1 .. Len(old.read)
      <3>1. i \in 1 .. Len(old.read)
        BY <1>6, <2>1
      <3> QED BY <1>2, <1>6, <2>1, <3>1 DEF ReadInv
    <2>2. CASE i \in 1 .. Len(old.read) /\ \E k \in 1 .. Len(page) : j = Len(old.read) + k
      <3>1. PICK k \in 1 .. Len(page) : j = Len(old.read) + k
        BY <2>2
      <3>2. read[i] = old.read[i] /\ read[i] <= old.cursor /\ read[j] = page[k]
            /\ read[j] > old.cursor
        BY <1>6, <2>2, <3>1
      <3>3. read[i] \in Nat /\ read[j] \in Nat /\ old.cursor \in Nat
        BY <2>0, <2>2, <3>1, <3>2
      <3> QED BY <3>2, <3>3
    <2>3. CASE \E m, k \in 1 .. Len(page) : i = Len(old.read) + m /\ j = Len(old.read) + k
      <3>1. PICK m, k \in 1 .. Len(page) : i = Len(old.read) + m /\ j = Len(old.read) + k
        BY <2>3
      <3>2. read[i] = page[m] /\ read[j] = page[k]
        BY <1>6, <3>1
      <3>3. Len(old.read) \in Nat /\ m < k
        BY <1>6, <3>1
      <3> QED BY <1>3, <3>1, <3>2, <3>3
    <2> QED BY <1>6, <1>7, <2>1, <2>2, <2>3
  <1>9. \A x \in Ids : (\E j \in 1 .. Len(old.read) : old.read[j] = x)
                         \/ (\E j \in 1 .. Len(page) : page[j] = x)
                       => \E k \in 1 .. Len(read) : read[k] = x
    <2>1. \A j \in 1 .. Len(old.read) : j \in 1 .. Len(read) /\ read[j] = old.read[j]
      BY <1>6
    <2>2. \A j \in 1 .. Len(page) : /\ Len(old.read) + j \in 1 .. Len(read)
                                    /\ read[Len(old.read) + j] = page[j]
      BY <1>6
    <2> QED BY <2>1, <2>2
  <1>10. \A i \in 1 .. old.before :
           \/ \E k \in 1 .. Len(read) : read[k] = rows[i]
           \/ Len(page) = PageSize /\ rows[i] > page[PageSize]
    <2> SUFFICES ASSUME NEW i \in 1 .. old.before
                 PROVE  \/ \E k \in 1 .. Len(read) : read[k] = rows[i]
                        \/ Len(page) = PageSize /\ rows[i] > page[PageSize]
      OBVIOUS
    <2>1. i \in 1 .. Len(rows) /\ rows[i] \in Ids /\ i \in DOMAIN rows
      BY <1>2, LenProperties DEF ReadInv
    <2>2. rows[i] > old.cursor \/ \E j \in 1 .. Len(old.read) : old.read[j] = rows[i]
      BY <1>1, <1>2 DEF ReadInv, Was, old
    <2>3. CASE rows[i] > old.cursor
      <3>1. rows[i] \in Later(old.cursor)
        BY <1>2, <2>1, <2>3 DEF Later
      <3> QED BY <1>3, <1>9, <2>1, <3>1
    <2> QED BY <1>9, <2>1, <2>2, <2>3
  <1>11. Len(page) = PageSize => \A k \in 1 .. Len(read) : read[k] <= page[PageSize]
    <2> SUFFICES ASSUME Len(page) = PageSize, NEW k \in 1 .. Len(read)
                 PROVE  read[k] <= page[PageSize]
      OBVIOUS
    <2>1. PageSize \in 1 .. Len(page) /\ read[Len(old.read) + PageSize] = page[PageSize]
          /\ Len(read) = Len(old.read) + PageSize /\ Len(read) \in 1 .. Len(read)
      BY <1>2, <1>6
    <2>2. k < Len(read) \/ k = Len(read)
      BY <1>6
    <2>3. read[k] \in Nat /\ page[PageSize] \in Nat
      <3>1. read[k] \in Ids /\ page[PageSize] \in Ids
        BY <1>3, <1>6, <2>1, ElementOfSeq
      <3> QED BY <3>1 DEF Ids
    <2> QED BY <1>8, <2>1, <2>2, <2>3
  <1>12. new = [old EXCEPT !.read = read, !.cursor = next, !.at = at]
    BY DEF read
  <1>13. /\ new.read = read /\ new.cursor = next /\ new.at = at /\ new.before = old.before
         /\ new \in [at : {"away", "reading", "done"}, shown : 0 .. MaxMessages,
                     before : 0 .. MaxMessages, cursor : 0 .. MaxMessages, read : Seq(Ids)]
    BY <1>2, <1>5, <1>6, <1>12
  <1> HIDE DEF new
  <1>14. ReadInv(new)
    <2>1. new.before <= Len(rows) /\ (next = 0 <=> Len(page) # PageSize)
          /\ (next # 0 => next = page[PageSize])
      BY <1>2, <1>4, <1>5, <1>13 DEF ReadInv
    <2>2. at = "reading" <=> next # 0
      OBVIOUS
    <2>3. at = "done" <=> next = 0
      OBVIOUS
    <2> HIDE DEF at
    <2> QED BY <1>8, <1>10, <1>11, <1>13, <2>1, <2>2, <2>3 DEF ReadInv, Was
  <1>15. \A q \in Readers : ReadInv(reader[q])'
    BY <1>1, <1>14 DEF ThreadInv, ReadInv, Was
  <1> QED BY <1>1, <1>13, <1>15 DEF ThreadInv, IdsInv

LEMMA ThreadInit == ASSUME M!MessagingAssumption, M!Init PROVE ThreadInv
  <1>1. 0 \in 0 .. MaxMessages /\ << >> \in Seq(Ids) /\ Len(<< >>) = 0
    BY EmptySeq DEF M!MessagingAssumption
  <1>2. IdsInv
    BY <1>1 DEF M!Init, IdsInv
  <1>3. \A r \in Readers : reader[r] = [at |-> "away", shown |-> 0, before |-> 0, cursor |-> 0,
                                        read |-> << >>]
    BY DEF M!Init, M!Away
  <1>4. \A r \in Readers : ReadInv(reader[r])
    BY <1>1, <1>3 DEF ReadInv, M!Init
  <1> QED BY <1>1, <1>2, <1>4 DEF M!Init, M!Away, ThreadInv

LEMMA ThreadStep == ASSUME M!MessagingAssumption, ThreadInv, [M!Next]_messaging PROVE ThreadInv'
  <1>1. CASE reader' = reader
    <2>1. \A r \in Readers : ReadInv(reader[r])'
      BY <1>1, RowsKeepReaders
    <2> QED BY <1>1, <2>1, IdsStep DEF ThreadInv
  <1>2. CASE reader' # reader
    BY <1>2, OpeningIsRead, PageIsRead
    DEF M!Next, messaging, M!SendMessage, M!Insert, M!InsertFails
  <1> QED BY <1>1, <1>2

LEMMA ReadersAreWhole == ASSUME ThreadInv PROVE M!TypeOK /\ ScanIsWhole
  <1>1. \A r \in Readers : DOMAIN reader[r].read = 1 .. Len(reader[r].read)
    <2>1. \A r \in Readers : reader[r].read \in Seq(Ids)
      BY DEF ThreadInv
    <2> QED BY <2>1, LenProperties
  <1>2. M!TypeOK
    BY DEF ThreadInv, IdsInv, Ids, M!TypeOK
  <1>3. M!ScanIsWhole
    <2> SUFFICES ASSUME NEW r \in Readers, reader[r].at = "done"
                 PROVE  /\ \A i \in 1 .. reader[r].before :
                             \E j \in DOMAIN reader[r].read : reader[r].read[j] = rows[i]
                        /\ \A i, j \in DOMAIN reader[r].read :
                             i < j => reader[r].read[i] < reader[r].read[j]
      BY DEF M!ScanIsWhole
    <2>1. ReadInv(reader[r])
      BY DEF ThreadInv
    <2> QED BY Zenon, <1>1, <2>1 DEF ReadInv, Was
  <1> QED BY <1>2, <1>3 DEF ScanIsWhole

\* GetMessages over any number of pages, with messages inserted meanwhile and out of order: who
\* reads a thread to its end has read all that was there when it was opened, and nothing twice.
THEOREM ThreadsAreReadWhole == OfficeSpec => [](M!TypeOK /\ ScanIsWhole)
  <1>1. OfficeInit => ThreadInv
    BY BeginApart, OfficeAssumption, ThreadInit
  <1>2. ThreadInv /\ [OfficeNext]_office => ThreadInv'
    BY StepsApart, OfficeAssumption, ThreadStep
  <1>3. ThreadInv => M!TypeOK /\ ScanIsWhole
    BY ReadersAreWhole
  <1> QED BY <1>1, <1>2, <1>3, PTL DEF OfficeSpec

-----------------------------------------------------------------------------
(* The types of Notification and Listing, and so of the whole office.      *)

LEMMA SameKeep == \A s, wanted : N!Keep(s, wanted) = Keep(s, wanted)
  BY Zenon DEF N!Keep, Keep, N!Ascending, Ascending, N!Cardinality, Cardinality

\* Rows that are kept are rows, each as often as before.
LEMMA KeptAreRows ==
  ASSUME NEW of, NEW s \in Seq(of), NEW wanted,
         \A i, j \in DOMAIN s : s[i] = s[j] => i = j
  PROVE  /\ Keep(s, wanted) \in Seq(of)
         /\ \A i, j \in DOMAIN Keep(s, wanted) : Keep(s, wanted)[i] = Keep(s, wanted)[j] => i = j
  <1> DEFINE chosen == {i \in DOMAIN s : s[i] \in wanted}
             places == Ascending(chosen)
             n == Cardinality(chosen)
  <1>1. DOMAIN s = 1 .. Len(s) /\ Len(s) \in Nat
    BY LenProperties
  <1>2. chosen \in SUBSET Nat /\ chosen \in SUBSET (1 .. Len(s)) /\ chosen \in SUBSET DOMAIN s
    BY <1>1
  <1>3. IsFiniteSet(chosen)
    <2>1. IsFiniteSet(1 .. Len(s))
      BY <1>1, FS_Interval
    <2> HIDE DEF chosen
    <2> QED BY <1>2, <2>1, FS_Subset
  <1>4. Keep(s, wanted) = [i \in DOMAIN places |-> s[places[i]]]
    BY DEF Keep
  <1> HIDE DEF chosen
  <1>5. /\ n \in Nat /\ places \in Seq(chosen) /\ Len(places) = n
        /\ \A i, j \in 1 .. n : i < j => places[i] < places[j]
    BY <1>2, <1>3, InOrder
  <1> HIDE DEF places, n
  <1>6. DOMAIN places = 1 .. n /\ \A i \in 1 .. n : places[i] \in chosen /\ places[i] \in DOMAIN s
    BY <1>2, <1>5, LenProperties, ElementOfSeq
  <1>7. \A i \in 1 .. n : s[places[i]] \in of
    BY <1>1, <1>6, ElementOfSeq
  <1>8. Keep(s, wanted) \in [1 .. n -> of] /\ DOMAIN Keep(s, wanted) = 1 .. n
    BY <1>4, <1>6, <1>7
  <1>9. \A i, j \in 1 .. n : Keep(s, wanted)[i] = Keep(s, wanted)[j] => i = j
    <2> SUFFICES ASSUME NEW i \in 1 .. n, NEW j \in 1 .. n,
                        Keep(s, wanted)[i] = Keep(s, wanted)[j], i # j
                 PROVE  FALSE
      OBVIOUS
    <2>1. places[i] = places[j] /\ places[i] \in Nat
      BY <1>1, <1>4, <1>6
    <2>2. i < j \/ j < i
      BY <1>5
    <2> QED BY <1>5, <2>1, <2>2
  <1> QED BY <1>5, <1>8, <1>9

NoticeSpace ==
  [at : {"new", "loaded", "stored", "deferring", "waiting", "sending", "pruning", "done"},
   from : {"server", "worker"}, type : {"mandatory", "optional"},
   prefs : N!Preferences \cup {N!DefaultPreferences}, deferred : BOOLEAN,
   wait : 0 .. DayLength, stale : SUBSET Tokens, steady : BOOLEAN]

\* The state around a notice.
WorldTypes ==
  /\ hour \in N!Hours /\ prefs \in N!Preferences
  /\ tokens \in Seq(Tokens) /\ \A i, j \in DOMAIN tokens : tokens[i] = tokens[j] => i = j
  /\ gone \subseteq Tokens
  /\ changes \in 0 .. MaxChanges /\ losses \in 0 .. MaxLosses

LEMMA TypesOfNotices ==
  N!TypeOK <=> /\ WorldTypes /\ notice \in [Notices -> NoticeSpace]
               /\ records \in [Notices -> Nat] /\ pushes \in [Notices -> Nat]
  BY DEF N!TypeOK, WorldTypes, NoticeSpace

LEMMA NoticeTypesInit == ASSUME N!NotificationAssumption, N!Init PROVE N!TypeOK
  <1>1. N!Nothing \in NoticeSpace
    <2>1. 0 \in 0 .. DayLength
      BY DEF N!NotificationAssumption, N!QuietHoursAssumption
    <2> QED BY <2>1 DEF N!Nothing, NoticeSpace
  <1>2. << >> \in Seq(Tokens) /\ DOMAIN << >> = {}
    OBVIOUS
  <1>3. WorldTypes
    BY <1>2 DEF N!Init, WorldTypes, N!NotificationAssumption
  <1> QED BY <1>1, <1>3, TypesOfNotices DEF N!Init

\* A step of one delivery that leaves a notice of the right type behind.
LEMMA NoticeWrite ==
  ASSUME N!NotificationAssumption, N!TypeOK, NEW n \in Notices, NEW next \in NoticeSpace,
         notice' = [notice EXCEPT ![n] = next], N!Works \/ N!Fails,
         UNCHANGED N!world,
         records' \in [Notices -> Nat], pushes' \in [Notices -> Nat]
  PROVE  N!TypeOK'
  <1>1. WorldTypes /\ notice \in [Notices -> NoticeSpace]
    BY TypesOfNotices
  <1>2. notice' \in [Notices -> NoticeSpace]
    BY <1>1
  <1>3. losses' \in 0 .. MaxLosses
    BY <1>1 DEF N!Works, N!Fails, WorldTypes, N!NotificationAssumption
  <1>4. WorldTypes'
    BY <1>1, <1>3 DEF WorldTypes, N!world
  <1> QED BY <1>2, <1>4 DEF N!TypeOK, WorldTypes, NoticeSpace

LEMMA DeliveringIsTyped ==
  ASSUME N!NotificationAssumption, N!TypeOK, NEW n \in Notices, N!Delivering(n)
  PROVE  N!TypeOK'
  <1> DEFINE old == notice[n]
  <1>0. /\ old \in NoticeSpace /\ WorldTypes /\ records \in [Notices -> Nat]
        /\ pushes \in [Notices -> Nat] /\ 0 \in 0 .. DayLength
        /\ notice \in [Notices -> NoticeSpace]
    BY TypesOfNotices DEF N!NotificationAssumption, N!QuietHoursAssumption
  <1>a. ASSUME NEW at \in {"new", "loaded", "stored", "deferring", "waiting", "sending", "pruning",
                           "done"},
               notice' = [notice EXCEPT ![n].at = at], N!Works \/ N!Fails, UNCHANGED N!world,
               records' \in [Notices -> Nat], pushes' \in [Notices -> Nat]
        PROVE  N!TypeOK'
    <2> DEFINE next == [old EXCEPT !.at = at]
    <2>1. next \in NoticeSpace
      <3> HIDE DEF old
      <3> QED BY <1>0 DEF NoticeSpace
    <2>2. notice' = [notice EXCEPT ![n] = next]
      BY <1>0, <1>a
    <2> HIDE DEF next
    <2> QED BY <1>a, <2>1, <2>2, NoticeWrite
  <1>1. ASSUME NEW from \in {"server", "worker"}, NEW type \in {"mandatory", "optional"},
               N!Notify(n, from, type)
        PROVE  N!TypeOK'
    <2>1. PICK read \in {prefs, N!DefaultPreferences}, ok \in BOOLEAN :
            /\ N!GetUserPreferences(read, ok)
            /\ notice' = [notice EXCEPT ![n] =
                 [N!Nothing EXCEPT !.from = from, !.type = type, !.prefs = read, !.steady = ok,
                    !.at = IF N!IsTypeDisabled(read, type) THEN "done" ELSE "loaded"]]
      BY <1>1 DEF N!Notify
    <2> DEFINE at == IF N!IsTypeDisabled(read, type) THEN "done" ELSE "loaded"
               next == [N!Nothing EXCEPT !.from = from, !.type = type, !.prefs = read,
                                         !.steady = ok, !.at = at]
    <2>2. at \in {"done", "loaded"} /\ read \in N!Preferences \cup {N!DefaultPreferences}
      BY <1>0 DEF WorldTypes
    <2> HIDE DEF at
    <2>3. ASSUME NEW blank \in NoticeSpace, blank = N!Nothing PROVE next \in NoticeSpace
      <3>1. PICK half : half = [blank EXCEPT !.from = from, !.type = type, !.prefs = read]
        OBVIOUS
      <3>2. half \in NoticeSpace
        BY <2>2, <3>1 DEF NoticeSpace
      <3>3. [half EXCEPT !.steady = ok, !.at = at] \in NoticeSpace
        BY <2>2, <3>2 DEF NoticeSpace
      <3> QED BY <2>3, <3>1, <3>3
    <2>4. N!Nothing \in NoticeSpace
      BY <1>0 DEF N!Nothing, NoticeSpace
    <2>5. next \in NoticeSpace
      BY <2>3, <2>4
    <2>6. notice' = [notice EXCEPT ![n] = next]
      BY <2>1 DEF at
    <2> HIDE DEF next
    <2> QED BY <1>0, <1>1, <2>1, <2>5, <2>6, NoticeWrite DEF N!Notify, N!GetUserPreferences
  <1>2. CASE N!NotifyDirect(n)
    <2>1. PICK read \in {prefs, N!DefaultPreferences}, ok \in BOOLEAN :
            /\ N!GetUserPreferences(read, ok)
            /\ notice' = [notice EXCEPT ![n] = [old EXCEPT !.prefs = read,
                !.at = IF N!IsTypeDisabled(read, notice[n].type) THEN "done" ELSE "loaded"]]
      BY <1>2 DEF N!NotifyDirect
    <2> DEFINE at == IF N!IsTypeDisabled(read, notice[n].type) THEN "done" ELSE "loaded"
               next == [old EXCEPT !.prefs = read, !.at = at]
    <2>2. at \in {"done", "loaded"} /\ read \in N!Preferences \cup {N!DefaultPreferences}
      BY <1>0 DEF WorldTypes
    <2> HIDE DEF at, old
    <2>3. next \in NoticeSpace
      BY <1>0, <2>2 DEF NoticeSpace
    <2>4. notice' = [notice EXCEPT ![n] = next]
      BY <2>1 DEF at
    <2> HIDE DEF next
    <2> QED BY <1>0, <1>2, <2>1, <2>3, <2>4, NoticeWrite DEF N!NotifyDirect, N!GetUserPreferences
  <1>3. CASE N!StoreNotification(n)
    <2>1. PICK at \in {"done", "sending", "stored", "waiting"} : N!Goto(n, at)
      BY <1>3 DEF N!StoreNotification
    <2>2. records' \in [Notices -> Nat] /\ pushes' = pushes
      BY <1>0, <1>3 DEF N!StoreNotification
    <2> QED BY <1>0, <1>3, <1>a, <2>1, <2>2 DEF N!StoreNotification, N!Goto
  <1>4. CASE N!Decide(n)
    <2> DEFINE quiet == N!IsQuietHours(old.prefs.quiet, hour)
               at == IF quiet THEN "deferring" ELSE "sending"
               calm == old.prefs = prefs
               next == [old EXCEPT !.at = at, !.steady = calm]
    <2>1. notice' = [notice EXCEPT ![n] = next]
      BY <1>4 DEF N!Decide
    <2>2. at \in {"deferring", "sending"} /\ calm \in BOOLEAN
      OBVIOUS
    <2>3. quiet \in BOOLEAN
      BY DEF N!IsQuietHours
    <2> HIDE DEF at, calm, quiet, old
    <2>4. next \in NoticeSpace
      BY <1>0, <2>2, <2>3 DEF NoticeSpace
    <2> HIDE DEF next
    <2> QED BY <1>0, <1>4, <2>1, <2>4, NoticeWrite DEF N!Decide, N!Works
  <1>5. CASE N!DeferPush(n)
    <2>1. CASE N!Goto(n, "done")
      BY <1>0, <1>5, <1>a, <2>1 DEF N!DeferPush, N!Goto
    <2>2. CASE ~ N!Goto(n, "done")
      <3> DEFINE wait == N!UntilQuietHoursEnd(old.prefs.quiet, hour)
                 calm == old.prefs = prefs
                 next == [old EXCEPT !.at = "waiting", !.deferred = TRUE, !.wait = wait,
                                     !.steady = calm]
      <3>1. notice' = [notice EXCEPT ![n] = next]
        BY <1>5, <2>2 DEF N!DeferPush
      <3>2. wait \in 0 .. DayLength
        <4>1. old.prefs.quiet \in [start : N!Hours, end : N!Hours] /\ hour \in N!Hours
          <5>1. old.prefs \in N!Preferences \cup {N!DefaultPreferences} /\ hour \in N!Hours
            <6> HIDE DEF old
            <6> QED BY <1>0 DEF NoticeSpace, WorldTypes
          <5>2. /\ QuietStarts \subseteq N!Hours /\ QuietEnds \subseteq N!Hours
                /\ 0 \in N!Hours
            BY DEF N!Hours, N!NotificationAssumption, N!QuietHoursAssumption
          <5>3. CASE old.prefs = N!DefaultPreferences
            BY <5>1, <5>2, <5>3 DEF N!DefaultPreferences, N!NoWindow
          <5>4. CASE old.prefs \in N!Preferences
            <6> HIDE DEF old
            <6> QED BY <5>1, <5>2, <5>4 DEF N!Preferences, N!Windows
          <5> QED BY <5>1, <5>3, <5>4
        <4>2. wait \in 1 .. DayLength
          BY <4>1, WaitEndsWithTheWindow DEF N!NotificationAssumption
        <4> QED BY <4>2 DEF N!NotificationAssumption, N!QuietHoursAssumption
      <3>3. calm \in BOOLEAN
        OBVIOUS
      <3> HIDE DEF wait, calm, old
      <3>4. next \in NoticeSpace
        BY <1>0, <3>2, <3>3 DEF NoticeSpace
      <3> HIDE DEF next
      <3> QED BY <1>0, <1>5, <3>1, <3>4, NoticeWrite DEF N!DeferPush
    <2> QED BY <2>1, <2>2
  <1>6. CASE N!SendPush(n)
    <2>1. N!Sendable \in Seq(Tokens)
      BY <1>0, SameKeep, KeptAreRows DEF WorldTypes, N!Sendable
    <2>2. N!Stale(N!Sendable) \in SUBSET Tokens
      BY <2>1, LenProperties, ElementOfSeq DEF N!Stale
    <2>3. pushes' \in [Notices -> Nat] /\ records' = records
      BY SMTT(30), <1>0, <1>6 DEF N!SendPush
    <2>4. CASE N!Goto(n, "done")
      BY <1>0, <1>6, <1>a, <2>3, <2>4 DEF N!SendPush, N!Goto
    <2>5. CASE ~ N!Goto(n, "done")
      <3> DEFINE stale == N!Stale(N!Sendable)
                 next == [old EXCEPT !.at = "pruning", !.stale = stale]
      <3>1. notice' = [notice EXCEPT ![n] = next]
        BY <1>6, <2>5 DEF N!SendPush
      <3> HIDE DEF stale, old
      <3>2. next \in NoticeSpace
        BY <1>0, <2>2 DEF NoticeSpace, stale
      <3> HIDE DEF next
      <3> QED BY <1>0, <1>6, <2>3, <3>1, <3>2, NoticeWrite DEF N!SendPush
    <2> QED BY <2>4, <2>5
  <1>7. CASE N!DeletePushTokens(n)
    <2> DEFINE next == [old EXCEPT !.at = "done", !.stale = {}]
    <2>1. notice' = [notice EXCEPT ![n] = next] /\ records' = records /\ pushes' = pushes
      BY <1>7 DEF N!DeletePushTokens
    <2>2. next \in NoticeSpace
      <3> HIDE DEF old
      <3> QED BY <1>0 DEF NoticeSpace
    <2> HIDE DEF next
    <2>3. notice' \in [Notices -> NoticeSpace]
      BY <1>0, <2>1, <2>2
    <2>4. PICK wanted : tokens' = N!Keep(tokens, wanted)
      BY <1>7 DEF N!DeletePushTokens
    <2>5. /\ tokens' \in Seq(Tokens)
          /\ \A i, j \in DOMAIN tokens' : tokens'[i] = tokens'[j] => i = j
      BY <1>0, <2>4, SameKeep, KeptAreRows DEF WorldTypes
    <2>6. losses' \in 0 .. MaxLosses /\ UNCHANGED <<hour, prefs, gone, changes>>
      BY <1>0, <1>7 DEF N!DeletePushTokens, N!Works, N!Fails, WorldTypes, N!NotificationAssumption
    <2>7. WorldTypes'
      BY <1>0, <2>5, <2>6 DEF WorldTypes
    <2> QED BY <1>0, <2>1, <2>3, <2>7 DEF N!TypeOK, WorldTypes, NoticeSpace
  <1>8. CASE N!Crash(n)
    <2> DEFINE at == IF old.deferred THEN "waiting" ELSE "done"
               next == [old EXCEPT !.at = at, !.stale = {}]
    <2>1. notice' = [notice EXCEPT ![n] = next]
      BY <1>8 DEF N!Crash
    <2>2. at \in {"waiting", "done"}
      OBVIOUS
    <2> HIDE DEF at, old
    <2>3. next \in NoticeSpace
      BY <1>0, <2>2 DEF NoticeSpace
    <2> HIDE DEF next
    <2> QED BY <1>0, <1>8, <2>1, <2>3, NoticeWrite DEF N!Crash
  <1> QED BY <1>1, <1>2, <1>3, <1>4, <1>5, <1>6, <1>7, <1>8 DEF N!Delivering

LEMMA NoticesAreTyped ==
  ASSUME N!NotificationAssumption, N!TypeOK, [N!Next]_notification
  PROVE  N!TypeOK'
  <1>0. /\ WorldTypes /\ notice \in [Notices -> NoticeSpace]
        /\ records \in [Notices -> Nat] /\ pushes \in [Notices -> Nat]
        /\ DayLength \in Nat \ {0} /\ MaxChanges \in Nat
    BY TypesOfNotices DEF N!NotificationAssumption, N!QuietHoursAssumption
  <1>1. CASE N!Tick
    <2>1. ASSUME NEW n \in Notices PROVE notice'[n] \in NoticeSpace
      <3> DEFINE old == notice[n]
                 wait == IF old.wait > 0 THEN old.wait - 1 ELSE 0
                 calm == old.steady /\ old.wait > 0
      <3>1. wait \in 0 .. DayLength /\ calm \in BOOLEAN /\ old \in NoticeSpace
        BY <1>0 DEF NoticeSpace
      <3>2. notice'[n] = [old EXCEPT !.wait = wait, !.steady = calm]
        BY <1>1 DEF N!Tick
      <3> HIDE DEF old, wait, calm
      <3> QED BY <3>1, <3>2 DEF NoticeSpace
    <2>2. DOMAIN notice' = Notices /\ notice' = [n \in Notices |-> notice'[n]]
      BY <1>1 DEF N!Tick
    <2>3. notice' \in [Notices -> NoticeSpace]
      BY <2>1, <2>2
    <2>4. hour' \in N!Hours
      BY <1>0, <1>1, NextHour DEF N!Tick, WorldTypes, N!NotificationAssumption
    <2> QED BY <1>0, <1>1, <2>3, <2>4 DEF N!Tick, N!TypeOK, WorldTypes, NoticeSpace
  <1>2. CASE N!UpdatePreferences
    <2>1. ASSUME NEW n \in Notices PROVE notice'[n] \in NoticeSpace
      <3> DEFINE old == notice[n]
      <3>1. old \in NoticeSpace /\ notice'[n] = [old EXCEPT !.steady = FALSE]
        BY <1>0, <1>2 DEF N!UpdatePreferences
      <3> HIDE DEF old
      <3> QED BY <3>1 DEF NoticeSpace
    <2>2. notice' = [n \in Notices |-> notice'[n]]
      BY <1>2 DEF N!UpdatePreferences
    <2>3. notice' \in [Notices -> NoticeSpace]
      BY <2>1, <2>2
    <2> QED BY <1>0, <1>2, <2>3 DEF N!UpdatePreferences, N!TypeOK, WorldTypes, NoticeSpace
  <1>3. ASSUME NEW d \in Tokens, N!RegisterPushToken(d) PROVE N!TypeOK'
    <2>1. /\ tokens' \in Seq(Tokens) /\ Len(tokens') = Len(tokens) + 1 /\ Len(tokens) \in Nat
          /\ tokens'[Len(tokens) + 1] = d /\ DOMAIN tokens = 1 .. Len(tokens)
          /\ DOMAIN tokens' = 1 .. Len(tokens) + 1
          /\ \A i \in 1 .. Len(tokens) : tokens'[i] = tokens[i] /\ tokens[i] # d
      BY <1>0, <1>3 DEF N!RegisterPushToken, WorldTypes
    <2>2. \A i, j \in DOMAIN tokens' : tokens'[i] = tokens'[j] => i = j
      <3>1. \A i \in DOMAIN tokens' : i \in 1 .. Len(tokens) \/ i = Len(tokens) + 1
        BY <2>1
      <3>2. \A i, j \in 1 .. Len(tokens) : tokens[i] = tokens[j] => i = j
        BY <1>0, <2>1 DEF WorldTypes
      <3> QED BY <2>1, <3>1, <3>2
    <2>3. UNCHANGED <<notice, records, pushes, hour, prefs, gone, changes, losses>>
      BY <1>3 DEF N!RegisterPushToken, N!delivery
    <2> QED BY <1>0, <2>1, <2>2, <2>3 DEF N!TypeOK, WorldTypes, NoticeSpace
  <1>4. ASSUME NEW d \in Tokens, N!Uninstall(d) PROVE N!TypeOK'
    BY <1>0, <1>4 DEF N!Uninstall, N!delivery, N!TypeOK, WorldTypes, NoticeSpace
  <1>5. CASE UNCHANGED notification
    BY <1>5 DEF notification, N!TypeOK
  <1> QED BY <1>1, <1>2, <1>3, <1>4, <1>5, DeliveringIsTyped DEF N!Next

-----------------------------------------------------------------------------
(* The row types.                                                          *)

BookedAmounts == [value : Nat, hold : Nat, gap : Nat, reserve : Nat, fee : Nat, platform : Nat,
                  payout : Nat, contribution : Nat]

LEMMA EstimateIsNat ==
  \A value \in Nat :
    TieredHold(value) \in Nat /\ GuaranteeGap(value, TieredHold(value)) \in Nat
  <1> SUFFICES ASSUME NEW value \in Nat
               PROVE  TieredHold(value) \in Nat /\ GuaranteeGap(value, TieredHold(value)) \in Nat
    OBVIOUS
  <1> QED BY HoldCoversWithGap DEF GuaranteeGap

LEMMA AmountsAreNat ==
  ASSUME NEW value \in Nat, NEW perHour \in Nat, NEW perDay \in Nat, NEW hours \in Nat
  PROVE  Amounts(value, perHour, perDay, hours) \in BookedAmounts
  <1> DEFINE hold == TieredHold(value)
             fee == RentalFee(perHour, perDay, hours)
             platform == PlatformFee(fee)
  <1>1. hold \in Nat /\ GuaranteeGap(value, hold) \in Nat
    BY EstimateIsNat
  <1>2. fee \in Nat
    <2>1. hours \div 24 \in Nat /\ (IF hours = 0 THEN 1 ELSE hours) \in Nat
      OBVIOUS
    <2>2. \A a, b \in Nat : a * b \in Nat
      OBVIOUS
    <2> DEFINE days == hours \div 24
               paid == IF hours = 0 THEN 1 ELSE hours
    <2>3. perDay * days \in Nat /\ perHour * paid \in Nat
      BY <2>1, <2>2
    <2> QED BY <2>3 DEF RentalFee
  <1>3. \A amount \in Nat, bps \in BPS : Share(amount, bps) \in Nat
    BY ShareIsPart
  <1>4. DamageReserve(hold) \in Nat
    BY <1>1, <1>3, FeesAssumption, Zenon DEF DamageReserve
  <1>5. platform \in Nat /\ platform <= fee
    BY <1>2, PartsOfFees
  <1>6. GuaranteeFundContribution(platform) \in Nat
    BY <1>3, <1>5, FeesAssumption, Zenon DEF GuaranteeFundContribution
  <1>7. HostPayout(fee, platform) \in Nat
    BY <1>2, <1>5 DEF HostPayout
  <1> HIDE DEF hold, fee, platform
  <1>8. Amounts(value, perHour, perDay, hours) =
          [value |-> value, hold |-> hold, gap |-> GuaranteeGap(value, hold),
           reserve |-> DamageReserve(hold), fee |-> fee, platform |-> platform,
           payout |-> HostPayout(fee, platform),
           contribution |-> GuaranteeFundContribution(platform)]
    BY DEF Amounts, hold, fee, platform
  <1> QED BY <1>1, <1>2, <1>4, <1>5, <1>6, <1>7, <1>8 DEF BookedAmounts

\* What ListingInv leaves open of the types of Listing.
RestOfListing ==
  /\ photos \in BOOLEAN
  /\ appraisal \in [status : {"none"} \cup AppraisalStatus, estimated : Optional(Worths)]
  /\ host \in [hour : Optional(Prices \ {0}), day : Optional(Prices \ {0})]
  /\ \A q \in quote : q \in [value : Nat, hold : Nat, gap : Nat]
  /\ \A b \in booking : b \in BookedAmounts

LEMMA RestInit == ASSUME Init PROVE RestOfListing
  BY DEF Init, RestOfListing, Entries, Optional, NULL

LEMMA RestNext ==
  ASSUME ListingAssumption, ListingInv, RestOfListing, [Next]_vars
  PROVE  RestOfListing'
  <1>1. CASE Create
    BY <1>1 DEF Create, RestOfListing, Entries
  <1>2. CASE Update
    <2>1. PICK e \in Entries :
            host' = [hour |-> Coalesce(e.hour, host.hour), day |-> Coalesce(e.day, host.day)]
      BY <1>2 DEF Update
    <2>2. host' \in [hour : Optional(Prices \ {0}), day : Optional(Prices \ {0})]
      BY <2>1, CoalesceIsOptional DEF RestOfListing, Entries
    <2> QED BY <1>2, <2>2 DEF Update, RestOfListing
  <1>3. CASE AttachMedia \/ Activate \/ UNCHANGED vars
    BY <1>3 DEF AttachMedia, Activate, vars, RestOfListing
  <1>4. CASE GetHoldEstimate
    <2> DEFINE value == itemValue(listing)
               hold == TieredHold(value)
    <2>1. quote' = {[value |-> value, hold |-> hold, gap |-> GuaranteeGap(value, hold)]}
      BY <1>4 DEF GetHoldEstimate
    <2>2. value \in Nat
      BY ColumnsAreAmounts DEF ListingInv, Rows, itemValue
    <2>3. hold \in Nat /\ GuaranteeGap(value, hold) \in Nat
      BY <2>2, EstimateIsNat, Zenon
    <2>4. UNCHANGED <<photos, appraisal, host, booking>>
      BY <1>4 DEF GetHoldEstimate
    <2> HIDE DEF value, hold
    <2>5. \A q \in quote' : q \in [value : Nat, hold : Nat, gap : Nat]
      BY <2>1, <2>2, <2>3
    <2> QED BY <2>4, <2>5 DEF RestOfListing
  <1>5. CASE CreateBooking
    <2>1. PICK hours \in Durations :
            booking' = {Amounts(itemValue(listing), Cents(Value(listing.hour)),
                                Cents(Value(listing.day)), hours)}
      BY <1>5 DEF CreateBooking
    <2>2. /\ itemValue(listing) \in Nat /\ hours \in Nat
          /\ Cents(Value(listing.hour)) \in Nat /\ Cents(Value(listing.day)) \in Nat
      BY ColumnsAreAmounts DEF ListingInv, Rows, itemValue, ListingAssumption
    <2>3. \A b \in booking' : b \in BookedAmounts
      BY <2>1, <2>2, AmountsAreNat
    <2> QED BY <1>5, <2>3 DEF CreateBooking, RestOfListing
  <1>6. ASSUME NEW a \in Appraisers, Appraising(a) PROVE RestOfListing'
    <2>1. UNCHANGED <<photos, host, quote, booking>>
      BY <1>6 DEF Appraising, AppraiseBegins, AppraiseInserts, AppraiseAsks, AppraiseSaves,
                  AppraiseSuggests, MarkFailed, MarkListingFailed, AppraiseCrashes
    <2>2. \/ appraisal' = appraisal
          \/ appraisal' = [appraisal EXCEPT !.status = "PENDING"]
          \/ run[a].at = "answered"
             /\ appraisal' = [appraisal EXCEPT !.status = "COMPLETE", !.estimated = {run[a].answer.worth}]
          \/ appraisal' = [appraisal EXCEPT !.status = "FAILED", !.estimated = NULL]
      BY <1>6 DEF Appraising, AppraiseBegins, AppraiseInserts, AppraiseAsks, AppraiseSaves,
                  AppraiseSuggests, MarkFailed, MarkListingFailed, AppraiseCrashes
    <2>3. run[a].at = "answered" => {run[a].answer.worth} \in Optional(Worths)
      BY DEF ListingInv, Answer, Optional
    <2>4. NULL \in Optional(Worths)
      BY DEF Optional
    <2>5. appraisal' \in [status : {"none"} \cup AppraisalStatus, estimated : Optional(Worths)]
      BY <2>2, <2>3, <2>4 DEF RestOfListing, AppraisalStatus
    <2> QED BY <2>1, <2>5 DEF RestOfListing
  <1> QED BY <1>1, <1>2, <1>3, <1>4, <1>5, <1>6 DEF Next

\* Every row, job, request and history of the office has its type, at any size: the types of
\* the components, each from the inductive invariant of its own theorem above.
THEOREM OfficeIsTyped == OfficeSpec => []OfficeTypeOK
  <1> DEFINE Inv == /\ ListingInv /\ RestOfListing /\ N!TypeOK /\ BackfillInv /\ SessionInv
                    /\ AccountInv /\ FeedInv /\ ThreadInv
  <1> USE OfficeAssumption
  <1>1. OfficeInit => Inv
    BY BeginApart, ListingInit, RestInit, NoticeTypesInit, BackfillInit, SessionInit, AccountInit,
       FeedInit, ThreadInit
  <1>2. Inv /\ [OfficeNext]_office => Inv'
    BY StepsApart, ListingNext, RestNext, NoticesAreTyped, BackfillNext, SessionStep, AccountStep,
       FeedStep, ThreadStep
  <1>3. Inv => OfficeTypeOK
    <2> SUFFICES ASSUME Inv PROVE OfficeTypeOK
      OBVIOUS
    <2>1. TypeOK
      BY DEF ListingInv, RestOfListing, Rows, BookedAmounts, TypeOK
    <2>2. M!TypeOK
      BY ReadersAreWhole
    <2>3. S!TypeOK /\ A!TypeOK /\ B!TypeOK /\ D!TypeOK
      BY DEF SessionInv, AccountInv, BackfillInv, FeedInv
    <2> QED BY <2>1, <2>2, <2>3 DEF OfficeTypeOK
  <1> HIDE DEF Inv
  <1> QED BY <1>1, <1>2, <1>3, PTL DEF OfficeSpec

=============================================================================
