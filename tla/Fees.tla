-------------------------------- MODULE Fees --------------------------------
(***************************************************************************)
(* The amounts of a booking, in cents: package payment, hold.go.  Every    *)
(* division truncates, as it does in Go for amounts that are not negative. *)
(***************************************************************************)
EXTENDS Naturals

CONSTANTS
  TakeRateBPS,       \* share of the rental fee that the platform keeps
  GuaranteeRateBPS,  \* share of the platform fee that goes to the guarantee fund
  DamageReserveRate  \* share of the hold kept for damage

\* Rates are shares, in basis points.
BPS == 0 .. 10000

ASSUME FeesAssumption ==
  TakeRateBPS \in BPS /\ GuaranteeRateBPS \in BPS /\ DamageReserveRate \in BPS

Share(amount, bps) == (amount * bps) \div 10000

\* Slip: the second tier starts from what the first one ends with.
TieredHoldLeaps(value) ==
  IF value <= 50000 THEN value
  ELSE IF value <= 200000 THEN value + ((value - 50000) * 25) \div 100
  ELSE 132500

TieredHold(value) ==
  IF value <= 50000 THEN value
  ELSE IF value <= 200000 THEN 50000 + ((value - 50000) * 25) \div 100
  ELSE IF value <= 500000 THEN 87500 + ((value - 200000) * 15) \div 100
  ELSE 132500

GuaranteeGap(value, hold) == IF value < hold THEN 0 ELSE value - hold

\* An absent price is 0 here, as the Go code reads it.
RentalFee(perHour, perDay, hours) ==
  IF hours >= 24 /\ perDay > 0 THEN perDay * (hours \div 24)
  ELSE perHour * (IF hours = 0 THEN 1 ELSE hours)

PlatformFee(rentalFee) == Share(rentalFee, TakeRateBPS)
HostPayout(rentalFee, platformFee) == rentalFee - platformFee
GuaranteeFundContribution(platformFee) == Share(platformFee, GuaranteeRateBPS)
DamageReserve(hold) == Share(hold, DamageReserveRate)

\* What late fees may take of the hold.  A rate that leaves nothing to charge, or
\* everything, is read as 40 percent here, though not by DamageReserve.
MaxLateFeeCap(hold) ==
  Share(hold, 10000 - (IF DamageReserveRate \in 1 .. 9999 THEN DamageReserveRate ELSE 4000))

\* What CreateBooking computes from the value, the prices and the duration.
Amounts(value, perHour, perDay, hours) ==
  LET hold == TieredHold(value)
      fee == RentalFee(perHour, perDay, hours)
      platform == PlatformFee(fee)
  IN [value |-> value, hold |-> hold, gap |-> GuaranteeGap(value, hold),
      reserve |-> DamageReserve(hold), fee |-> fee, platform |-> platform,
      payout |-> HostPayout(fee, platform), contribution |-> GuaranteeFundContribution(platform)]

\* Every cent of the item is either held from the renter or covered by the fund, the
\* hold stays below its ceiling, and every cent of the rental fee goes to the host or to
\* the platform, whose contribution to the fund it can pay out of its fee.  Late fees leave
\* the damage reserve alone, unless the whole hold is to be reserved.
AddsUp(a) ==
  /\ a.hold + a.gap = a.value /\ a.hold <= 132500 /\ a.reserve <= a.hold
  /\ DamageReserveRate < 10000 => a.reserve + MaxLateFeeCap(a.hold) <= a.hold
  /\ a.payout + a.platform = a.fee /\ a.contribution <= a.platform

=============================================================================
