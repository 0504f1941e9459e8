-------------------------------- MODULE Risk --------------------------------
(***************************************************************************)
(* Who may book, and what it costs to cancel: the risk rules of package    *)
(* agent/risk and the velocity rules and cancellation fees of package      *)
(* booking, as functions of what they read from the database.              *)
(*                                                                         *)
(* Ages are in days, times before the pickup in minutes, amounts in cents. *)
(***************************************************************************)
EXTENDS Integers

IdentityStatus == {"PENDING", "VERIFIED", "REJECTED"}
RiskControl == {"APPROVE", "REVIEW", "BLOCK"}

\* "cancellations" and "disputes" count bookings of the last 60 days, of either role;
\* a booking is a dispute as long as it is DISPUTED.
BehavioralHistory == [cancellations : Nat, disputes : Nat]
UserProfile == [identity : IdentityStatus, age : Nat, reputation : 0 .. 1000]

NoStart == -1
RiskScoreInput ==
  [renter : UserProfile, host : UserProfile, history : BehavioralHistory,
   itemValue : Nat, startHour : {NoStart} \cup 0 .. 23,
   geoMismatch : BOOLEAN, device : BOOLEAN, network : BOOLEAN, velocity : BOOLEAN]

Points(condition, weight) == IF condition THEN weight ELSE 0
Clamp(lo, hi, v) == IF v < lo THEN lo ELSE IF v > hi THEN hi ELSE v

\* A rejected identity weighs nothing.
baseRisk(renter) ==
  Points(renter.identity = "PENDING", 20) + Points(renter.age < 7, 15)
  + (IF renter.reputation < 100 THEN 15 ELSE Points(renter.reputation < 300, 5))

transactionRisk(value, hour) ==
  (IF value >= 300000 THEN 25 ELSE Points(value >= 100000, 15)) + Points(hour \in 0 .. 4, 10)

counterpartyRisk(renter, host) ==
  Points(renter.reputation < 50 /\ host.reputation < 50, 30) + Points(host.age < 14, 10)

behavioralRisk(history, geoMismatch) ==
  Points(history.cancellations >= 2, 20) + Points(history.disputes >= 1, 25)
  + Points(geoMismatch, 10)

fraudRisk(in) == Points(in.device, 50) + Points(in.network, 30) + Points(in.velocity, 20)

computeScore(in) ==
  Clamp(0, 100, baseRisk(in.renter) + transactionRisk(in.itemValue, in.startHour)
                + counterpartyRisk(in.renter, in.host)
                + behavioralRisk(in.history, in.geoMismatch) + fraudRisk(in))

controlForScore(score) ==
  IF score <= 30 THEN "APPROVE" ELSE IF score <= 70 THEN "REVIEW" ELSE "BLOCK"

\* At a booking there is no transaction yet: neither the value nor the start is known,
\* and nothing ever sets the four flags.  A history that cannot be read counts as empty.
ComputeRiskScore(renter, host, history) ==
  computeScore([renter |-> renter, host |-> host, history |-> history, itemValue |-> 0,
                startHour |-> NoStart, geoMismatch |-> FALSE, device |-> FALSE,
                network |-> FALSE, velocity |-> FALSE])

-----------------------------------------------------------------------------

FraudVelocityConfig == [newAccount : Nat, claimCap : Nat, claimWindow : Nat]

\* "claimed": damage captured from the host's holds.
NewToNew(renter, host, cfg) == renter.age < cfg.newAccount /\ host.age < cfg.newAccount
ClaimsTooMuch(host, claimed, cfg) ==
  cfg.claimCap > 0 /\ host.age < cfg.claimWindow /\ claimed >= cfg.claimCap

\* The payout delay that the rules also find is used by nobody.
CheckFraudVelocity(renter, host, claimed, cfg) ==
  IF NewToNew(renter, host, cfg) \/ ClaimsTooMuch(host, claimed, cfg) THEN "blocked" ELSE "passed"

\* CreateBooking refuses before any money is moved; a failing risk score refuses nobody.
Refused(renter, host, history, claimed, cfg) ==
  \/ CheckFraudVelocity(renter, host, claimed, cfg) = "blocked"
  \/ controlForScore(ComputeRiskScore(renter, host, history)) = "BLOCK"

-----------------------------------------------------------------------------

HostCancelConfig == [late : Nat, veryLate : Nat]

\* "minutes" until the pickup, negative once it has passed.
RenterFee(fee, minutes) ==
  IF minutes < 0 THEN fee ELSE IF minutes < 60 THEN fee \div 2
  ELSE IF minutes < 120 THEN fee \div 4 ELSE 0

HostFee(fee, minutes, cfg) ==
  IF minutes < 0 THEN (fee * cfg.veryLate) \div 10000
  ELSE IF minutes < 120 THEN (fee * cfg.late) \div 10000 ELSE 0

CalculateCancellationFee(role, fee, minutes, cfg) ==
  IF role = "RENTER" THEN RenterFee(fee, minutes) ELSE HostFee(fee, minutes, cfg)

-----------------------------------------------------------------------------
(* What the rules should have in common; proved in Trust_proofs.           *)

\* "worse" differs from "in" only by what speaks against the booking.
NoWorse(in, worse) ==
  /\ in.renter.identity = "PENDING" => worse.renter.identity = "PENDING"
  /\ worse.renter.age <= in.renter.age /\ worse.renter.reputation <= in.renter.reputation
  /\ worse.host.age <= in.host.age /\ worse.host.reputation <= in.host.reputation
  /\ in.history.cancellations <= worse.history.cancellations
  /\ in.history.disputes <= worse.history.disputes
  /\ in.itemValue <= worse.itemValue /\ in.startHour = worse.startHour
  /\ in.geoMismatch => worse.geoMismatch
  /\ in.device => worse.device
  /\ in.network => worse.network
  /\ in.velocity => worse.velocity

Severity(control) == CASE control = "APPROVE" -> 0 [] control = "REVIEW" -> 1 [] control = "BLOCK" -> 2

\* A user without open questions: known for long enough, and with a reputation.
Established(renter, cfg) ==
  /\ renter.identity # "PENDING" /\ renter.reputation >= 300
  /\ renter.age >= 7 /\ renter.age >= cfg.newAccount

=============================================================================
