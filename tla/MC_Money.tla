------------------------------ MODULE MC_Money ------------------------------
(* Where money comes from and goes to besides the hold of a booking, on small         *)
(* instances: the guarantee fund (GuaranteeFund), late fees (LateReturn) and referral *)
(* payouts (ReferralPayouts).  They share no state, so one run examines one of them   *)
(* per behaviour: "component" is chosen at the start, the variables of the others     *)
(* rest.                                                                              *)
EXTENDS GuaranteeFund, Sequences, TLC

CONSTANTS
  Workers, Authorized, Cap, Rate, Threshold, MaxTime, LateFeatures,
  Referees, Checkouts, Limit, MaxPayouts, MaxPaid, MaxEvents, ReferralFeatures

VARIABLES component,
  rental, time, conflict, hold, rows, jobs, worker, events,
  referral, hook, payouts, queue, payer, wired, transfers, incidents

late == <<rental, time, conflict, hold, rows, jobs, worker, events>>
referring == <<referral, hook, payouts, queue, payer, wired, transfers, incidents>>
money == <<component, vars, late, referring>>

L == INSTANCE LateReturn WITH Features <- LateFeatures
R == INSTANCE ReferralPayouts WITH Features <- ReferralFeatures,
       jobs <- queue, worker <- payer, events <- incidents

ASSUME MoneyAssumption == L!LateAssumption /\ R!ReferralAssumption

MoneyInit == component \in {"fund", "late", "referral"} /\ Init /\ L!Init /\ R!Init

Funding == component = "fund" /\ Next /\ UNCHANGED <<component, late, referring>>
BeingLate == component = "late" /\ L!Next /\ UNCHANGED <<component, vars, referring>>
Referring == component = "referral" /\ R!Next /\ UNCHANGED <<component, vars, late>>

MoneyNext == Funding \/ BeingLate \/ Referring

MoneySpec == MoneyInit /\ [][MoneyNext]_money

\* Workers are interchangeable, and so are checkouts; the callers of the fund are called
\* like the workers.
Symmetry == Permutations(Workers) \cup Permutations(Checkouts)

MoneyTypeOK ==
  /\ component = "fund" => TypeOK
  /\ component = "late" => L!TypeOK
  /\ component = "referral" => R!TypeOK

\* The damage reserve is kept from late fees (LateReturn).
ReserveKept == component = "late" => L!ReserveKept
\* A recorded late fee was captured (LateReturn).
FeeWasCaptured == component = "late" => L!FeeWasCaptured
\* Charging goes on while the rental is late (LateReturn).
MonitoringGoesOn == component = "late" => L!MonitoringGoesOn
\* Nobody is paid twice for one referral (ReferralPayouts).
PaidOnce == component = "referral" => R!PaidOnce
\* Money that was moved shows in the payouts (ReferralPayouts).
MoneyLeavesATrace == component = "referral" => R!MoneyLeavesATrace

=============================================================================
