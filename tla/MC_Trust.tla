------------------------------ MODULE MC_Trust ------------------------------
(* Whom and what the platform trusts: the fraud agent's flags (Fraud), the identity   *)
(* of a user (Verification), the reputation (Reputation), the decisions of the agents *)
(* (Outcome) and the agreement (Agreement), on small instances.  They share no state  *)
(* but the users row, whose columns they write separately, so one run examines one of *)
(* them per behaviour: "component" is chosen at the start and the variables of the    *)
(* others rest.  The rules on who may book (Risk) keep no state: they are evaluated   *)
(* on bounded inputs.                                                                 *)
EXTENDS Fraud, Integers

CONSTANTS
  Handlers, Starters, MaxRetries, MaxStarts, MaxDeliveries, Faults,
  Ratings, MaxBubbles, Updaters, MaxHappened, MaxRecalcs,
  Linkers, MaxLogged, MaxLinks,
  MaxEvents, MaxFaults,
  Clauses, Banned

VARIABLES component,
  attempts, identity, bonus, events, deliveries, timers, handler, starter, timeout, faults,
  upgrades, overlapped,
  standing, signals, score, recalcs, request, updater, kyc, backfill, happened, losses, seen, clash,
  log, dispute, late, links, scheduled, linker, calibration, breaks, disturbed,
  agreement, snapshot, accepted, drafting

verification == <<attempts, identity, bonus, events, deliveries, timers, handler, starter,
                  timeout, faults, upgrades, overlapped>>
reputation == <<standing, signals, score, recalcs, request, updater, kyc, backfill, happened, losses, seen,
                clash>>
outcome == <<log, dispute, late, links, scheduled, linker, calibration, breaks, disturbed>>
consent == <<agreement, snapshot, accepted, drafting>>
trust == <<component, vars, verification, reputation, outcome, consent>>

V == INSTANCE Verification WITH jobs <- timers
R == INSTANCE Reputation WITH facts <- standing, jobs <- recalcs, worker <- updater,
       events <- happened, faults <- losses,
       Workers <- Updaters, MaxEvents <- MaxHappened, MaxJobs <- MaxRecalcs
O == INSTANCE Outcome WITH jobs <- links, worker <- linker, faults <- breaks,
       Workers <- Linkers, MaxJobs <- MaxLinks, MaxDecisions <- MaxLogged
A == INSTANCE Agreement
K == INSTANCE Risk

\* What Trust_proofs proves, at the borders of the rules.
Profiles == [identity : K!IdentityStatus, age : {0, 7, 14, 30}, reputation : {0, 50, 100, 300}]
Histories == [cancellations : {0, 2}, disputes : {0, 1}]
VelocityRules == [newAccount |-> 30, claimCap |-> 50000, claimWindow |-> 60]
HostRates == [late |-> 2500, veryLate |-> 5000]

ASSUME TrustAssumption ==
  /\ FraudAssumption /\ A!AgreementAssumption
  /\ V!VerificationAssumption /\ R!ReputationAssumption /\ O!OutcomeAssumption
ASSUME \A renter, host \in Profiles, history \in Histories, claimed \in {0, 50000} :
  K!Established(renter, VelocityRules) /\ K!Refused(renter, host, history, claimed, VelocityRules)
    => K!ClaimsTooMuch(host, claimed, VelocityRules)
ASSUME \A role \in {"RENTER", "HOST"}, fee \in {0, 1, 99, 10000},
          earlier, later \in {-1, 0, 59, 60, 119, 120} :
  later <= earlier => K!CalculateCancellationFee(role, fee, earlier, HostRates)
                        <= K!CalculateCancellationFee(role, fee, later, HostRates)

TrustInit ==
  /\ component \in {"verification", "reputation", "outcome", "agreement", "fraud"}
  /\ Init /\ V!Init /\ R!Init /\ O!Init /\ A!Init

Suspecting == component = "fraud" /\ Next
  /\ UNCHANGED <<component, verification, reputation, outcome, consent>>
Verifying == component = "verification" /\ V!Next
  /\ UNCHANGED <<component, vars, reputation, outcome, consent>>
Rating == component = "reputation" /\ R!Next
  /\ UNCHANGED <<component, vars, verification, outcome, consent>>
Judging == component = "outcome" /\ O!Next
  /\ UNCHANGED <<component, vars, verification, reputation, consent>>
Agreeing == component = "agreement" /\ A!Next
  /\ UNCHANGED <<component, vars, verification, reputation, outcome>>

TrustNext == Suspecting \/ Verifying \/ Rating \/ Judging \/ Agreeing

\* The fairness that Verification states, while it is the one examined.
Fairness ==
  /\ WF_verification(component = "verification" /\ V!TimingOut)
  /\ \A s \in Starters :
       WF_verification(component = "verification" /\ (V!StartInserts(s) \/ V!StartQueues(s)))
  /\ \A h \in Handlers : WF_verification(component = "verification" /\ V!Handling(h))

TrustSpec == TrustInit /\ [][TrustNext]_trust /\ Fairness

TrustTypeOK == TypeOK /\ V!TypeOK /\ R!TypeOK /\ O!TypeOK /\ A!TypeOK

\* Each KYC bonus belongs to a change of the user to VERIFIED (Verification).
BonusPerUpgrade == V!BonusPerUpgrade
\* The attempt of a queued check does not stay open (Verification).
StalledIsClosed == V!StalledIsClosed
\* A settled score has every rating in it (Reputation).
RatingsAreCounted == R!RatingsAreCounted
\* A judgement of a decision stands (Outcome).
OutcomeStands == O!OutcomeStands
\* What Redis says of an agent is what the log says (Outcome).
CalibrationIsCurrent == O!CalibrationIsCurrent
\* The snapshot an arbiter reads is the agreement of the parties (Agreement).
ArbiterReadsWhatWasAccepted == A!ArbiterReadsWhatWasAccepted

=============================================================================
