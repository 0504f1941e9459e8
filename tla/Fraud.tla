------------------------------- MODULE Fraud -------------------------------
(***************************************************************************)
(* The fraud agent's view of one user: package agent/fraud, from signals   *)
(* and patterns to the flags that operators resolve.                       *)
(*                                                                         *)
(* A fact is what one detector finds: <<signal, other>> for a signal that  *)
(* the user has in common with another account, <<pattern, number>> for a  *)
(* pattern.  Facts only grow.                                              *)
(***************************************************************************)
EXTENDS Naturals, FiniteSets, FiniteSetsExt, Sequences

CONSTANTS
  Others,      \* accounts that may share something with the user
  Evaluators,  \* bookings of the user that are evaluated, and scans
  Operators,   \* who resolve flags
  MaxFacts, MaxFlags, MaxDecisions

FraudAssumption == "nobody" \notin Operators /\ IsFiniteSet(Others) /\ MaxDecisions \in Nat

VARIABLES
  facts,      \* what the detectors find in the database
  evaluator,  \* evaluator[e]: how far an evaluation is, and what it found
  decisions,  \* agent_decisions of the agent: the facts, the score and outcome_correct
  flags,      \* the rows of fraud_flags
  riskFlags,  \* users.risk_flags: the numbers of the user's flags
  marking     \* marking[o]: the flag whose decision operator o is yet to mark, 0 for none

vars == <<facts, evaluator, decisions, flags, riskFlags, marking>>

SignalScore == [DEVICE_FINGERPRINT |-> 40, PAYMENT_INSTRUMENT |-> 50, CARRIER_BATCH |-> 30,
                SIMULTANEOUS_CREATION |-> 35, WIFI_NETWORK |-> 30]
\* DAMAGE_PATTERN stands for two patterns.  The user of an EXCLUSIVE_PAIR is its renter.
PatternScore == [EXCLUSIVE_PAIR |-> 45, DAMAGE_AMOUNT |-> 50, SERIAL_DAMAGE |-> 40,
                 VALUE_SPIKE |-> 35]
IsCompoundOnly(signal) == signal = "WIFI_NETWORK"

SignalFacts == (DOMAIN SignalScore) \X Others
PatternFacts == (DOMAIN PatternScore) \X Others
Score(fact) == IF fact \in SignalFacts THEN SignalScore[fact[1]] ELSE PatternScore[fact[1]]

ScoreThreshold == 80
actionFromScore(score) ==
  IF score >= 100 THEN "SUSPEND" ELSE IF score >= ScoreThreshold THEN "FLAG" ELSE "MONITOR"

Idle == [at |-> "idle", found |-> {}, decision |-> 0]
Outcomes == {"CORRECT", "INCORRECT", "INCONCLUSIVE"}

TypeOK ==
  /\ facts \subseteq SignalFacts \cup PatternFacts
  /\ evaluator \in [Evaluators -> [at : {"idle", "found", "recorded"}, found : SUBSET (SignalFacts \cup PatternFacts),
                                   decision : 0 .. MaxDecisions]]
  /\ \A d \in DOMAIN decisions : decisions[d] \in [score : Nat, correct : BOOLEAN]
  /\ \A f \in DOMAIN flags :
       flags[f] \in [found : SUBSET (SignalFacts \cup PatternFacts), score : Nat,
                     action : {"MONITOR", "FLAG", "SUSPEND"}, decision : DOMAIN decisions,
                     by : Operators \cup {"nobody"}, outcome : Outcomes \cup {"none"}]
  /\ riskFlags \subseteq DOMAIN flags
  /\ marking \in [Operators -> {0} \cup DOMAIN flags]

Init ==
  /\ facts = {} /\ decisions = << >> /\ flags = << >> /\ riskFlags = {}
  /\ evaluator = [e \in Evaluators |-> Idle]
  /\ marking = [o \in Operators |-> 0]

-----------------------------------------------------------------------------

\* Accounts are opened, rentals and disputes happen.
Happens ==
  /\ Cardinality(facts) < MaxFacts
  /\ \E fact \in (SignalFacts \cup PatternFacts) \ facts : facts' = facts \cup {fact}
  /\ UNCHANGED <<evaluator, decisions, flags, riskFlags, marking>>

\* Compound-only signals count if there is another.
TotalScore(found) ==
  IF \E fact \in found : ~ IsCompoundOnly(fact[1]) THEN MapThenSumSet(Score, found) ELSE 0

\* Each detector is a query of its own, and those that fail find nothing.
Detected(all) ==
  {{fact \in all \cap facts : fact[1] \notin failed} :
      failed \in SUBSET {fact[1] : fact \in all \cap facts}}

\* For each party of a booking, from EvaluateTransaction: signals only, no patterns.
EvaluateUser(e) ==
  /\ evaluator[e] = Idle
  /\ \E found \in Detected(SignalFacts) :
       evaluator' = [evaluator EXCEPT ![e] = [at |-> "found", found |-> found, decision |-> 0]]
  /\ UNCHANGED <<facts, decisions, flags, riskFlags, marking>>

\* Every six hours: patterns only.  Users below the threshold leave no decision.
RunScheduledScan(e) ==
  /\ evaluator[e] = Idle
  /\ \E found \in Detected(PatternFacts) :
       /\ TotalScore(found) >= ScoreThreshold
       /\ evaluator' = [evaluator EXCEPT ![e] = [at |-> "found", found |-> found, decision |-> 0]]
  /\ UNCHANGED <<facts, decisions, flags, riskFlags, marking>>

RecordDecision(e) ==
  /\ evaluator[e].at = "found" /\ Len(decisions) < MaxDecisions
  /\ LET score == TotalScore(evaluator[e].found)
     IN /\ decisions' = Append(decisions, [score |-> score, correct |-> FALSE])
        /\ evaluator' = [evaluator EXCEPT ![e] =
              IF score < ScoreThreshold /\ actionFromScore(score) = "MONITOR"
              THEN Idle
              ELSE [at |-> "recorded", found |-> @.found, decision |-> Len(decisions) + 1]]
  /\ UNCHANGED <<facts, flags, riskFlags, marking>>

\* One transaction.  That the user has a flag for the same already is not looked at.
InsertFraudFlag(e) ==
  /\ evaluator[e].at = "recorded" /\ Len(flags) < MaxFlags
  /\ LET score == TotalScore(evaluator[e].found)
     IN flags' = Append(flags, [found |-> evaluator[e].found, score |-> score,
                                action |-> actionFromScore(score),
                                decision |-> evaluator[e].decision,
                                by |-> "nobody", outcome |-> "none"])
  /\ riskFlags' = riskFlags \cup {Len(flags) + 1}
  /\ evaluator' = [evaluator EXCEPT ![e] = Idle]
  /\ UNCHANGED <<facts, decisions, marking>>

\* A call fails or the process stops; the booking goes on, the scan comes again.
EvaluationFails(e) ==
  /\ evaluator[e] # Idle
  /\ evaluator' = [evaluator EXCEPT ![e] = Idle]
  /\ UNCHANGED <<facts, decisions, flags, riskFlags, marking>>

-----------------------------------------------------------------------------

\* Slip: whether the flag is resolved is not part of the update.
ResolveUnguarded(o, f, outcome) ==
  /\ marking[o] = 0 /\ f \in DOMAIN flags
  /\ flags' = [flags EXCEPT ![f] = [@ EXCEPT !.by = o, !.outcome = outcome]]
  /\ marking' = [marking EXCEPT ![o] = IF outcome = "CORRECT" THEN f ELSE 0]
  /\ UNCHANGED <<facts, evaluator, decisions, riskFlags>>

\* The first to resolve an open flag does.
ResolveFraudFlag(o, f, outcome) ==
  /\ marking[o] = 0 /\ f \in DOMAIN flags
  /\ flags[f].by = "nobody"
  /\ flags' = [flags EXCEPT ![f] = [@ EXCEPT !.by = o, !.outcome = outcome]]
  /\ marking' = [marking EXCEPT ![o] = IF outcome = "CORRECT" THEN f ELSE 0]
  /\ UNCHANGED <<facts, evaluator, decisions, riskFlags>>

\* A statement of its own, and best-effort.
MarkDecision(o) ==
  /\ marking[o] # 0
  /\ decisions' = [decisions EXCEPT ![flags[marking[o]].decision].correct = TRUE]
  /\ marking' = [marking EXCEPT ![o] = 0]
  /\ UNCHANGED <<facts, evaluator, flags, riskFlags>>

MarkFails(o) ==
  /\ marking[o] # 0
  /\ marking' = [marking EXCEPT ![o] = 0]
  /\ UNCHANGED <<facts, evaluator, decisions, flags, riskFlags>>

-----------------------------------------------------------------------------

Evaluating(e) ==
  \/ EvaluateUser(e) \/ RunScheduledScan(e) \/ RecordDecision(e) \/ InsertFraudFlag(e)
  \/ EvaluationFails(e)

Resolving(o) ==
  \/ \E f \in 1 .. MaxFlags, outcome \in Outcomes : ResolveFraudFlag(o, f, outcome)
  \/ MarkDecision(o) \/ MarkFails(o)

Next ==
  \/ Happens
  \/ \E e \in Evaluators : Evaluating(e)
  \/ \E o \in Operators : Resolving(o)

Spec == Init /\ [][Next]_vars

-----------------------------------------------------------------------------
(* Properties.                                                             *)

\* Sharing a network with any number of accounts flags nobody, whichever detectors fail:
\* every flag rests on something else too.
WiFiAloneIsNothing ==
  \A f \in DOMAIN flags : \E fact \in flags[f].found : ~ IsCompoundOnly(fact[1])

\* Although operators resolve flags at once, and the decision is marked in a second
\* statement: a decision counts as correct only if its flag is resolved as correct.
MarkedAsResolved ==
  \A d \in DOMAIN decisions : decisions[d].correct =>
    \E f \in DOMAIN flags : flags[f].decision = d /\ flags[f].outcome = "CORRECT"

\* What operators see and what calibration counts can both be stood by.
FlagsHoldUp == WiFiAloneIsNothing /\ MarkedAsResolved

=============================================================================
