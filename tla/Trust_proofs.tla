---------------------------- MODULE Trust_proofs ----------------------------
(***************************************************************************)
(* Theorems about whom and what the platform trusts, for any number of     *)
(* users, workers and requests.  The components share no state: each has   *)
(* an inductive invariant of its own, and a step of another leaves it      *)
(* alone.                                                                  *)
(***************************************************************************)
EXTENDS MC_Trust, Risk, TLAPS, WellFoundedInduction, FiniteSetTheorems, Integers

\* A step of one component is a step of it or leaves its variables alone.
LEMMA StepsApart ==
  ASSUME [TrustNext]_trust
  PROVE  /\ [Next]_vars
         /\ [V!Next]_verification /\ [R!Next]_reputation /\ [O!Next]_outcome /\ [A!Next]_consent
  BY DEF TrustNext, Suspecting, Verifying, Rating, Judging, Agreeing, trust

LEMMA BeginApart ==
  ASSUME TrustInit
  PROVE  Init /\ V!Init /\ R!Init /\ O!Init /\ A!Init
  BY DEF TrustInit

-----------------------------------------------------------------------------
(* The fraud agent.                                                        *)

Facts == SignalFacts \cup PatternFacts
Scores == {TotalScore(found) : found \in SUBSET Facts}
Decision == [score : Scores, correct : BOOLEAN]
Flag == [found : SUBSET Facts, score : Scores, action : {actionFromScore(s) : s \in Scores},
         decision : Nat, by : Operators \cup {"nobody"}, outcome : Outcomes \cup {"none"}]

NotForTheNetworkAlone(found) == \E fact \in found : ~ IsCompoundOnly(fact[1])

\* As much of the types as the argument needs; what the scores are does not matter to it.
Shape ==
  /\ facts \subseteq Facts
  /\ decisions \in Seq(Decision)
  /\ flags \in Seq(Flag)
  /\ evaluator \in [Evaluators -> [at : {"idle", "found", "recorded"}, found : SUBSET Facts,
                                   decision : Nat]]
  /\ marking \in [Operators -> Nat]

\* The inductive invariant: an evaluation that will flag found more than a network, and who
\* will mark a decision has resolved its flag as correct.
FraudInv ==
  /\ Shape
  /\ \A e \in Evaluators :
       evaluator[e].at = "recorded" => NotForTheNetworkAlone(evaluator[e].found)
  /\ \A o \in Operators : marking[o] # 0 =>
       marking[o] \in DOMAIN flags /\ flags[marking[o]].outcome = "CORRECT"
  /\ \A f \in DOMAIN flags : flags[f].by = "nobody" => flags[f].outcome = "none"
  /\ FlagsHoldUp

LEMMA InitFraudInv == Init => FraudInv
  BY DEF Init, FraudInv, Shape, Idle, FlagsHoldUp, WiFiAloneIsNothing, MarkedAsResolved

\* What a detector finds are facts, also when another one fails.
LEMMA DetectedAreFacts ==
  ASSUME Shape, NEW all, NEW found \in Detected(all)
  PROVE  found \subseteq Facts
  BY DEF Detected, Shape

LEMMA EvaluatingKeepsFraudInv ==
  ASSUME FraudInv, NEW e \in Evaluators, Evaluating(e)
  PROVE  FraudInv'
  <1> USE DEF FraudInv, Shape
  <1>1. CASE EvaluateUser(e)
    <2>1. PICK found \in Detected(SignalFacts) :
            evaluator' = [evaluator EXCEPT ![e] = [at |-> "found", found |-> found, decision |-> 0]]
      BY <1>1 DEF EvaluateUser
    <2> QED BY <1>1, <2>1, DetectedAreFacts DEF EvaluateUser, Idle, FlagsHoldUp, WiFiAloneIsNothing, MarkedAsResolved
  <1>2. CASE RunScheduledScan(e)
    <2>1. PICK found \in Detected(PatternFacts) :
            evaluator' = [evaluator EXCEPT ![e] = [at |-> "found", found |-> found, decision |-> 0]]
      BY <1>2 DEF RunScheduledScan
    <2> QED BY <1>2, <2>1, DetectedAreFacts DEF RunScheduledScan, Idle, FlagsHoldUp, WiFiAloneIsNothing, MarkedAsResolved
  <1>3. CASE RecordDecision(e)
    <2> DEFINE points == TotalScore(evaluator[e].found)
               new == [score |-> points, correct |-> FALSE]
    <2>1. new \in Decision /\ decisions' = Append(decisions, new)
      BY <1>3 DEF RecordDecision, Decision, Scores
    <2>2. evaluator'[e].at = "recorded" => NotForTheNetworkAlone(evaluator[e].found)
      <3>1. points = 0 => points < ScoreThreshold /\ actionFromScore(points) = "MONITOR"
        BY DEF ScoreThreshold, actionFromScore
      <3>2. CASE points # 0
        BY <3>2 DEF TotalScore, NotForTheNetworkAlone
      <3>3. CASE points = 0
        BY <1>3, <3>1, <3>3 DEF RecordDecision, Idle
      <3> QED BY <3>2, <3>3
    <2>3. evaluator' \in [Evaluators -> [at : {"idle", "found", "recorded"}, found : SUBSET Facts,
                                       decision : Nat]]
      BY <1>3 DEF RecordDecision, Idle
    <2>4. \A c \in Evaluators :
            evaluator'[c].at = "recorded" => NotForTheNetworkAlone(evaluator'[c].found)
      BY <1>3, <2>2 DEF RecordDecision, Idle
    <2>5. MarkedAsResolved'
      <3>1. /\ DOMAIN decisions' = DOMAIN decisions \cup {Len(decisions) + 1}
            /\ decisions'[Len(decisions) + 1] = new
            /\ \A d \in DOMAIN decisions : decisions'[d] = decisions[d]
        BY <2>1
      <3>2. ~ new.correct
        OBVIOUS
      <3>3. UNCHANGED flags
        BY <1>3 DEF RecordDecision
      <3> HIDE DEF new
      <3> QED BY <3>1, <3>2, <3>3 DEF FlagsHoldUp, MarkedAsResolved
    <2>6. decisions' \in Seq(Decision)
      BY <2>1
    <2> QED BY <1>3, <2>3, <2>4, <2>5, <2>6 DEF RecordDecision, FlagsHoldUp, WiFiAloneIsNothing
  <1>4. CASE InsertFraudFlag(e)
    <2> DEFINE points == TotalScore(evaluator[e].found)
               new == [found |-> evaluator[e].found, score |-> points,
                       action |-> actionFromScore(points), decision |-> evaluator[e].decision,
                       by |-> "nobody", outcome |-> "none"]
    <2>1. new \in Flag /\ flags' = Append(flags, new) /\ NotForTheNetworkAlone(new.found)
      BY <1>4 DEF InsertFraudFlag, Flag, Scores
    <2>2. /\ DOMAIN flags' = DOMAIN flags \cup {Len(flags) + 1}
          /\ flags'[Len(flags) + 1] = new
          /\ \A f \in DOMAIN flags : f # Len(flags) + 1 /\ flags'[f] = flags[f]
          /\ flags' \in Seq(Flag)
      BY <2>1
    <2>3. evaluator' = [evaluator EXCEPT ![e] = Idle] /\ UNCHANGED <<facts, decisions, marking>>
      BY <1>4 DEF InsertFraudFlag
    <2> HIDE DEF new
    <2>4. new.by = "nobody" /\ new.outcome = "none"
      BY DEF new
    <2>5. FlagsHoldUp'
      BY <2>1, <2>2, <2>3 DEF FlagsHoldUp, WiFiAloneIsNothing, MarkedAsResolved, NotForTheNetworkAlone
    <2> QED BY <2>2, <2>3, <2>4, <2>5 DEF Idle
  <1>5. CASE EvaluationFails(e)
    BY <1>5 DEF EvaluationFails, Idle, FlagsHoldUp, WiFiAloneIsNothing, MarkedAsResolved
  <1> QED BY <1>1, <1>2, <1>3, <1>4, <1>5 DEF Evaluating

LEMMA ResolvingKeepsFraudInv ==
  ASSUME FraudAssumption, FraudInv, NEW o \in Operators, Resolving(o)
  PROVE  FraudInv'
  <1> USE DEF FraudInv, Shape
  <1>1. ASSUME NEW f \in 1 .. MaxFlags, NEW verdict \in Outcomes, ResolveFraudFlag(o, f, verdict)
        PROVE  FraudInv'
    <2>1. /\ f \in DOMAIN flags /\ flags[f].by = "nobody"
          /\ flags' = [flags EXCEPT ![f] = [flags[f] EXCEPT !.by = o, !.outcome = verdict]]
      BY <1>1 DEF ResolveFraudFlag
    <2>2. flags' \in Seq(Flag) /\ DOMAIN flags' = DOMAIN flags
      <3>1. flags[f] \in Flag
        BY <2>1
      <3>2. [flags[f] EXCEPT !.by = o, !.outcome = verdict] \in Flag
        BY <3>1 DEF Flag
      <3> QED BY <2>1, <3>2
    <2>3. /\ flags'[f].by = o /\ flags'[f].outcome = verdict
          /\ \A g \in DOMAIN flags : g # f => flags'[g] = flags[g]
          /\ \A g \in DOMAIN flags : flags'[g].found = flags[g].found
                                     /\ flags'[g].decision = flags[g].decision
      <3>1. flags[f] \in Flag
        BY <2>1
      <3>2. /\ [flags[f] EXCEPT !.by = o, !.outcome = verdict].by = o
            /\ [flags[f] EXCEPT !.by = o, !.outcome = verdict].outcome = verdict
            /\ [flags[f] EXCEPT !.by = o, !.outcome = verdict].found = flags[f].found
            /\ [flags[f] EXCEPT !.by = o, !.outcome = verdict].decision = flags[f].decision
        BY <3>1 DEF Flag
      <3> QED BY <2>1, <3>2
    <2>4. \A g \in DOMAIN flags : flags[g].outcome = "CORRECT" => flags'[g].outcome = "CORRECT"
      BY <2>1, <2>3
    <2>5. FlagsHoldUp'
      BY <1>1, <2>2, <2>3, <2>4 DEF ResolveFraudFlag, FlagsHoldUp, WiFiAloneIsNothing, MarkedAsResolved
    <2>6. \A p \in Operators : marking'[p] # 0 =>
            marking'[p] \in DOMAIN flags' /\ flags'[marking'[p]].outcome = "CORRECT"
      BY <1>1, <2>2, <2>3, <2>4 DEF ResolveFraudFlag
    <2>7. marking' \in [Operators -> Nat]
      BY <1>1 DEF ResolveFraudFlag
    <2> QED BY <1>1, <2>2, <2>3, <2>5, <2>6, <2>7 DEF ResolveFraudFlag, FraudAssumption
  <1>2. CASE MarkDecision(o)
    <2> DEFINE d == flags[marking[o]].decision
               marked == [decisions[d] EXCEPT !.correct = TRUE]
    <2>1. decisions' = [decisions EXCEPT ![d] = marked]
      BY <1>2 DEF MarkDecision
    <2>2. d \in DOMAIN decisions => marked \in Decision
      <3>1. d \in DOMAIN decisions => decisions[d] \in Decision
        OBVIOUS
      <3> QED BY <3>1 DEF Decision
    <2>3. /\ decisions' \in Seq(Decision)
          /\ DOMAIN decisions' = DOMAIN decisions
          /\ \A c \in DOMAIN decisions : c # d => decisions'[c] = decisions[c]
      <3> HIDE DEF marked
      <3>1. decisions \in [1 .. Len(decisions) -> Decision] /\ Len(decisions) \in Nat
        OBVIOUS
      <3>2. decisions' \in [1 .. Len(decisions) -> Decision]
        BY <2>1, <2>2, <3>1
      <3>3. decisions' \in Seq(Decision)
        BY <3>1, <3>2
      <3> QED BY <2>1, <3>1, <3>3
    <2>4. MarkedAsResolved'
      BY <1>2, <2>3 DEF MarkDecision, FlagsHoldUp, MarkedAsResolved
    <2> QED BY <1>2, <2>3, <2>4 DEF MarkDecision, FlagsHoldUp, WiFiAloneIsNothing
  <1>3. CASE MarkFails(o)
    BY <1>3 DEF MarkFails, FlagsHoldUp, WiFiAloneIsNothing, MarkedAsResolved
  <1> QED BY <1>1, <1>2, <1>3 DEF Resolving

LEMMA NextFraudInv == ASSUME FraudAssumption PROVE FraudInv /\ [Next]_vars => FraudInv'
  <1> SUFFICES ASSUME FraudInv, [Next]_vars PROVE FraudInv'
    OBVIOUS
  <1>1. CASE Happens
    BY <1>1 DEF Happens, FraudInv, Shape, Facts, FlagsHoldUp, WiFiAloneIsNothing, MarkedAsResolved
  <1>2. CASE UNCHANGED vars
    BY <1>2 DEF vars, FraudInv, Shape, FlagsHoldUp, WiFiAloneIsNothing, MarkedAsResolved
  <1> QED BY <1>1, <1>2, EvaluatingKeepsFraudInv, ResolvingKeepsFraudInv DEF Next

\* The flags of the agent (RunAllSignals, InsertFraudFlag) and the outcomes that operators
\* give them (ResolveFraudFlag, handleResolveFlag) can be stood by.
THEOREM FlagsAlwaysHoldUp == TrustSpec => []FlagsHoldUp
  <1>1. TrustInit => FraudInv
    BY BeginApart, InitFraudInv
  <1>2. FraudInv /\ [TrustNext]_trust => FraudInv'
    BY TrustAssumption, StepsApart, NextFraudInv
  <1>3. FraudInv => FlagsHoldUp
    BY DEF FraudInv
  <1> QED BY <1>1, <1>2, <1>3, PTL DEF TrustSpec

-----------------------------------------------------------------------------
(* The rules on who may book.  The scores are sums of at most thirteen     *)
(* weights: each lemma bounds or compares one of the five parts.           *)

LEMMA ProfileTypes ==
  ASSUME NEW u \in UserProfile
  PROVE  u.age \in Nat /\ u.reputation \in Nat
<1>1. u.age \in Nat /\ u.reputation \in 0 .. 1000
  BY DEF UserProfile
<1> QED BY SMTT(30), <1>1

LEMMA BaseGrows ==
  ASSUME NEW a \in UserProfile, NEW b \in UserProfile,
         a.identity = "PENDING" => b.identity = "PENDING",
         b.age <= a.age, b.reputation <= a.reputation
  PROVE  /\ baseRisk(a) \in Nat /\ baseRisk(b) \in Nat
         /\ baseRisk(a) <= baseRisk(b)
<1> DEFINE Identity(u) == Points(u.identity = "PENDING", 20)
           Age(u) == Points(u.age < 7, 15)
           Reputation(u) == IF u.reputation < 100 THEN 15 ELSE Points(u.reputation < 300, 5)
<1>1. /\ a.age \in Nat /\ b.age \in Nat
      /\ a.reputation \in Nat /\ b.reputation \in Nat
  BY ProfileTypes
<1>2. Identity(a) \in Nat /\ Identity(b) \in Nat /\ Identity(a) <= Identity(b)
  BY DEF Points
<1>3. Age(a) \in Nat /\ Age(b) \in Nat /\ Age(a) <= Age(b)
  BY <1>1 DEF Points
<1>4. Reputation(a) \in Nat /\ Reputation(b) \in Nat /\ Reputation(a) <= Reputation(b)
  BY <1>1 DEF Points
<1>5. baseRisk(a) = Identity(a) + Age(a) + Reputation(a)
      /\ baseRisk(b) = Identity(b) + Age(b) + Reputation(b)
  BY DEF baseRisk
<1> HIDE DEF Identity, Age, Reputation
<1> QED BY <1>2, <1>3, <1>4, <1>5

LEMMA TransactionGrows ==
  ASSUME NEW v \in Nat, NEW w \in Nat, v <= w, NEW hour \in {NoStart} \cup 0 .. 23
  PROVE  /\ transactionRisk(v, hour) \in Nat /\ transactionRisk(w, hour) \in Nat
         /\ transactionRisk(v, hour) <= transactionRisk(w, hour)
BY DEF transactionRisk, Points, NoStart

LEMMA CounterpartyGrows ==
  ASSUME NEW a \in UserProfile, NEW b \in UserProfile,
         NEW h \in UserProfile, NEW k \in UserProfile,
         b.reputation <= a.reputation, k.reputation <= h.reputation, k.age <= h.age
  PROVE  /\ counterpartyRisk(a, h) \in Nat /\ counterpartyRisk(b, k) \in Nat
         /\ counterpartyRisk(a, h) <= counterpartyRisk(b, k)
<1>1. \A u \in {a, b, h, k} : u.age \in Nat /\ u.reputation \in Nat
  BY ProfileTypes
<1>2. h.age < 14 => k.age < 14
  BY <1>1
<1>3. (a.reputation < 50 /\ h.reputation < 50) => (b.reputation < 50 /\ k.reputation < 50)
  BY <1>1
<1> QED BY <1>2, <1>3 DEF counterpartyRisk, Points

LEMMA BehavioralGrows ==
  ASSUME NEW p \in BehavioralHistory, NEW q \in BehavioralHistory,
         NEW g \in BOOLEAN, NEW h \in BOOLEAN, g => h,
         p.cancellations <= q.cancellations, p.disputes <= q.disputes
  PROVE  /\ behavioralRisk(p, g) \in Nat /\ behavioralRisk(q, h) \in Nat
         /\ behavioralRisk(p, g) <= behavioralRisk(q, h)
BY DEF BehavioralHistory, behavioralRisk, Points

LEMMA FraudGrows ==
  ASSUME NEW in \in RiskScoreInput, NEW worse \in RiskScoreInput, NoWorse(in, worse)
  PROVE  /\ fraudRisk(in) \in Nat /\ fraudRisk(worse) \in Nat
         /\ fraudRisk(in) <= fraudRisk(worse)
BY DEF RiskScoreInput, NoWorse, fraudRisk, Points

\* No fact that speaks against a booking lowers its score, and the control that follows
\* from the score is never milder for it (computeScore and controlForScore).
THEOREM RiskGrows ==
  ASSUME NEW in \in RiskScoreInput, NEW worse \in RiskScoreInput, NoWorse(in, worse)
  PROVE  /\ computeScore(in) <= computeScore(worse)
         /\ Severity(controlForScore(computeScore(in)))
              <= Severity(controlForScore(computeScore(worse)))
<1> DEFINE Parts(i) == baseRisk(i.renter) + transactionRisk(i.itemValue, i.startHour)
                       + counterpartyRisk(i.renter, i.host)
                       + behavioralRisk(i.history, i.geoMismatch) + fraudRisk(i)
<1>1. baseRisk(in.renter) \in Nat /\ baseRisk(worse.renter) \in Nat
      /\ baseRisk(in.renter) <= baseRisk(worse.renter)
  BY BaseGrows DEF RiskScoreInput, NoWorse
<1>2. transactionRisk(in.itemValue, in.startHour) \in Nat
      /\ transactionRisk(worse.itemValue, worse.startHour) \in Nat
      /\ transactionRisk(in.itemValue, in.startHour)
           <= transactionRisk(worse.itemValue, worse.startHour)
  BY TransactionGrows DEF RiskScoreInput, NoWorse
<1>3. counterpartyRisk(in.renter, in.host) \in Nat
      /\ counterpartyRisk(worse.renter, worse.host) \in Nat
      /\ counterpartyRisk(in.renter, in.host) <= counterpartyRisk(worse.renter, worse.host)
  BY CounterpartyGrows DEF RiskScoreInput, NoWorse
<1>4. behavioralRisk(in.history, in.geoMismatch) \in Nat
      /\ behavioralRisk(worse.history, worse.geoMismatch) \in Nat
      /\ behavioralRisk(in.history, in.geoMismatch)
           <= behavioralRisk(worse.history, worse.geoMismatch)
  BY BehavioralGrows DEF RiskScoreInput, NoWorse
<1>5. Parts(in) \in Nat /\ Parts(worse) \in Nat /\ Parts(in) <= Parts(worse)
  BY <1>1, <1>2, <1>3, <1>4, FraudGrows
<1>6. computeScore(in) = Clamp(0, 100, Parts(in))
      /\ computeScore(worse) = Clamp(0, 100, Parts(worse))
  BY DEF computeScore
<1>7. computeScore(in) \in Nat /\ computeScore(worse) \in Nat
      /\ computeScore(in) <= computeScore(worse)
  <2> HIDE DEF Parts
  <2> QED BY <1>5, <1>6 DEF Clamp
<1>8. ASSUME NEW s \in Nat, NEW t \in Nat, s <= t
      PROVE  Severity(controlForScore(s)) <= Severity(controlForScore(t))
  BY <1>8 DEF controlForScore, Severity
<1> QED BY <1>7, <1>8

\* An established renter is refused at a booking for nothing but the damage that the host
\* has claimed: however often the renter cancelled or was in a dispute, whoever the host
\* (CheckFraudVelocity, ComputeRiskScore and CreateBooking together).
THEOREM EstablishedIsServed ==
  ASSUME NEW renter \in UserProfile, NEW host \in UserProfile,
         NEW history \in BehavioralHistory, NEW claimed \in Nat,
         NEW cfg \in FraudVelocityConfig,
         Established(renter, cfg), Refused(renter, host, history, claimed, cfg)
  PROVE  ClaimsTooMuch(host, claimed, cfg)
<1>1. ~ NewToNew(renter, host, cfg)
  BY DEF NewToNew, Established, UserProfile, FraudVelocityConfig
<1>2. baseRisk(renter) = 0
  BY DEF Established, UserProfile, baseRisk, Points
<1>3. transactionRisk(0, NoStart) = 0
  BY DEF transactionRisk, Points, NoStart
<1>4. counterpartyRisk(renter, host) \in {0, 10}
  BY DEF Established, UserProfile, counterpartyRisk, Points
<1>5. behavioralRisk(history, FALSE) \in {0, 20, 25, 45}
  BY DEF BehavioralHistory, behavioralRisk, Points
<1> DEFINE in == [renter |-> renter, host |-> host, history |-> history, itemValue |-> 0,
                  startHour |-> NoStart, geoMismatch |-> FALSE, device |-> FALSE,
                  network |-> FALSE, velocity |-> FALSE]
<1>6. fraudRisk(in) = 0
  BY DEF fraudRisk, Points
<1>7. ComputeRiskScore(renter, host, history)
        = Clamp(0, 100, baseRisk(renter) + transactionRisk(0, NoStart)
                        + counterpartyRisk(renter, host) + behavioralRisk(history, FALSE)
                        + fraudRisk(in))
  BY DEF ComputeRiskScore, computeScore
<1>8. ComputeRiskScore(renter, host, history) \in 0 .. 55
  <2>1. PICK c \in {0, 10} : counterpartyRisk(renter, host) = c
    BY <1>4
  <2>2. PICK b \in {0, 20, 25, 45} : behavioralRisk(history, FALSE) = b
    BY <1>5
  <2>3. ComputeRiskScore(renter, host, history) = Clamp(0, 100, 0 + 0 + c + b + 0)
    BY <1>2, <1>3, <1>6, <1>7, <2>1, <2>2
  <2> QED BY <2>3 DEF Clamp
<1>9. controlForScore(ComputeRiskScore(renter, host, history)) # "BLOCK"
  BY <1>8 DEF controlForScore
<1> QED BY <1>1, <1>9 DEF Refused, CheckFraudVelocity

\* Whoever cancels: a cancellation nearer to the pickup never costs less, and none costs
\* more than the rental fee, provided that the host's rates are shares and do not fall.
THEOREM CancellingLaterCostsMore ==
  ASSUME NEW role \in {"RENTER", "HOST"}, NEW fee \in Nat, NEW cfg \in HostCancelConfig,
         cfg.late <= cfg.veryLate, cfg.veryLate <= 10000,
         NEW earlier \in Int, NEW later \in Int, later <= earlier
  PROVE  /\ CalculateCancellationFee(role, fee, earlier, cfg)
              <= CalculateCancellationFee(role, fee, later, cfg)
         /\ CalculateCancellationFee(role, fee, later, cfg) <= fee
<1>1. fee \div 4 <= fee \div 2 /\ fee \div 2 <= fee /\ 0 <= fee \div 4
      /\ fee \div 2 \in Int /\ fee \div 4 \in Int
  OBVIOUS
<1>2. cfg.late \in Nat /\ cfg.veryLate \in Nat
  BY DEF HostCancelConfig
<1>3. fee * cfg.late \in Nat /\ fee * cfg.veryLate \in Nat
      /\ fee * cfg.late <= fee * cfg.veryLate /\ fee * cfg.veryLate <= fee * 10000
  BY <1>2
<1>4. ASSUME NEW m \in Nat, NEW n \in Nat, m <= n, n <= fee * 10000
      PROVE  m \div 10000 <= n \div 10000 /\ n \div 10000 <= fee /\ 0 <= m \div 10000
             /\ m \div 10000 \in Int /\ n \div 10000 \in Int
  BY <1>4
<1> DEFINE lateFee == (fee * cfg.late) \div 10000
           veryLateFee == (fee * cfg.veryLate) \div 10000
<1>5. lateFee <= veryLateFee /\ veryLateFee <= fee /\ 0 <= lateFee /\ lateFee \in Int /\ veryLateFee \in Int
  BY <1>3, <1>4
<1>6. CASE role = "RENTER"
  BY <1>1, <1>6 DEF CalculateCancellationFee, RenterFee
<1>7. CASE role = "HOST"
  <2>1. \A m \in Int : CalculateCancellationFee(role, fee, m, cfg)
          = IF m < 0 THEN veryLateFee ELSE IF m < 120 THEN lateFee ELSE 0
    BY <1>7 DEF CalculateCancellationFee, HostFee
  <2> HIDE DEF lateFee, veryLateFee
  <2> QED BY <1>5, <2>1
<1> QED BY <1>6, <1>7

-----------------------------------------------------------------------------
(* The agreement.                                                          *)

\* Nobody can have accepted, and no snapshot can have been taken, before the one text is there.
THEOREM ArbiterReadsTheAgreement == TrustSpec => []ArbiterReadsWhatWasAccepted
  <1> USE DEF A!ArbiterReadsWhatWasAccepted
  <1>1. TrustInit => A!ArbiterReadsWhatWasAccepted
    BY BeginApart, TrustAssumption DEF A!Init, A!AgreementAssumption, A!NoText
  <1>2. A!ArbiterReadsWhatWasAccepted /\ [TrustNext]_trust => A!ArbiterReadsWhatWasAccepted'
    <2> SUFFICES ASSUME A!ArbiterReadsWhatWasAccepted, [A!Next]_consent
                 PROVE  A!ArbiterReadsWhatWasAccepted'
      BY StepsApart
    <2>1. CASE A!TriggerAgreement
      BY <2>1 DEF A!TriggerAgreement
    <2>2. CASE A!GenerateAgreement
      <3>1. PICK clauses \in A!generateClauses : A!Insert(clauses)
        BY <2>2 DEF A!GenerateAgreement
      <3>2. clauses \cap Banned = {}
        BY DEF A!generateClauses, A!guardrailCheck
      <3> QED BY <2>2, <3>1, <3>2 DEF A!GenerateAgreement, A!Insert
    <2>3. CASE A!UpdateAgreementSnapshot \/ A!DraftingFails
      BY <2>3 DEF A!UpdateAgreementSnapshot, A!DraftingFails
    <2>4. ASSUME NEW user \in A!Users, A!ValidateAcceptance(user)
          PROVE  A!ArbiterReadsWhatWasAccepted'
      BY <2>4 DEF A!ValidateAcceptance
    <2>5. CASE UNCHANGED consent
      BY <2>5 DEF consent
    <2> QED BY <2>1, <2>2, <2>3, <2>4, <2>5 DEF A!Next, A!Drafts, A!Accepting
  <1> QED BY <1>1, <1>2, PTL DEF TrustSpec, ArbiterReadsWhatWasAccepted

-----------------------------------------------------------------------------
(* The reputation.                                                         *)

UserStats == [rentals : Int, bubbles : Int, verified : BOOLEAN, disputes : Int, old : Int]

RequestState == [step : {"new", "signal", "read", "set", "enqueue", "done"}, left : Int, sum : Int]

Undone(r) == request[r].step \notin {"new", "done"}

\* Some recalculation is still to come: it is queued, or a request will queue it.
RecalcIsDue == recalcs > 0 \/ \E r \in Ratings : Undone(r)

\* One recalculation at a time and no lost request, as the property presupposes.
Orderly == clash \cap {"workers", "lost"} = {}

\* The inductive invariant: while nothing is due, the one recalculation under way has read
\* every rating, and without one the score was computed from every rating.
RatedInv ==
  /\ recalcs \in Nat /\ signals \in Nat /\ standing \in UserStats
  /\ request \in [Ratings -> RequestState]
  /\ DOMAIN updater = Updaters
  /\ Orderly =>
       /\ \A v, w \in Updaters : R!Busy(v) /\ R!Busy(w) => v = w
       /\ ~ RecalcIsDue =>
            /\ \A w \in Updaters : R!Busy(w) => updater[w].read.bubbles = standing.bubbles
            /\ seen \in {standing.bubbles, R!Backfilled} \/ \E w \in Updaters : R!Busy(w)

LEMMA SumIsInt == ASSUME NEW n \in Nat PROVE R!SignalSum(n) \in Int
  BY DEF R!SignalSum, R!clamp

LEMMA RatedByRequest ==
  ASSUME RatedInv, NEW r \in Ratings,
         R!Submitting(r) \/ R!SubmitStops(r) \/ \E n \in 1 .. MaxBubbles : R!InsertRating(r, n)
  PROVE  RatedInv'
  <1> USE DEF RatedInv
  <1>0. request[r] \in RequestState
    OBVIOUS
  <1>1. ASSUME R!InsertSignal(r) \/ R!FindSignals(r) \/ R!SetReputationScore(r)
               \/ \E n \in 1 .. MaxBubbles : R!InsertRating(r, n)
        PROVE  RatedInv'
    <2>1. PICK step \in {"signal", "read", "set", "enqueue"}, left \in Int, sum \in Int :
            request' = [request EXCEPT ![r] = [step |-> step, left |-> left, sum |-> sum]]
      BY <1>0, <1>1, SumIsInt
         DEF R!InsertSignal, R!FindSignals, R!SetReputationScore, R!InsertRating, RequestState
    <2>2. request' \in [Ratings -> RequestState] /\ request'[r].step = step
      BY <2>1 DEF RequestState
    <2>3. signals' \in Nat /\ UNCHANGED <<recalcs, updater, clash>>
      BY <1>1 DEF R!InsertSignal, R!FindSignals, R!SetReputationScore, R!InsertRating, R!history
    <2>5. standing' \in UserStats
      <3>1. standing' = standing
            \/ \E n \in 1 .. MaxBubbles :
                 standing' = [standing EXCEPT !.bubbles = standing.bubbles + n]
        BY <1>1 DEF R!InsertSignal, R!FindSignals, R!SetReputationScore, R!InsertRating
      <3> QED BY <3>1 DEF UserStats
    <2>4. \E q \in Ratings : request'[q].step \notin {"new", "done"}
      BY <2>2
    <2> QED BY <2>2, <2>3, <2>4, <2>5 DEF RecalcIsDue, Undone, Orderly, R!Busy
  <1>2. ASSUME R!EnqueueRecalc(r) PROVE RatedInv'
    <2>1. request' = [request EXCEPT ![r] = [request[r] EXCEPT !.step = "done"]]
          /\ recalcs' = recalcs + 1 /\ UNCHANGED <<signals, standing, updater, clash>>
      BY Zenon, <1>2 DEF R!EnqueueRecalc, R!history
    <2>2. request' \in [Ratings -> RequestState]
      BY <1>0, <2>1 DEF RequestState
    <2> QED BY <2>1, <2>2 DEF RecalcIsDue, Orderly, R!Busy
  <1>3. ASSUME R!SubmitStops(r) PROVE RatedInv'
    <2>1. request' = [request EXCEPT ![r] = [request[r] EXCEPT !.step = "done"]]
          /\ clash' = clash \cup {"lost"} /\ UNCHANGED <<signals, standing, recalcs, updater>>
      BY <1>3 DEF R!SubmitStops
    <2>2. request' \in [Ratings -> RequestState]
      BY <1>0, <2>1 DEF RequestState
    <2> QED BY <2>1, <2>2 DEF Orderly
  <1> QED BY <1>1, <1>2, <1>3 DEF R!Submitting

LEMMA RatedByWorker ==
  ASSUME RatedInv, NEW w \in Updaters, R!Working(w) \/ R!WorkerStops(w)
  PROVE  RatedInv'
  <1> USE DEF RatedInv
  <1>1. CASE R!FetchUserStats(w)
    <2>1. /\ UNCHANGED <<standing, signals, request, seen>>
          /\ recalcs' = recalcs - 1 /\ recalcs > 0
          /\ DOMAIN updater' = Updaters
          /\ updater'[w].read = standing /\ updater'[w].step = "set"
          /\ \A v \in Updaters : v # w => updater'[v] = updater[v]
          /\ clash' = IF \E v \in Updaters : R!Busy(v) THEN clash \cup {"workers"} ELSE clash
      BY <1>1 DEF R!FetchUserStats, R!Start
    <2>2. Orderly' => Orderly /\ \A v \in Updaters : ~ R!Busy(v)
      BY <2>1 DEF Orderly
    <2> QED BY <2>1, <2>2 DEF RecalcIsDue, R!Busy
  <1>2. CASE R!SetScore(w)
    <2>1. /\ UNCHANGED <<standing, signals, request, recalcs, clash>>
          /\ R!Busy(w) /\ seen' = updater[w].read.bubbles
          /\ DOMAIN updater' = Updaters /\ updater'[w].step = "idle"
          /\ \A v \in Updaters : v # w => updater'[v] = updater[v]
      BY <1>2 DEF R!SetScore, R!IdleWorker, R!Busy
    <2> QED BY <2>1 DEF RecalcIsDue, Orderly, Undone, R!Busy
  <1>3. CASE R!WorkerStops(w)
    <2>1. /\ UNCHANGED <<standing, signals, request, seen, clash>>
          /\ recalcs' = recalcs + 1
          /\ DOMAIN updater' = Updaters /\ updater'[w].step = "idle"
          /\ \A v \in Updaters : v # w => updater'[v] = updater[v]
      BY <1>3 DEF R!WorkerStops, R!IdleWorker, R!history
    <2> QED BY <2>1 DEF RecalcIsDue, Orderly, R!Busy
  <1> QED BY <1>1, <1>2, <1>3 DEF R!Working

LEMMA RatedStep ==
  ASSUME RatedInv, [R!Next]_reputation
  PROVE  RatedInv'
  <1>1. CASE R!CheckOut \/ R!DisputeResolved \/ R!Ages \/ R!UpdateIdentityStatus
             \/ R!AddReputationScore
    <2>1. /\ UNCHANGED <<signals, request, updater, clash, seen>>
          /\ recalcs' = recalcs \/ recalcs' = recalcs + 1
      BY <1>1 DEF R!CheckOut, R!DisputeResolved, R!Ages, R!UpdateIdentityStatus,
                  R!AddReputationScore, R!history
    <2>2. \/ standing' = standing
          \/ standing' = [standing EXCEPT !.rentals = standing.rentals + 1]
          \/ standing' = [standing EXCEPT !.disputes = standing.disputes + 1]
          \/ standing' = [standing EXCEPT !.disputes = standing.disputes - 1,
                                         !.old = standing.old + 1]
          \/ standing' = [standing EXCEPT !.verified = TRUE]
      BY <1>1 DEF R!CheckOut, R!DisputeResolved, R!Ages, R!UpdateIdentityStatus,
                  R!AddReputationScore
    <2>3. standing'.bubbles = standing.bubbles /\ standing' \in UserStats
      <3>1. standing \in UserStats
        BY DEF RatedInv
      <3>2. \A s \in UserStats, n \in Int, m \in Int :
              /\ [s EXCEPT !.rentals = n] \in UserStats /\ [s EXCEPT !.rentals = n].bubbles = s.bubbles
              /\ [s EXCEPT !.disputes = n] \in UserStats /\ [s EXCEPT !.disputes = n].bubbles = s.bubbles
              /\ [s EXCEPT !.disputes = n, !.old = m] \in UserStats
              /\ [s EXCEPT !.disputes = n, !.old = m].bubbles = s.bubbles
              /\ [s EXCEPT !.verified = TRUE] \in UserStats
              /\ [s EXCEPT !.verified = TRUE].bubbles = s.bubbles
        BY DEF UserStats
      <3>3. standing.rentals + 1 \in Int /\ standing.disputes + 1 \in Int
            /\ standing.disputes - 1 \in Int /\ standing.old + 1 \in Int
        BY <3>1 DEF UserStats
      <3>4. CASE standing' = [standing EXCEPT !.disputes = standing.disputes - 1,
                                            !.old = standing.old + 1]
        <4>1. PICK n, m \in Int : n = standing.disputes - 1 /\ m = standing.old + 1
          BY <3>3
        <4>2. standing' = [standing EXCEPT !.disputes = n, !.old = m]
          BY <3>4, <4>1
        <4> QED BY ONLY <3>1, <3>2, <4>2, Zenon
      <3>5. CASE standing' = [standing EXCEPT !.rentals = standing.rentals + 1]
        BY <3>1, <3>3, <3>5 DEF UserStats
      <3>7. CASE standing' = [standing EXCEPT !.disputes = standing.disputes + 1]
        BY <3>1, <3>3, <3>7 DEF UserStats
      <3>6. CASE standing' = standing \/ standing' = [standing EXCEPT !.verified = TRUE]
        BY <3>1, <3>2, <3>3, <3>6
      <3> QED BY <2>2, <3>4, <3>5, <3>6, <3>7
    <2> QED BY <2>1, <2>3 DEF RatedInv, RecalcIsDue, Orderly, Undone, R!Busy
  <1>2. CASE UNCHANGED reputation
    BY <1>2 DEF reputation, RatedInv, RecalcIsDue, Orderly, Undone, R!Busy
  <1>3. CASE R!Backfilling
    <2>1. /\ UNCHANGED <<standing, signals, recalcs, request, updater, clash>>
          /\ seen' = seen \/ seen' = R!Backfilled
      BY <1>3 DEF R!Backfilling, R!BackfillFinds, R!BackfillSets, R!BackfillStops, R!history
    <2> QED BY <2>1 DEF RatedInv, RecalcIsDue, Orderly, Undone, R!Busy
  <1> QED BY <1>1, <1>2, <1>3, RatedByRequest, RatedByWorker DEF R!Next

\* Each rating stores a sum of signals on its way (EmitSignal, SetReputationScore); it never has
\* the last word over the recalculation from the source tables (RecalculateScore).
THEOREM EveryRatingCounts == TrustSpec => []RatingsAreCounted
  <1>1. TrustInit => RatedInv
    <2> SUFFICES ASSUME R!Init PROVE RatedInv
      BY BeginApart
    <2>1. request \in [Ratings -> RequestState] /\ standing \in UserStats
      BY DEF R!Init, R!IdleRequest, R!NoFacts, RequestState, UserStats
    <2>2. DOMAIN updater = Updaters /\ \A w \in Updaters : ~ R!Busy(w)
      BY DEF R!Init, R!IdleWorker, R!Busy
    <2>3. recalcs = 0 /\ signals = 0 /\ seen = standing.bubbles
      BY DEF R!Init, R!NoFacts
    <2> QED BY <2>1, <2>2, <2>3 DEF RatedInv
  <1>2. RatedInv /\ [TrustNext]_trust => RatedInv'
    BY StepsApart, RatedStep
  <1>3. RatedInv => RatingsAreCounted
    BY DEF RatedInv, RatingsAreCounted, R!RatingsAreCounted, R!Quiet, RecalcIsDue, Orderly, Undone
  <1> QED BY <1>1, <1>2, <1>3, PTL DEF TrustSpec

-----------------------------------------------------------------------------
(* The identity of a user.                                                 *)

WebhookState == [step : {"idle", "attempt", "profile", "identity", "bonus"}, session : Int,
                 status : V!VerificationStatus, prev : V!VerificationStatus]

Handled(h) == handler[h].step # "idle"

\* The inductive invariant: the one webhook under way owes a bonus exactly if it has made
\* the user VERIFIED, and what it read of the profile is still so.
BonusInv ==
  /\ handler \in [Handlers -> WebhookState] /\ identity \in V!VerificationStatus
  /\ bonus \in Nat /\ upgrades \in Nat
  /\ ~ overlapped =>
       /\ \A g, h \in Handlers : Handled(g) /\ Handled(h) => g = h
       /\ \A h \in Handlers : handler[h].step = "bonus" => upgrades = bonus + 1
       /\ (\A h \in Handlers : handler[h].step # "bonus") => upgrades = bonus
       /\ \A h \in Handlers : handler[h].step = "profile" => handler[h].status = "VERIFIED"
       /\ \A h \in Handlers :
            handler[h].step = "identity" /\ handler[h].status = "VERIFIED" =>
              handler[h].prev = identity

\* Handler h goes on in state o, or ends.
HandlerGoes(h, o) ==
  /\ DOMAIN handler' = Handlers /\ handler'[h] = o
  /\ \A g \in Handlers : g # h => handler'[g] = handler[g]

LEMMA HandlerWrite ==
  ASSUME handler \in [Handlers -> WebhookState], NEW h \in Handlers, NEW o \in WebhookState,
         handler' = [handler EXCEPT ![h] = o]
  PROVE  handler' \in [Handlers -> WebhookState] /\ HandlerGoes(h, o)
  BY DEF HandlerGoes

LEMMA IdleWebhook == V!IdleHandler \in WebhookState /\ V!IdleHandler.step = "idle"
  BY DEF V!IdleHandler, WebhookState, V!VerificationStatus

LEMMA WebhookFields ==
  ASSUME NEW o \in WebhookState, NEW step \in {"profile", "identity", "bonus"},
         NEW prev \in V!VerificationStatus
  PROVE  /\ [o EXCEPT !.step = step] \in WebhookState
         /\ [o EXCEPT !.step = step].step = step
         /\ [o EXCEPT !.step = step].status = o.status
         /\ [o EXCEPT !.step = step].prev = o.prev
         /\ [o EXCEPT !.step = step, !.prev = prev] \in WebhookState
         /\ [o EXCEPT !.step = step, !.prev = prev].step = step
         /\ [o EXCEPT !.step = step, !.prev = prev].status = o.status
         /\ [o EXCEPT !.step = step, !.prev = prev].prev = prev
  BY DEF WebhookState

LEMMA BonusByHandler ==
  ASSUME BonusInv, NEW h \in Handlers,
         \/ \E n \in V!Sessions, event \in V!EventKind : V!WebhookReads(h, n, event)
         \/ V!Handling(h) \/ V!ProfileUnread(h) \/ V!WebhookStops(h)
  PROVE  BonusInv'
  <1>0. /\ handler \in [Handlers -> WebhookState] /\ handler[h] \in WebhookState
        /\ "VERIFIED" \in V!VerificationStatus /\ identity \in V!VerificationStatus
        /\ bonus \in Nat /\ upgrades \in Nat
    BY DEF BonusInv, V!VerificationStatus
  <1>1. CASE \E n \in V!Sessions, event \in V!EventKind : V!WebhookReads(h, n, event)
    <2>1. PICK n \in V!Sessions, status \in V!VerificationStatus :
            handler' = [handler EXCEPT ![h] = [step |-> "attempt", session |-> n, status |-> status,
                                               prev |-> "PENDING"]]
      BY <1>1 DEF V!WebhookReads, V!Outcomes, V!Interpretation, V!VerificationStatus, V!EventKind
    <2> DEFINE new == [step |-> "attempt", session |-> n, status |-> status, prev |-> "PENDING"]
    <2>2. new \in WebhookState /\ new.step = "attempt"
      BY DEF WebhookState, V!Sessions, V!VerificationStatus
    <2>3. handler' \in [Handlers -> WebhookState] /\ HandlerGoes(h, new)
      BY <1>0, <2>1, <2>2, HandlerWrite
    <2>4. /\ overlapped' = (overlapped \/ V!Busy(h)) /\ UNCHANGED <<identity, bonus, upgrades>>
          /\ handler[h].step = "idle"
      BY <1>1 DEF V!WebhookReads
    <2> HIDE DEF new
    <2>5. ASSUME ~ overlapped'
          PROVE  /\ ~ overlapped /\ \A g \in Handlers : g # h => handler'[g].step = "idle"
                 /\ \A g \in Handlers : handler[g].step = "idle"
      BY <2>3, <2>4, <2>5 DEF HandlerGoes, V!Busy
    <2>6. ~ overlapped => upgrades = bonus \/ \E g \in Handlers : handler[g].step # "idle"
      BY DEF BonusInv
    <2>7. ~ overlapped' => upgrades = bonus
      BY <2>5, <2>6
    <2>8. handler'[h].step = "attempt"
      BY <2>2, <2>3 DEF HandlerGoes
    <2> QED BY <1>0, <2>3, <2>4, <2>5, <2>7, <2>8 DEF BonusInv, Handled
  <1>2. CASE V!Verify(h) \/ V!Reject(h) \/ V!Escalate(h) \/ V!Cancel(h)
    <2>1. PICK o \in WebhookState :
            /\ handler' = [handler EXCEPT ![h] = o]
            /\ \/ o.step = "profile" /\ o.status = "VERIFIED"
               \/ o.step = "identity" /\ o.status = "REJECTED"
               \/ o.step = "idle"
      <3>1. CASE V!Verify(h)
        <4>1. [handler[h] EXCEPT !.step = "profile"] \in WebhookState
              /\ [handler[h] EXCEPT !.step = "profile"].step = "profile"
              /\ [handler[h] EXCEPT !.step = "profile"].status = handler[h].status
          BY <1>0, WebhookFields
        <4> QED BY <3>1, <4>1 DEF V!Verify, V!Mark
      <3>2. CASE V!Reject(h)
        <4>1. [handler[h] EXCEPT !.step = "identity"] \in WebhookState
              /\ [handler[h] EXCEPT !.step = "identity"].step = "identity"
              /\ [handler[h] EXCEPT !.step = "identity"].status = handler[h].status
          BY <1>0, WebhookFields
        <4> QED BY <3>2, <4>1 DEF V!Reject, V!Mark
      <3>3. CASE V!Escalate(h) \/ V!Cancel(h)
        BY <3>3, IdleWebhook DEF V!Escalate, V!Cancel, V!Mark
      <3> QED BY <1>2, <3>1, <3>2, <3>3
    <2>2. handler' \in [Handlers -> WebhookState] /\ HandlerGoes(h, o)
      BY <1>0, <2>1, HandlerWrite
    <2>3. UNCHANGED <<identity, bonus, upgrades, overlapped>> /\ handler[h].step = "attempt"
      BY <1>2 DEF V!Verify, V!Reject, V!Escalate, V!Cancel, V!Mark, V!history
    <2> QED BY <2>1, <2>2, <2>3 DEF BonusInv, HandlerGoes, Handled
  <1>3. CASE V!ReadProfile(h)
    <2> DEFINE new == [handler[h] EXCEPT !.step = "identity", !.prev = identity]
    <2>1. handler' = [handler EXCEPT ![h] = new] /\ handler[h].step = "profile"
          /\ UNCHANGED <<identity, bonus, upgrades, overlapped>>
      BY Zenon, <1>3 DEF V!ReadProfile, V!history
    <2>2. new \in WebhookState /\ new.step = "identity" /\ new.prev = identity
          /\ new.status = handler[h].status
      BY <1>0 DEF WebhookState
    <2>3. handler' \in [Handlers -> WebhookState] /\ HandlerGoes(h, new)
      BY <1>0, <2>1, <2>2, HandlerWrite
    <2> HIDE DEF new
    <2> QED BY <2>1, <2>2, <2>3 DEF BonusInv, HandlerGoes, Handled
  <1>4. CASE V!ProfileUnread(h)
    <2> DEFINE new == [handler[h] EXCEPT !.step = "identity", !.prev = "VERIFIED"]
    <2>1. handler' = [handler EXCEPT ![h] = new] /\ overlapped'
          /\ UNCHANGED <<identity, bonus, upgrades>>
      BY Zenon, <1>4 DEF V!ProfileUnread
    <2>2. new \in WebhookState
      BY <1>0, WebhookFields
    <2>3. handler' \in [Handlers -> WebhookState]
      BY <1>0, <2>1, <2>2, HandlerWrite
    <2> QED BY <2>1, <2>3 DEF BonusInv
  <1>5. CASE V!UpdateIdentityStatus(h)
    <2> DEFINE owes == handler[h].status = "VERIFIED" /\ handler[h].prev # "VERIFIED"
               new == IF owes THEN [handler[h] EXCEPT !.step = "bonus"] ELSE V!IdleHandler
    <2>1. /\ handler' = [handler EXCEPT ![h] = new] /\ handler[h].step = "identity"
          /\ identity' = handler[h].status
          /\ upgrades' = IF identity # "VERIFIED" /\ identity' = "VERIFIED"
                         THEN upgrades + 1 ELSE upgrades
          /\ UNCHANGED <<bonus, overlapped>>
      BY <1>5 DEF V!UpdateIdentityStatus
    <2>2. new \in WebhookState /\ new.step = IF owes THEN "bonus" ELSE "idle"
      <3>1. [handler[h] EXCEPT !.step = "bonus"] \in WebhookState
            /\ [handler[h] EXCEPT !.step = "bonus"].step = "bonus"
        BY <1>0, WebhookFields
      <3> HIDE DEF owes
      <3> QED BY <3>1, IdleWebhook
    <2>3. handler' \in [Handlers -> WebhookState] /\ HandlerGoes(h, new)
      BY <1>0, <2>1, <2>2, HandlerWrite
    <2>4. identity' \in V!VerificationStatus
      BY <1>0, <2>1 DEF WebhookState
    <2>5. ~ overlapped => /\ handler[h].status = "VERIFIED" => handler[h].prev = identity
                          /\ upgrades = bonus
      BY <2>1 DEF BonusInv, Handled
    <2>6. ~ overlapped => upgrades' = IF owes THEN bonus + 1 ELSE bonus
      BY <2>1, <2>5
    <2> HIDE DEF new, owes
    <2> QED BY <2>1, <2>2, <2>3, <2>4, <2>6 DEF BonusInv, HandlerGoes, Handled
  <1>6. CASE V!AddReputationScore(h)
    <2>1. /\ handler' = [handler EXCEPT ![h] = V!IdleHandler] /\ handler[h].step = "bonus"
          /\ bonus' = bonus + 1 /\ UNCHANGED <<identity, upgrades, overlapped>>
      BY <1>6 DEF V!AddReputationScore, V!history
    <2>2. handler' \in [Handlers -> WebhookState] /\ HandlerGoes(h, V!IdleHandler)
      BY <1>0, <2>1, IdleWebhook, HandlerWrite
    <2> QED BY <2>1, <2>2, IdleWebhook DEF BonusInv, HandlerGoes, Handled
  <1>7. CASE V!WebhookStops(h)
    <2>1. /\ handler' = [handler EXCEPT ![h] = V!IdleHandler] /\ overlapped'
          /\ UNCHANGED <<identity, bonus, upgrades>>
      BY <1>7 DEF V!WebhookStops
    <2>2. handler' \in [Handlers -> WebhookState]
      BY <1>0, <2>1, IdleWebhook, HandlerWrite
    <2> QED BY <2>1, <2>2 DEF BonusInv
  <1> QED BY <1>1, <1>2, <1>3, <1>4, <1>5, <1>6, <1>7 DEF V!Handling

LEMMA BonusStep ==
  ASSUME BonusInv, [V!Next]_verification
  PROVE  BonusInv'
  <1>1. ASSUME UNCHANGED <<handler, identity, bonus, upgrades, overlapped>> PROVE BonusInv'
    BY <1>1 DEF BonusInv, Handled
  <1>2. ASSUME NEW s \in Starters, V!Starting(s) PROVE BonusInv'
    BY <1>1, <1>2 DEF V!Starting, V!StartReads, V!StartInserts, V!StartQueues, V!StartStops, V!history
  <1>3. ASSUME NEW n \in V!Sessions, NEW event \in V!EventKind, V!StripeReports(n, event)
        PROVE  BonusInv'
    BY <1>1, <1>3 DEF V!StripeReports, V!actors, V!history
  <1>4. CASE V!TimingOut \/ V!TimeoutStops
    BY <1>1, <1>4 DEF V!TimingOut, V!TimeoutReads, V!TimeoutMarks,
                      V!TimeoutInserts, V!TimeoutSkipsNext, V!TimeoutStops, V!history
  <1>5. CASE UNCHANGED verification
    BY <1>1, <1>5 DEF verification
  <1> QED BY <1>2, <1>3, <1>4, <1>5, BonusByHandler DEF V!Next

LEMMA BonusInit == V!Init => BonusInv
  <1> SUFFICES ASSUME V!Init PROVE BonusInv
    OBVIOUS
  <1>1. handler \in [Handlers -> WebhookState] /\ \A h \in Handlers : handler[h].step = "idle"
    BY IdleWebhook DEF V!Init
  <1> QED BY <1>1 DEF BonusInv, V!Init, Handled, V!VerificationStatus

\* Webhooks handled one at a time and to the end (HandleWebhook, handleVerified) give a KYC
\* bonus for a change of the user to VERIFIED and for nothing else, in whatever order, how
\* late and how often they come.
THEOREM BonusIsEarned == TrustSpec => []BonusPerUpgrade
  <1>1. TrustInit => BonusInv
    BY BeginApart, BonusInit
  <1>2. BonusInv /\ [TrustNext]_trust => BonusInv'
    BY StepsApart, BonusStep
  <1>3. BonusInv => BonusPerUpgrade
    BY DEF BonusInv, BonusPerUpgrade, V!BonusPerUpgrade
  <1> QED BY <1>1, <1>2, <1>3, PTL DEF TrustSpec

-----------------------------------------------------------------------------
(* The outcome of decisions.                                               *)

Judgement == {O!None, "correct", "incorrect"}
LogEntry == [type : O!LogType, of : Nat, action : {O!None, "APPROVE", "OVERRIDE"},
             outcome : Judgement]
LinkerState == [step : {"idle", "evaluate", "link", "stats", "store"}, todo : SUBSET Nat, at : Nat,
                outcome : Judgement, types : SUBSET O!LogType, type : O!AgentType,
                stats : Nat \X Nat]

\* A job works on decisions in the log.
LinkerRefs ==
  /\ \A w \in Linkers : linker[w].todo \subseteq DOMAIN log
  /\ \A w \in Linkers : linker[w].step = "link" => linker[w].at \in DOMAIN log

OutcomeTypes ==
  /\ log \in Seq(LogEntry)
  /\ linker \in [Linkers -> LinkerState]
  /\ calibration \in [O!AgentType -> Nat \X Nat]
  /\ disturbed \in BOOLEAN
  /\ LinkerRefs

\* Worker w has a calibration of t to recompute, or to store.
Recalibrates(w, t) ==
  /\ O!Busy(w)
  /\ \/ t \in linker[w].types
     \/ linker[w].step = "store" /\ linker[w].type = t

\* The inductive invariant: the one job under way has nothing to judge that was judged before,
\* and what it has judged it will count.
LinkedInv ==
  /\ \A v, w \in Linkers : O!Busy(v) /\ O!Busy(w) => v = w
  /\ \A w \in Linkers : O!Busy(w) => linker[w].todo \subseteq O!Linkable
  /\ \A w \in Linkers : linker[w].step = "link" =>
       linker[w].at \in O!Linkable \ linker[w].todo
  /\ \A w \in Linkers : linker[w].step = "store" => linker[w].stats = O!Stats(linker[w].type)
  /\ \A t \in O!AgentType :
       calibration[t] = O!Stats(t) \/ \E w \in Linkers : Recalibrates(w, t)

OutcomeInv == OutcomeTypes /\ (~ disturbed => LinkedInv)

\* The set is of naturals and not empty, so that there is a least one.
LEMMA MinInSet ==
  ASSUME NEW S \in SUBSET Nat, S # {}
  PROVE  O!Min(S) \in S
  <1> DEFINE Less == OpToRel(<, Nat)
  <1>1. Less = {ss \in Nat \X Nat : ss[1] < ss[2]}
    BY Zenon DEF OpToRel
  <1>2. PICK x \in S : \A y \in S : <<y, x>> \notin Less
    <2> HIDE DEF Less
    <2>1. IsWellFoundedOn(Less, Nat)
      BY NatLessThanWellFounded DEF Less
    <2> QED BY <2>1, WFMin
  <1>3. \A y \in S : x <= y
    <2> HIDE DEF Less
    <2> SUFFICES ASSUME NEW y \in S, ~ (x <= y) PROVE FALSE
      OBVIOUS
    <2>1. <<y, x>> \in {ss \in Nat \X Nat : ss[1] < ss[2]}
      OBVIOUS
    <2> QED BY <1>1, <1>2, <2>1
  <1> QED BY <1>3 DEF O!Min

LEMMA StatsOfNothing ==
  ASSUME log = << >>, NEW t \in O!AgentType
  PROVE  O!Stats(t) = <<0, 0>>
  <1> DEFINE judged == {i \in DOMAIN log : log[i].type = t /\ O!InBucket(log[i])
                                         /\ log[i].outcome # O!None}
             right == {i \in judged : log[i].outcome = "correct"}
  <1>1. judged = {} /\ right = {}
    OBVIOUS
  <1>2. O!Stats(t) = <<Cardinality(judged), Cardinality(right)>>
    BY Zenon DEF O!Stats, O!Cardinality, Cardinality
  <1> QED BY <1>1, <1>2, FS_EmptySet

LEMMA StatsAreNumbers ==
  ASSUME log \in Seq(LogEntry), NEW t \in O!AgentType
  PROVE  O!Stats(t) \in Nat \X Nat
  <1> DEFINE judged == {i \in DOMAIN log : log[i].type = t /\ O!InBucket(log[i])
                                         /\ log[i].outcome # O!None}
             right == {i \in judged : log[i].outcome = "correct"}
  <1>1. IsFiniteSet(DOMAIN log)
    <2>1. DOMAIN log = 1 .. Len(log) /\ Len(log) \in Int
      OBVIOUS
    <2>2. IsFiniteSet(1 .. Len(log))
      BY <2>1, FS_Interval
    <2> QED BY <2>1, <2>2
  <1>2. IsFiniteSet(judged) /\ IsFiniteSet(right)
    <2>1. judged \in SUBSET DOMAIN log /\ right \in SUBSET DOMAIN log
      OBVIOUS
    <2> QED BY <1>1, <2>1, FS_Subset
  <1>3. Cardinality(judged) \in Nat /\ Cardinality(right) \in Nat
    BY <1>2, FS_CardinalityType
  <1>4. O!Stats(t) = <<Cardinality(judged), Cardinality(right)>>
    BY Zenon DEF O!Stats, O!Cardinality, Cardinality
  <1> QED BY <1>3, <1>4

\* Statistics are of what was judged: what is added unjudged does not count.
LEMMA StatsStay ==
  ASSUME NEW t \in O!AgentType, DOMAIN log \subseteq DOMAIN log',
         \A i \in DOMAIN log : log'[i] = log[i] \/ (log'[i].type = log[i].type /\ log[i].type # t),
         \A i \in DOMAIN log' \ DOMAIN log : log'[i].outcome = O!None
  PROVE  O!Stats(t)' = O!Stats(t)
  <1>1. {i \in DOMAIN log' : log'[i].type = t /\ O!InBucket(log'[i]) /\ log'[i].outcome # O!None}
          = {i \in DOMAIN log : log[i].type = t /\ O!InBucket(log[i]) /\ log[i].outcome # O!None}
    BY DEF O!InBucket
  <1>2. {i \in DOMAIN log' : log'[i].type = t /\ O!InBucket(log'[i]) /\ log'[i].outcome # O!None
                             /\ log'[i].outcome = "correct"}
          = {i \in DOMAIN log : log[i].type = t /\ O!InBucket(log[i]) /\ log[i].outcome # O!None
                                /\ log[i].outcome = "correct"}
    BY DEF O!InBucket
  <1> QED BY <1>1, <1>2 DEF O!Stats

\* Worker w goes on in state o.
LinkerGoes(w, o) ==
  /\ linker' \in [Linkers -> LinkerState] /\ linker'[w] = o
  /\ \A v \in Linkers : v # w => linker'[v] = linker[v]

LEMMA LinkerWrite ==
  ASSUME linker \in [Linkers -> LinkerState], NEW w \in Linkers, NEW o \in LinkerState,
         linker' = [linker EXCEPT ![w] = o]
  PROVE  LinkerGoes(w, o)
  BY DEF LinkerGoes

LEMMA IdleLinker ==
  /\ O!Idle \in LinkerState /\ O!Idle.step = "idle" /\ O!Idle.todo = {} /\ O!Idle.types = {}
  BY DEF O!Idle, LinkerState, Judgement, O!AgentType

LEMMA OutcomeOfDecision ==
  ASSUME OutcomeInv, NEW d \in LogEntry, d.outcome = O!None, log' = Append(log, d),
         UNCHANGED <<linker, calibration, disturbed>>
  PROVE  OutcomeInv'
  <1>1. /\ log' \in Seq(LogEntry) /\ DOMAIN log \subseteq DOMAIN log'
        /\ \A i \in DOMAIN log : log'[i] = log[i]
        /\ \A i \in DOMAIN log' \ DOMAIN log : log'[i].outcome = O!None
    BY DEF OutcomeInv, OutcomeTypes
  <1>2. \A t \in O!AgentType : O!Stats(t)' = O!Stats(t)
    BY <1>1, StatsStay
  <1>3. O!Linkable \subseteq O!Linkable'
    BY <1>1 DEF O!Linkable
  <1>4. OutcomeTypes'
    <2>1. OutcomeTypes
      BY DEF OutcomeInv
    <2>2. LinkerRefs'
      BY <1>1, <2>1 DEF OutcomeTypes, LinkerRefs
    <2> QED BY <1>1, <2>1, <2>2 DEF OutcomeTypes
  <1>5. ASSUME LinkedInv PROVE LinkedInv'
    <2>1. \A w \in Linkers : linker[w].type \in O!AgentType
      BY DEF OutcomeInv, OutcomeTypes, LinkerState
    <2>2. \A v, w \in Linkers : O!Busy(v)' /\ O!Busy(w)' => v = w
      BY <1>5 DEF LinkedInv, O!Busy
    <2>3. \A w \in Linkers : O!Busy(w)' => linker'[w].todo \subseteq O!Linkable'
      BY <1>3, <1>5 DEF LinkedInv, O!Busy
    <2>4. \A w \in Linkers : linker'[w].step = "link" =>
            linker'[w].at \in O!Linkable' \ linker'[w].todo
      BY <1>3, <1>5 DEF LinkedInv
    <2>5. \A w \in Linkers : linker'[w].step = "store" => linker'[w].stats = O!Stats(linker[w].type)'
      BY <1>2, <1>5, <2>1 DEF LinkedInv
    <2>6. \A t \in O!AgentType :
            calibration'[t] = O!Stats(t)' \/ \E w \in Linkers : Recalibrates(w, t)'
      BY <1>2, <1>5 DEF LinkedInv, Recalibrates, O!Busy
    <2> QED BY <2>2, <2>3, <2>4, <2>5, <2>6 DEF LinkedInv
  <1> QED BY <1>4, <1>5 DEF OutcomeInv

LEMMA OutcomeOfFind ==
  ASSUME OutcomeInv, NEW w \in Linkers, O!FindDecisionsByTransaction(w)
  PROVE  OutcomeInv'
  <1> DEFINE begun == [[O!Idle EXCEPT !.todo = O!Linkable] EXCEPT !.step = "evaluate"]
  <1>1. /\ UNCHANGED <<log, calibration>> /\ ~ O!Busy(w)
        /\ disturbed' = (disturbed \/ \E v \in Linkers : O!Busy(v))
        /\ linker' = linker \/ linker' = [linker EXCEPT ![w] = begun]
    BY Zenon DEF O!FindDecisionsByTransaction, O!Continue
  <1>2. begun \in LinkerState /\ begun.step = "evaluate" /\ begun.todo = O!Linkable
        /\ begun.types = {}
    <2>1. O!Linkable \in SUBSET Nat
      BY DEF O!Linkable, OutcomeInv, OutcomeTypes
    <2> HIDE DEF O!Linkable
    <2> QED BY <2>1 DEF O!Idle, LinkerState, Judgement, O!AgentType
  <1> HIDE DEF begun
  <1>3. linker' = linker \/ LinkerGoes(w, begun)
    BY <1>1, <1>2, LinkerWrite DEF OutcomeInv, OutcomeTypes
  <1>4. OutcomeTypes'
    <2>1. LinkerRefs'
      BY <1>1, <1>2, <1>3 DEF OutcomeInv, OutcomeTypes, LinkerRefs, LinkerGoes, O!Linkable
    <2> QED BY <1>1, <1>3, <2>1 DEF OutcomeInv, OutcomeTypes, LinkerGoes
  <1>5. ASSUME ~ disturbed' PROVE LinkedInv'
    <2>1. \A v \in Linkers : linker[v].step = "idle"
      BY <1>1, <1>5 DEF O!Busy
    <2>2. \A t \in O!AgentType : calibration[t] = O!Stats(t)
      BY <1>1, <1>5, <2>1 DEF OutcomeInv, LinkedInv, Recalibrates, O!Busy
    <2>3. O!Linkable' = O!Linkable /\ \A t \in O!AgentType : O!Stats(t)' = O!Stats(t)
      BY <1>1 DEF O!Linkable, O!Stats
    <2>4. \A v \in Linkers : \/ linker'[v].step = "idle"
                             \/ v = w /\ linker'[v].step = "evaluate" /\ linker'[v].todo = O!Linkable
      BY <1>2, <1>3, <2>1 DEF LinkerGoes
    <2> QED BY <1>1, <2>2, <2>3, <2>4 DEF LinkedInv, O!Busy
  <1> QED BY <1>4, <1>5 DEF OutcomeInv

\* A step of worker w alone that leaves the log and the calibration as they are.
LEMMA OutcomeGoesOn ==
  ASSUME OutcomeInv, NEW w \in Linkers, NEW o \in LinkerState, O!Busy(w), o.step # "idle",
         LinkerGoes(w, o), UNCHANGED <<log, calibration, disturbed>>,
         o.todo \subseteq linker[w].todo,
         o.step = "link" => o.at \in linker[w].todo \ o.todo,
         o.step = "store" => o.stats = O!Stats(o.type),
         \A t \in O!AgentType : Recalibrates(w, t) => t \in o.types \/ (o.step = "store" /\ o.type = t)
  PROVE  OutcomeInv'
  <1>1. O!Linkable' = O!Linkable /\ \A t \in O!AgentType : O!Stats(t)' = O!Stats(t)
    BY DEF O!Linkable, O!Stats
  <1>2. OutcomeTypes'
    <2>1. OutcomeTypes
      BY DEF OutcomeInv
    <2>2. LinkerRefs'
      BY <2>1 DEF OutcomeTypes, LinkerRefs, LinkerGoes
    <2> QED BY <2>1, <2>2 DEF OutcomeTypes, LinkerGoes
  <1>3. ASSUME LinkedInv PROVE LinkedInv'
    <2>1. \A v \in Linkers : v # w => linker'[v].step = "idle"
      BY <1>3 DEF LinkedInv, LinkerGoes, O!Busy
    <2>2. linker'[w] = o /\ linker[w].todo \subseteq O!Linkable /\ o.type \in O!AgentType
      BY <1>3 DEF LinkedInv, LinkerGoes, LinkerState
    <2>3. \A v, u \in Linkers : O!Busy(v)' /\ O!Busy(u)' => v = u
      BY <2>1 DEF O!Busy
    <2>4. \A v \in Linkers : O!Busy(v)' => linker'[v].todo \subseteq O!Linkable'
      BY <1>1, <2>1, <2>2 DEF O!Busy
    <2>5. \A v \in Linkers : linker'[v].step = "link" =>
            linker'[v].at \in O!Linkable' \ linker'[v].todo
      BY <1>1, <2>1, <2>2
    <2>6. \A v \in Linkers : linker'[v].step = "store" => linker'[v].stats = O!Stats(o.type) /\ v = w
      BY <2>1, <2>2
    <2>7. \A v \in Linkers : linker'[v].step = "store" => linker'[v].stats = O!Stats(linker'[v].type)
      BY <2>2, <2>6
    <2>8. ASSUME NEW t \in O!AgentType
          PROVE  calibration'[t] = O!Stats(t) \/ \E v \in Linkers : Recalibrates(v, t)'
      <3>1. CASE calibration[t] = O!Stats(t)
        BY <3>1
      <3>2. CASE \E v \in Linkers : Recalibrates(v, t)
        <4>1. Recalibrates(w, t)
          BY <1>3, <3>2 DEF LinkedInv, Recalibrates
        <4>2. Recalibrates(w, t)'
          BY <2>2, <4>1 DEF Recalibrates, O!Busy
        <4> QED BY <4>2
      <3> QED BY <1>3, <3>1, <3>2 DEF LinkedInv
    <2>9. (\A v \in Linkers : linker[v].step = "store" => linker[v].stats = O!Stats(linker[v].type))'
      BY <2>7 DEF O!Stats
    <2>10. \A t \in O!AgentType :
             calibration'[t] = O!Stats(t)' \/ \E v \in Linkers : Recalibrates(v, t)'
      BY <1>1, <2>8
    <2> QED BY <2>3, <2>4, <2>5, <2>9, <2>10 DEF LinkedInv
  <1> QED BY <1>2, <1>3 DEF OutcomeInv

LEMMA JudgedEitherWay == ASSUME NEW i PROVE O!evaluateDecision(i) \in Judgement
  BY DEF O!evaluateDecision, Judgement

LEMMA OutcomeOfEvaluate ==
  ASSUME OutcomeInv, NEW w \in Linkers, O!Evaluate(w)
  PROVE  OutcomeInv'
  <1> DEFINE i == O!Min(linker[w].todo)
             next == [[linker[w] EXCEPT !.todo = linker[w].todo \ {i}, !.at = i,
                                        !.outcome = O!evaluateDecision(i)] EXCEPT !.step = "link"]
  <1>1. /\ UNCHANGED <<log, calibration, disturbed>>
        /\ linker[w].step = "evaluate" /\ linker[w].todo # {}
        /\ linker' = [linker EXCEPT ![w] = next]
    BY Zenon DEF O!Evaluate, O!Continue
  <1>2. linker[w] \in LinkerState /\ linker \in [Linkers -> LinkerState]
    BY DEF OutcomeInv, OutcomeTypes
  <1>3. i \in linker[w].todo
    <2>1. linker[w].todo \in SUBSET Nat
      BY <1>2 DEF LinkerState
    <2> QED BY <1>1, <2>1, MinInSet
  <1>4. /\ next \in LinkerState /\ next.step = "link" /\ next.at = i
        /\ next.todo = linker[w].todo \ {i} /\ next.types = linker[w].types
    <2>1. i \in Nat /\ O!evaluateDecision(i) \in Judgement
      BY <1>2, <1>3, JudgedEitherWay DEF LinkerState
    <2> HIDE DEF i
    <2> QED BY <1>2, <2>1 DEF LinkerState
  <1> HIDE DEF next
  <1>5. LinkerGoes(w, next)
    BY <1>1, <1>2, <1>4, LinkerWrite
  <1>6. \A t \in O!AgentType : Recalibrates(w, t) => t \in next.types
    BY <1>1, <1>4 DEF Recalibrates
  <1> QED BY <1>1, <1>3, <1>4, <1>5, <1>6, OutcomeGoesOn DEF O!Busy

LEMMA OutcomeOfStats ==
  ASSUME OutcomeInv, NEW w \in Linkers, NEW t \in O!AgentType, O!GetCalibrationStats(w, t)
  PROVE  OutcomeInv'
  <1> DEFINE next == [[linker[w] EXCEPT !.type = t, !.types = linker[w].types \ {t},
                                        !.stats = O!Stats(t)] EXCEPT !.step = "store"]
  <1>1. /\ UNCHANGED <<log, calibration, disturbed>> /\ linker[w].step = "evaluate"
        /\ linker' = [linker EXCEPT ![w] = next]
    BY Zenon DEF O!GetCalibrationStats, O!Continue
  <1>2. /\ linker[w] \in LinkerState /\ linker \in [Linkers -> LinkerState]
        /\ O!Stats(t) \in Nat \X Nat
    BY StatsAreNumbers DEF OutcomeInv, OutcomeTypes
  <1>3. /\ next \in LinkerState /\ next.step = "store" /\ next.todo = linker[w].todo
        /\ next.types = linker[w].types \ {t} /\ next.type = t /\ next.stats = O!Stats(t)
    BY <1>2 DEF LinkerState
  <1> HIDE DEF next
  <1>4. LinkerGoes(w, next)
    BY <1>1, <1>2, <1>3, LinkerWrite
  <1>5. \A u \in O!AgentType : Recalibrates(w, u) => u \in next.types \/ u = next.type
    BY <1>1, <1>3 DEF Recalibrates
  <1> QED BY <1>1, <1>3, <1>4, <1>5, OutcomeGoesOn DEF O!Busy

\* The row that is judged was not judged before, and its agent is remembered.
LEMMA OutcomeOfUpdate ==
  ASSUME OutcomeInv, NEW w \in Linkers, O!UpdateOutcome(w)
  PROVE  /\ OutcomeInv'
         /\ ~ disturbed => \A i \in DOMAIN log :
              log[i].outcome # O!None => log'[i].outcome = log[i].outcome
  <1> DEFINE at == linker[w].at
             next == [[linker[w] EXCEPT !.types = linker[w].types \cup {log[at].type}]
                        EXCEPT !.step = "evaluate"]
             judged == [log[at] EXCEPT !.outcome = linker[w].outcome]
  <1>1. /\ UNCHANGED <<calibration, disturbed>> /\ linker[w].step = "link"
        /\ log' = [log EXCEPT ![at] = judged]
        /\ linker' = [linker EXCEPT ![w] = next]
    BY Zenon DEF O!UpdateOutcome, O!Continue
  <1>2. /\ linker[w] \in LinkerState /\ linker \in [Linkers -> LinkerState]
        /\ log \in Seq(LogEntry) /\ LinkerRefs /\ at \in DOMAIN log
        /\ calibration \in [O!AgentType -> Nat \X Nat] /\ disturbed \in BOOLEAN
    BY <1>1 DEF OutcomeInv, OutcomeTypes, LinkerRefs
  <1>12. log[at] \in LogEntry
    <2> HIDE DEF at
    <2> QED BY <1>2
  <1>3. ~ disturbed => at \in O!Linkable \ linker[w].todo
    BY <1>1 DEF OutcomeInv, LinkedInv
  <1>4. O!Linkable \subseteq DOMAIN log /\ \A i \in O!Linkable : log[i].outcome = O!None
    BY DEF O!Linkable
  <1>5. judged \in LogEntry /\ judged.type = log[at].type /\ judged.outcome = linker[w].outcome
    BY <1>2, <1>12 DEF LogEntry, LinkerState
  <1>6. /\ log' \in Seq(LogEntry) /\ DOMAIN log' = DOMAIN log
        /\ \A i \in DOMAIN log : i # at => log'[i] = log[i]
        /\ log'[at] = judged
    <2> HIDE DEF judged
    <2>1. log \in [1 .. Len(log) -> LogEntry] /\ Len(log) \in Nat /\ DOMAIN log = 1 .. Len(log)
      BY <1>2
    <2>2. log' \in [1 .. Len(log) -> LogEntry]
      BY <1>1, <1>5, <2>1
    <2> QED BY <1>1, <1>2, <2>1, <2>2
  <1>7. ~ disturbed => \A i \in DOMAIN log :
          log[i].outcome # O!None => log'[i].outcome = log[i].outcome
    BY <1>3, <1>4, <1>6
  <1>8. /\ next \in LinkerState /\ next.step = "evaluate" /\ next.todo = linker[w].todo
        /\ next.types = linker[w].types \cup {log[at].type}
    <2>1. log[at].type \in O!LogType
      BY <1>12 DEF LogEntry
    <2> QED BY <1>2, <2>1 DEF LinkerState
  <1> HIDE DEF next
  <1>9. LinkerGoes(w, next)
    BY <1>1, <1>2, <1>8, LinkerWrite
  <1>10. OutcomeTypes'
    <2>1. LinkerRefs'
      BY <1>2, <1>6, <1>8, <1>9 DEF LinkerRefs, LinkerGoes
    <2> QED BY <1>1, <1>2, <1>6, <1>9, <2>1 DEF OutcomeTypes, LinkerGoes
  <1>11. ASSUME ~ disturbed PROVE LinkedInv'
    <2>1. LinkedInv
      BY <1>11 DEF OutcomeInv
    <2>2. \A v \in Linkers : v # w => linker'[v].step = "idle"
      BY <1>1, <1>9, <2>1 DEF LinkedInv, LinkerGoes, O!Busy
    <2>3. /\ linker'[w].step = "evaluate" /\ linker'[w].todo = linker[w].todo
          /\ linker'[w].types = linker[w].types \cup {log[at].type}
      BY <1>8, <1>9 DEF LinkerGoes
    <2>4. O!Linkable \ {at} \subseteq O!Linkable'
      BY <1>6 DEF O!Linkable
    <2>5. \A v \in Linkers : O!Busy(v)' => linker'[v].todo \subseteq O!Linkable'
      BY <1>1, <1>3, <1>11, <2>1, <2>2, <2>3, <2>4 DEF LinkedInv, O!Busy
    <2>6. ASSUME NEW t \in O!AgentType
          PROVE  calibration'[t] = O!Stats(t)' \/ \E v \in Linkers : Recalibrates(v, t)'
      <3>1. CASE t = log[at].type
        <4>1. Recalibrates(w, t)'
          BY <2>3, <3>1 DEF Recalibrates, O!Busy
        <4> QED BY <4>1
      <3>2. CASE t # log[at].type
        <4>1. \A i \in DOMAIN log : log'[i] = log[i] \/ (log'[i].type = log[i].type /\ log[i].type # t)
          BY <1>5, <1>6, <3>2
        <4>2. O!Stats(t)' = O!Stats(t)
          BY <1>6, <4>1, StatsStay
        <4>3. calibration[t] = O!Stats(t) \/ Recalibrates(w, t)
          BY <1>1, <2>1 DEF LinkedInv, Recalibrates, O!Busy
        <4>4. Recalibrates(w, t) => Recalibrates(w, t)'
          BY <1>1, <2>3 DEF Recalibrates, O!Busy
        <4> QED BY <1>1, <4>2, <4>3, <4>4
      <3> QED BY <3>1, <3>2
    <2>7. \A v \in Linkers : linker'[v].step \notin {"link", "store"}
      BY <2>2, <2>3
    <2>8. \A v, u \in Linkers : O!Busy(v)' /\ O!Busy(u)' => v = u
      BY <2>2 DEF O!Busy
    <2> QED BY <2>5, <2>6, <2>7, <2>8 DEF LinkedInv
  <1> QED BY <1>1, <1>7, <1>10, <1>11 DEF OutcomeInv

LEMMA OutcomeOfStore ==
  ASSUME OutcomeInv, NEW w \in Linkers, O!StoreCalibrationBucket(w)
  PROVE  OutcomeInv'
  <1> DEFINE next == [linker[w] EXCEPT !.step = "evaluate"]
  <1>1. /\ UNCHANGED <<log, disturbed>> /\ linker[w].step = "store"
        /\ calibration' = [calibration EXCEPT ![linker[w].type] = linker[w].stats]
        /\ linker' = [linker EXCEPT ![w] = next]
    BY Zenon DEF O!StoreCalibrationBucket, O!Continue
  <1>2. OutcomeTypes /\ linker[w] \in LinkerState /\ linker \in [Linkers -> LinkerState]
        /\ calibration \in [O!AgentType -> Nat \X Nat]
    BY DEF OutcomeInv, OutcomeTypes
  <1>3. /\ next \in LinkerState /\ next.step = "evaluate" /\ next.todo = linker[w].todo
        /\ next.types = linker[w].types
        /\ linker[w].type \in O!AgentType /\ linker[w].stats \in Nat \X Nat
    BY <1>2 DEF LinkerState
  <1> HIDE DEF next
  <1>4. LinkerGoes(w, next)
    BY <1>1, <1>2, <1>3, LinkerWrite
  <1>5. /\ calibration' \in [O!AgentType -> Nat \X Nat]
        /\ calibration'[linker[w].type] = linker[w].stats
        /\ \A t \in O!AgentType : t # linker[w].type => calibration'[t] = calibration[t]
    BY <1>1, <1>2, <1>3
  <1>6. OutcomeTypes'
    <2>1. LinkerRefs'
      BY <1>1, <1>2, <1>3, <1>4 DEF OutcomeTypes, LinkerRefs, LinkerGoes
    <2> QED BY <1>1, <1>2, <1>4, <1>5, <2>1 DEF OutcomeTypes, LinkerGoes
  <1>7. ASSUME LinkedInv PROVE LinkedInv'
    <2>1. O!Linkable' = O!Linkable /\ \A t \in O!AgentType : O!Stats(t)' = O!Stats(t)
      BY <1>1 DEF O!Linkable, O!Stats
    <2>2. \A v \in Linkers : v # w => linker'[v].step = "idle"
      BY <1>1, <1>4, <1>7 DEF LinkedInv, LinkerGoes, O!Busy
    <2>3. linker'[w] = next /\ linker[w].todo \subseteq O!Linkable
          /\ linker[w].stats = O!Stats(linker[w].type)
      BY <1>1, <1>4, <1>7 DEF LinkedInv, LinkerGoes, O!Busy
    <2>4. \A v, u \in Linkers : O!Busy(v)' /\ O!Busy(u)' => v = u
      BY <2>2 DEF O!Busy
    <2>5. \A v \in Linkers : O!Busy(v)' => linker'[v].todo \subseteq O!Linkable'
      BY <1>3, <2>1, <2>2, <2>3 DEF O!Busy
    <2>6. \A v \in Linkers : linker'[v].step \notin {"link", "store"}
      BY <1>3, <2>2, <2>3
    <2>7. ASSUME NEW t \in O!AgentType
          PROVE  calibration'[t] = O!Stats(t) \/ Recalibrates(w, t)'
      <3>1. calibration[t] = O!Stats(t) \/ Recalibrates(w, t)
        BY <1>1, <1>7 DEF LinkedInv, Recalibrates, O!Busy
      <3>2. t # linker[w].type /\ Recalibrates(w, t) => Recalibrates(w, t)'
        BY <1>3, <2>3 DEF Recalibrates, O!Busy
      <3>3. t = linker[w].type => calibration'[t] = O!Stats(t)
        BY <1>5, <2>3
      <3> QED BY <1>5, <3>1, <3>2, <3>3
    <2> QED BY <2>1, <2>4, <2>5, <2>6, <2>7 DEF LinkedInv
  <1> QED BY <1>1, <1>6, <1>7 DEF OutcomeInv

LEMMA OutcomeOfFinish ==
  ASSUME OutcomeInv, NEW w \in Linkers, O!Finish(w)
  PROVE  OutcomeInv'
  <1>1. /\ UNCHANGED <<log, calibration, disturbed>>
        /\ linker[w].step = "evaluate" /\ linker[w].types = {}
        /\ linker' = [linker EXCEPT ![w] = O!Idle]
    BY DEF O!Finish
  <1>2. OutcomeTypes /\ LinkerGoes(w, O!Idle)
    BY <1>1, IdleLinker, LinkerWrite DEF OutcomeInv, OutcomeTypes
  <1>3. OutcomeTypes'
    <2>1. LinkerRefs'
      BY <1>1, <1>2, IdleLinker DEF OutcomeTypes, LinkerRefs, LinkerGoes
    <2> QED BY <1>1, <1>2, <2>1 DEF OutcomeTypes, LinkerGoes
  <1>4. ASSUME LinkedInv PROVE LinkedInv'
    <2>1. \A v \in Linkers : linker'[v].step = "idle"
      BY <1>1, <1>2, <1>4, IdleLinker DEF LinkedInv, LinkerGoes, O!Busy
    <2>2. \A t \in O!AgentType : calibration[t] = O!Stats(t)
      BY <1>1, <1>4 DEF LinkedInv, Recalibrates, O!Busy
    <2>3. \A t \in O!AgentType : O!Stats(t)' = O!Stats(t)
      BY <1>1 DEF O!Stats
    <2> QED BY <1>1, <2>1, <2>2, <2>3 DEF LinkedInv, O!Busy
  <1> QED BY <1>1, <1>3, <1>4 DEF OutcomeInv

LEMMA OutcomeOfFault ==
  ASSUME OutcomeInv, NEW w \in Linkers, O!LinkFails(w) \/ O!WorkerStops(w)
  PROVE  OutcomeInv'
  <1> DEFINE next == [linker[w] EXCEPT !.step = "evaluate"]
  <1>1. /\ UNCHANGED <<log, calibration>> /\ disturbed' = TRUE
        /\ linker' = [linker EXCEPT ![w] = next] \/ linker' = [linker EXCEPT ![w] = O!Idle]
    BY Zenon DEF O!LinkFails, O!WorkerStops, O!Continue
  <1>2. OutcomeTypes /\ linker[w] \in LinkerState
    BY DEF OutcomeInv, OutcomeTypes
  <1>3. next \in LinkerState /\ next.step = "evaluate" /\ next.todo = linker[w].todo
    BY <1>2 DEF LinkerState
  <1> HIDE DEF next
  <1>4. LinkerGoes(w, next) \/ LinkerGoes(w, O!Idle)
    BY <1>1, <1>2, <1>3, IdleLinker, LinkerWrite DEF OutcomeTypes
  <1>5. LinkerRefs'
    BY <1>1, <1>2, <1>3, <1>4, IdleLinker DEF OutcomeTypes, LinkerRefs, LinkerGoes
  <1> QED BY <1>1, <1>2, <1>4, <1>5 DEF OutcomeInv, OutcomeTypes, LinkerGoes

LEMMA OutcomeRests ==
  ASSUME OutcomeInv, UNCHANGED <<log, linker, calibration, disturbed>>
  PROVE  OutcomeInv'
  <1>1. OutcomeTypes'
    BY DEF OutcomeInv, OutcomeTypes, LinkerRefs
  <1>2. ASSUME LinkedInv PROVE LinkedInv'
    <2>1. O!Linkable' = O!Linkable /\ \A t : O!Stats(t)' = O!Stats(t)
      BY DEF O!Linkable, O!Stats
    <2>2. (\A w \in Linkers : linker[w].step = "store" => linker[w].stats = O!Stats(linker[w].type))'
      BY <1>2 DEF LinkedInv, O!Stats
    <2> QED BY <1>2, <2>1, <2>2 DEF LinkedInv, Recalibrates, O!Busy
  <1> QED BY <1>1, <1>2 DEF OutcomeInv

\* Who writes decisions, and what only schedules jobs.
LEMMA OutcomeOfOthers ==
  ASSUME OutcomeInv,
         \/ \E b \in BOOLEAN : O!DisputeDecided(b) \/ O!LateReturnDecided(b)
         \/ \E a \in {"APPROVE", "OVERRIDE"} : O!ResolveByHuman(a)
         \/ O!RiskScored \/ O!CheckOut
  PROVE  OutcomeInv'
  <1>1. UNCHANGED <<linker, calibration, disturbed>>
    BY DEF O!DisputeDecided, O!LateReturnDecided, O!ResolveByHuman, O!RiskScored, O!CheckOut
  <1>2. CASE O!CheckOut
    <2>1. log' = log
      BY <1>2 DEF O!CheckOut
    <2> QED BY <1>1, <2>1, OutcomeRests
  <1>3. CASE \/ \E b \in BOOLEAN : O!DisputeDecided(b) \/ O!LateReturnDecided(b)
             \/ \E a \in {"APPROVE", "OVERRIDE"} : O!ResolveByHuman(a)
             \/ O!RiskScored
    <2>1. PICK type \in O!LogType, of \in Nat, action \in {O!None, "APPROVE", "OVERRIDE"} :
            log' = Append(log, O!Decision(type, of, action))
      BY SMTT(30), <1>3 DEF OutcomeInv, OutcomeTypes, O!DisputeDecided, O!LateReturnDecided, O!ResolveByHuman,
                  O!RiskScored, O!RecordDecision, O!LogType, O!AgentType
    <2>2. O!Decision(type, of, action) \in LogEntry
          /\ O!Decision(type, of, action).outcome = O!None
      BY DEF O!Decision, LogEntry, Judgement
    <2> QED BY <1>1, <2>1, <2>2, OutcomeOfDecision
  <1> QED BY <1>2, <1>3

LEMMA OutcomeStep ==
  ASSUME OutcomeInv, [O!Next]_outcome
  PROVE  OutcomeInv'
  <1>1. CASE UNCHANGED outcome
    BY <1>1, OutcomeRests DEF outcome
  <1>2. ASSUME NEW w \in Linkers, O!Working(w) PROVE OutcomeInv'
    BY <1>2, OutcomeOfFind, OutcomeOfEvaluate, OutcomeOfUpdate, OutcomeOfStats, OutcomeOfStore,
       OutcomeOfFinish DEF O!Working
  <1> QED BY Zenon, <1>1, <1>2, OutcomeOfFault, OutcomeOfOthers DEF O!Next

LEMMA OutcomeInit == O!Init => OutcomeInv
  <1> SUFFICES ASSUME O!Init PROVE OutcomeInv
    OBVIOUS
  <1>1. \A w \in Linkers : linker[w] = O!Idle
    BY DEF O!Init
  <1>2. linker \in [Linkers -> LinkerState]
    BY IdleLinker DEF O!Init
  <1>3. OutcomeTypes
    <2>1. LinkerRefs
      BY <1>1, IdleLinker DEF LinkerRefs
    <2>2. log \in Seq(LogEntry)
      BY DEF O!Init
    <2>3. calibration \in [O!AgentType -> Nat \X Nat] /\ disturbed \in BOOLEAN
      <3>1. <<0, 0>> \in Nat \X Nat
        OBVIOUS
      <3> QED BY <3>1 DEF O!Init
    <2> QED BY <1>2, <2>1, <2>2, <2>3 DEF OutcomeTypes
  <1>4. \A t \in O!AgentType : calibration[t] = <<0, 0>> /\ log = << >>
    BY DEF O!Init
  <1>5. \A t \in O!AgentType : O!Stats(t) = <<0, 0>>
    BY StatsOfNothing DEF O!Init
  <1>6. LinkedInv
    BY <1>1, <1>4, <1>5, IdleLinker DEF LinkedInv, O!Busy
  <1> QED BY <1>3, <1>6 DEF OutcomeInv

\* A judgement changes only in UpdateOutcome, which the log's other writers do not repeat.
LEMMA JudgementsStand ==
  ASSUME OutcomeInv, [O!Next]_outcome, ~ disturbed', NEW i \in DOMAIN log, log[i].outcome # O!None
  PROVE  log'[i].outcome = log[i].outcome
  <1>1. CASE \E w \in Linkers : O!UpdateOutcome(w)
    <2>1. ~ disturbed
      BY <1>1 DEF O!UpdateOutcome
    <2> QED BY <1>1, <2>1, OutcomeOfUpdate
  <1>2. ASSUME NEW d, log' = Append(log, d) PROVE log'[i].outcome = log[i].outcome
    BY <1>2 DEF OutcomeInv, OutcomeTypes
  <1>3. CASE \E w \in Linkers : O!LinkFails(w) \/ O!WorkerStops(w) \/ (O!Working(w) /\ ~ O!UpdateOutcome(w))
    <2>1. log' = log
      BY <1>3 DEF O!LinkFails, O!WorkerStops, O!Working, O!FindDecisionsByTransaction, O!Evaluate,
                  O!GetCalibrationStats, O!StoreCalibrationBucket, O!Finish
    <2> QED BY <2>1
  <1>4. CASE O!CheckOut \/ UNCHANGED outcome
    BY <1>4 DEF O!CheckOut, outcome
  <1>5. CASE \/ \E b \in BOOLEAN : O!DisputeDecided(b) \/ O!LateReturnDecided(b)
             \/ \E a \in {"APPROVE", "OVERRIDE"} : O!ResolveByHuman(a)
             \/ O!RiskScored
    BY <1>2, <1>5 DEF O!DisputeDecided, O!LateReturnDecided, O!ResolveByHuman, O!RiskScored,
                      O!RecordDecision
  <1> QED BY Zenon, <1>1, <1>3, <1>4, <1>5 DEF O!Next

\* The jobs of a transaction that follow one another (LinkOutcomes, scheduled by the return and
\* by a resolution) judge each decision once.
THEOREM JudgedOnce == TrustSpec => OutcomeStands
  <1>1. TrustInit => OutcomeInv
    BY BeginApart, OutcomeInit
  <1>2. OutcomeInv /\ [TrustNext]_trust => OutcomeInv'
    BY StepsApart, OutcomeStep
  <1>3. OutcomeInv /\ [TrustNext]_trust =>
          [ ~ disturbed' => \A i \in DOMAIN log :
              log[i].outcome # O!None => log'[i].outcome = log[i].outcome ]_(O!vars)
    BY StepsApart, JudgementsStand
  <1> QED BY <1>1, <1>2, <1>3, PTL DEF TrustSpec, OutcomeStands, O!OutcomeStands

\* What UpdateCalibrationMetrics stores of an agent is what the log says of it, whenever no job
\* is under way.
THEOREM CalibrationFollowsTheLog == TrustSpec => []CalibrationIsCurrent
  <1>1. TrustInit => OutcomeInv
    BY BeginApart, OutcomeInit
  <1>2. OutcomeInv /\ [TrustNext]_trust => OutcomeInv'
    BY StepsApart, OutcomeStep
  <1>3. OutcomeInv => CalibrationIsCurrent
    BY DEF OutcomeInv, LinkedInv, Recalibrates, CalibrationIsCurrent, O!CalibrationIsCurrent
  <1> QED BY <1>1, <1>2, <1>3, PTL DEF TrustSpec

-----------------------------------------------------------------------------
(* The types.                                                              *)

LEMMA ConsentTypes ==
  ASSUME A!TypeOK, [A!Next]_consent
  PROVE  A!TypeOK'
  <1>1. CASE A!GenerateAgreement
    <2>1. PICK clauses \in A!generateClauses : agreement' = clauses
      BY <1>1 DEF A!GenerateAgreement, A!Insert
    <2>2. clauses \in SUBSET Clauses
      BY <2>1 DEF A!generateClauses, A!guardrailCheck
    <2> QED BY <1>1, <2>1, <2>2 DEF A!GenerateAgreement, A!TypeOK, A!Texts
  <1>2. CASE A!TriggerAgreement \/ A!UpdateAgreementSnapshot \/ A!DraftingFails
    BY <1>2 DEF A!TriggerAgreement, A!UpdateAgreementSnapshot, A!DraftingFails, A!TypeOK
  <1>3. ASSUME NEW user \in A!Users, A!ValidateAcceptance(user) PROVE A!TypeOK'
    BY <1>3 DEF A!ValidateAcceptance, A!GetTransactionParties, A!InsertAcceptance, A!TypeOK
  <1>4. CASE UNCHANGED consent
    BY <1>4 DEF consent, A!TypeOK
  <1> QED BY <1>1, <1>2, <1>3, <1>4 DEF A!Next, A!Drafts, A!Accepting

-----------------------------------------------------------------------------

StandingState == [rentals : 0 .. MaxHappened, bubbles : Nat, verified : BOOLEAN,
                  disputes : 0 .. MaxHappened, old : 0 .. MaxHappened]
SubmitSteps == {"new", "signal", "read", "set", "enqueue", "done"}
Lefts == 0 .. MaxBubbles
Sums == 0 .. 1000
SubmitState == [step : SubmitSteps, left : Lefts, sum : Sums]
UpdaterState == [step : {"idle", "set"}, read : StandingState, score : 0 .. 1000]

\* The bubbles whose signals are still to be emitted.
Owed == {b \in Ratings \X (1 .. MaxBubbles) :
           request[b[1]].step \in {"signal", "read", "set"} /\ b[2] <= request[b[1]].left}

\* The inductive invariant: every signal is of a bubble, and every event is in one column.
ReputationTypes ==
  /\ standing \in StandingState /\ signals \in Nat /\ score \in 0 .. 1000
  /\ recalcs \in Nat /\ recalcs <= MaxRecalcs + losses
  /\ request \in [Ratings -> SubmitState]
  /\ updater \in [Updaters -> UpdaterState]
  /\ kyc \in {"idle", "bonus", "done"}
  /\ backfill \in {R!None} \cup (0 .. 1000)
  /\ happened \in 0 .. MaxHappened /\ losses \in 0 .. MaxFaults
  /\ clash \subseteq {"workers", "lost"}
  /\ standing.rentals + standing.disputes + standing.old <= happened
  /\ \A r \in Ratings : request[r].step = "signal" => request[r].left > 0
  /\ signals + Cardinality(Owed) <= standing.bubbles

LEMMA SumInRange == ASSUME NEW n \in Nat PROVE R!SignalSum(n) \in 0 .. 1000
  BY DEF R!SignalSum, R!clamp

LEMMA ScoreInRange == ASSUME NEW f \in StandingState PROVE R!computeScore(f) \in 0 .. 1000
  <1>1. \A n \in Int : R!clamp(0, 1000, n) \in 0 .. 1000
    BY DEF R!clamp
  <1> DEFINE n == 15 * f.rentals + 5 * f.bubbles + (IF f.verified THEN 50 ELSE 0)
                    - 30 * f.disputes - 15 * f.old
  <1>2. n \in Int
    BY DEF StandingState
  <1>3. R!computeScore(f) = R!clamp(0, 1000, n)
    BY Zenon DEF R!computeScore
  <1> HIDE DEF n
  <1> QED BY ONLY <1>1, <1>2, <1>3

LEMMA OwedIsFinite ==
  ASSUME R!ReputationAssumption
  PROVE  IsFiniteSet(Owed) /\ Cardinality(Owed) \in Nat
  <1>1. IsFiniteSet(Ratings \X (1 .. MaxBubbles))
    <2>1. IsFiniteSet(Ratings) /\ MaxBubbles \in Nat
      BY Zenon DEF R!ReputationAssumption, R!IsFiniteSet, IsFiniteSet
    <2>2. IsFiniteSet(1 .. MaxBubbles)
      BY <2>1, FS_Interval
    <2> QED BY <2>1, <2>2, FS_Product
  <1>2. Owed \in SUBSET (Ratings \X (1 .. MaxBubbles))
    BY DEF Owed
  <1> QED BY <1>1, <1>2, FS_Subset, FS_CardinalityType

\* Who owes less owes a part of it.
LEMMA OwedShrinks ==
  ASSUME R!ReputationAssumption, Owed' \subseteq Owed
  PROVE  Cardinality(Owed') <= Cardinality(Owed) /\ Cardinality(Owed') \in Nat
  BY OwedIsFinite, FS_Subset, FS_CardinalityType

\* Request r goes on in state o.
LEMMA SubmitWrite ==
  ASSUME request \in [Ratings -> SubmitState], NEW r \in Ratings, NEW o \in SubmitState,
         request' = [request EXCEPT ![r] = o]
  PROVE  /\ request' \in [Ratings -> SubmitState] /\ request'[r] = o
         /\ \A q \in Ratings : q # r => request'[q] = request[q]
  OBVIOUS

LEMMA SubmitStep ==
  ASSUME NEW o \in SubmitState, NEW step \in SubmitSteps
  PROVE  /\ [o EXCEPT !.step = step] \in SubmitState
         /\ [o EXCEPT !.step = step].step = step /\ [o EXCEPT !.step = step].left = o.left
  BY DEF SubmitState

\* The steps of a request that change two fields.
WithLeft(o, step, left) == [o EXCEPT !.step = step, !.left = left]
WithSum(o, step, sum) == [o EXCEPT !.step = step, !.sum = sum]

LEMMA TwoFields ==
  ASSUME NEW S, NEW L, NEW T, NEW o \in [step : S, left : L, sum : T], NEW step \in S
  PROVE  /\ \A left \in L : WithLeft(o, step, left) \in [step : S, left : L, sum : T]
         /\ \A sum \in T : WithSum(o, step, sum) \in [step : S, left : L, sum : T]
  BY DEF WithLeft, WithSum

LEMMA SubmitStepLeft ==
  ASSUME NEW o \in SubmitState, NEW step \in SubmitSteps,
         NEW left \in Lefts
  PROVE  /\ WithLeft(o, step, left) \in SubmitState
         /\ WithLeft(o, step, left).step = step /\ WithLeft(o, step, left).left = left
  <1>1. WithLeft(o, step, left) \in SubmitState
    BY Zenon, TwoFields DEF SubmitState
  <1>2. WithLeft(o, step, left).step = step
    BY DEF SubmitState, WithLeft
  <1>3. WithLeft(o, step, left).left = left
    BY DEF SubmitState, WithLeft
  <1> QED BY ONLY <1>1, <1>2, <1>3

LEMMA SubmitStepSum ==
  ASSUME NEW o \in SubmitState, NEW step \in SubmitSteps,
         NEW sum \in Sums
  PROVE  /\ WithSum(o, step, sum) \in SubmitState
         /\ WithSum(o, step, sum).step = step /\ WithSum(o, step, sum).left = o.left
  <1>1. WithSum(o, step, sum) \in SubmitState
    BY Zenon, TwoFields DEF SubmitState
  <1>2. WithSum(o, step, sum).step = step
    BY DEF SubmitState, WithSum
  <1>3. WithSum(o, step, sum).left = o.left
    BY DEF SubmitState, WithSum
  <1> QED BY ONLY <1>1, <1>2, <1>3

\* A request that goes on without a new bubble or signal.
LEMMA SubmitGoesOn ==
  ASSUME R!ReputationAssumption, ReputationTypes, NEW r \in Ratings, NEW o \in SubmitState,
         request' = [request EXCEPT ![r] = o],
         o.step \in {"signal", "read", "set"} =>
           request[r].step \in {"signal", "read", "set"} /\ o.left <= request[r].left,
         o.step = "signal" => o.left > 0,
         UNCHANGED <<standing, signals, updater, kyc, backfill, happened>>,
         score' \in 0 .. 1000, recalcs' \in Nat, losses' \in 0 .. MaxFaults,
         recalcs' <= MaxRecalcs + losses', clash' \subseteq {"workers", "lost"}
  PROVE  ReputationTypes'
  <1> USE DEF ReputationTypes
  <1>1. /\ request' \in [Ratings -> SubmitState] /\ request'[r] = o
        /\ \A q \in Ratings : q # r => request'[q] = request[q]
    BY SubmitWrite
  <1>2. Owed' \subseteq Owed
    <2>1. \A q \in Ratings : request'[q].step \in {"signal", "read", "set"} =>
            request[q].step \in {"signal", "read", "set"} /\ request'[q].left <= request[q].left
      BY <1>1 DEF SubmitState, SubmitSteps, Lefts, Sums
    <2>2. \A q \in Ratings : request[q].left \in Nat /\ request'[q].left \in Nat
      BY <1>1 DEF SubmitState, SubmitSteps, Lefts, Sums
    <2> QED BY <2>1, <2>2 DEF Owed
  <1>3. Cardinality(Owed)' <= Cardinality(Owed) /\ Cardinality(Owed)' \in Nat
    BY <1>2, OwedShrinks
  <1>4. (signals + Cardinality(Owed) <= standing.bubbles)'
    BY <1>3, OwedIsFinite DEF StandingState
  <1> QED BY <1>1, <1>4

LEMMA ReputationBySubmit ==
  ASSUME R!ReputationAssumption, ReputationTypes, NEW r \in Ratings,
         R!Submitting(r) \/ R!SubmitStops(r) \/ \E n \in 1 .. MaxBubbles : R!InsertRating(r, n)
  PROVE  ReputationTypes'
  <1> USE DEF ReputationTypes
  <1>0. request[r] \in SubmitState /\ MaxBubbles \in Nat /\ MaxFaults \in Nat /\ MaxRecalcs \in Nat
    BY DEF R!ReputationAssumption
  <1>1. ASSUME NEW n \in 1 .. MaxBubbles, R!InsertRating(r, n) PROVE ReputationTypes'
    <2> DEFINE o == [step |-> "signal", left |-> n, sum |-> 0]
    <2>1. o \in SubmitState /\ o.step = "signal" /\ o.left = n
      BY <1>0 DEF SubmitState, SubmitSteps, Lefts, Sums
    <2>2. /\ request[r].step = "new" /\ request' = [request EXCEPT ![r] = o]
          /\ standing' = [standing EXCEPT !.bubbles = standing.bubbles + n]
          /\ UNCHANGED <<signals, score, recalcs, updater, kyc, backfill, happened, losses, clash>>
      BY <1>1 DEF R!InsertRating, R!history
    <2> HIDE DEF o
    <2>3. /\ request' \in [Ratings -> SubmitState] /\ request'[r] = o
          /\ \A q \in Ratings : q # r => request'[q] = request[q]
      BY <2>1, <2>2, SubmitWrite
    <2>4. /\ standing' \in StandingState /\ standing'.bubbles = standing.bubbles + n
          /\ standing'.rentals = standing.rentals /\ standing'.disputes = standing.disputes
          /\ standing'.old = standing.old
      BY <2>2 DEF StandingState
    <2>5. Owed' = Owed \cup ({r} \X (1 .. n)) /\ Owed \cap ({r} \X (1 .. n)) = {}
      BY <1>0, <2>1, <2>2, <2>3 DEF Owed
    <2>6. Cardinality(Owed') = Cardinality(Owed) + n
      <3>1. IsFiniteSet({r} \X (1 .. n)) /\ Cardinality({r} \X (1 .. n)) = n
        <4>1. IsFiniteSet({r}) /\ Cardinality({r}) = 1
          BY FS_Singleton
        <4>2. IsFiniteSet(1 .. n) /\ Cardinality(1 .. n) = n
          BY FS_Interval
        <4>3. /\ IsFiniteSet({r} \X (1 .. n))
              /\ Cardinality({r} \X (1 .. n)) = Cardinality({r}) * Cardinality(1 .. n)
          BY <4>1, <4>2, FS_Product
        <4> QED BY <4>1, <4>2, <4>3
      <3>2. Cardinality(Owed \cup ({r} \X (1 .. n)))
              = Cardinality(Owed) + Cardinality({r} \X (1 .. n)) - Cardinality(Owed \cap ({r} \X (1 .. n)))
        BY <3>1, OwedIsFinite, FS_Union
      <3>3. Cardinality(Owed \cap ({r} \X (1 .. n))) = 0
        BY <2>5, FS_EmptySet
      <3> QED BY <2>5, <3>1, <3>2, <3>3, OwedIsFinite
    <2>7. (signals + Cardinality(Owed) <= standing.bubbles)'
      BY <2>2, <2>4, <2>6, OwedIsFinite DEF StandingState
    <2>8. (\A q \in Ratings : request[q].step = "signal" => request[q].left > 0)'
      BY <2>1, <2>3
    <2> QED BY <2>2, <2>3, <2>4, <2>7, <2>8
  <1>2. CASE R!InsertSignal(r)
    <2> DEFINE o == WithLeft(request[r], "read", request[r].left - 1)
    <2>1. /\ request[r].step = "signal" /\ request' = [request EXCEPT ![r] = o]
          /\ signals' = signals + 1
          /\ UNCHANGED <<standing, score, recalcs, updater, kyc, backfill, happened, losses, clash>>
      BY Zenon, <1>2 DEF R!InsertSignal, R!history, WithLeft
    <2>2. request[r].left - 1 \in 0 .. MaxBubbles /\ request[r].left \in 1 .. MaxBubbles
      BY <1>0, <2>1 DEF SubmitState, SubmitSteps, Lefts, Sums
    <2>3. o \in SubmitState /\ o.step = "read" /\ o.left = request[r].left - 1
      <3>1. "read" \in SubmitSteps /\ request[r].left - 1 \in Lefts
        BY <2>2 DEF SubmitSteps, Lefts
      <3>2. /\ WithLeft(request[r], "read", request[r].left - 1) \in SubmitState
            /\ WithLeft(request[r], "read", request[r].left - 1).step = "read"
            /\ WithLeft(request[r], "read", request[r].left - 1).left = request[r].left - 1
        BY ONLY <1>0, <3>1, SubmitStepLeft
      <3> QED BY Zenon, <3>2
    <2> HIDE DEF o
    <2>4. /\ request' \in [Ratings -> SubmitState] /\ request'[r] = o
          /\ \A q \in Ratings : q # r => request'[q] = request[q]
      BY <2>1, <2>3, SubmitWrite
    <2>5. Owed' = Owed \ {<<r, request[r].left>>} /\ <<r, request[r].left>> \in Owed
      BY <1>0, <2>1, <2>2, <2>3, <2>4 DEF Owed
    <2>6. Cardinality(Owed') = Cardinality(Owed) - 1
      <3>1. IsFiniteSet(Owed)
        BY OwedIsFinite
      <3>2. Cardinality(Owed \ {<<r, request[r].left>>}) = Cardinality(Owed) - 1
        BY ONLY <2>5, <3>1, FS_RemoveElement
      <3> QED BY <2>5, <3>2
    <2>7. (signals + Cardinality(Owed) <= standing.bubbles)'
      BY <2>1, <2>6, OwedIsFinite DEF StandingState
    <2> QED BY <2>1, <2>3, <2>4, <2>7
  <1>3. CASE R!FindSignals(r)
    <2>1. R!SignalSum(signals) \in 0 .. 1000
      <3>1. signals \in Nat
        OBVIOUS
      <3> QED BY ONLY Zenon, <3>1, SumInRange
    <2>2. WithSum(request[r], "set", R!SignalSum(signals)) \in SubmitState
          /\ WithSum(request[r], "set", R!SignalSum(signals)).step = "set"
          /\ WithSum(request[r], "set", R!SignalSum(signals)).left = request[r].left
      <3>1. "set" \in SubmitSteps /\ R!SignalSum(signals) \in Sums
        BY <2>1 DEF SubmitSteps, Sums
      <3> QED BY ONLY Zenon, <1>0, <2>1, <3>1, SubmitStepSum
    <2>3. /\ request[r].step = "read"
          /\ request' = [request EXCEPT ![r] =
                           WithSum(request[r], "set", R!SignalSum(signals))]
          /\ UNCHANGED <<standing, signals, score, recalcs, updater, kyc, backfill, happened, losses, clash>>
      BY Zenon, <1>3 DEF R!FindSignals, R!history, WithSum
    <2>4. request[r].left <= request[r].left
      BY <1>0 DEF SubmitState, SubmitSteps, Lefts, Sums
    <2> QED BY <2>2, <2>3, <2>4, SubmitGoesOn
  <1>4. CASE R!SetReputationScore(r)
    <2> DEFINE o == [request[r] EXCEPT !.step = IF request[r].left > 0 THEN "signal" ELSE "enqueue"]
    <2>1. /\ request[r].step = "set" /\ request' = [request EXCEPT ![r] = o]
          /\ score' = request[r].sum
          /\ UNCHANGED <<standing, signals, recalcs, updater, kyc, backfill, happened, losses, clash>>
      BY Zenon, <1>4 DEF R!SetReputationScore
    <2>2. /\ o \in SubmitState /\ o.left = request[r].left
          /\ o.step = IF request[r].left > 0 THEN "signal" ELSE "enqueue"
      <3>1. (IF request[r].left > 0 THEN "signal" ELSE "enqueue")
              \in SubmitSteps
        BY DEF SubmitSteps
      <3> QED BY ONLY Zenon, <1>0, <3>1, SubmitStep DEF o
    <2>3. request[r].left <= request[r].left /\ score' \in 0 .. 1000
      BY <1>0, <2>1 DEF SubmitState, SubmitSteps, Lefts, Sums
    <2> HIDE DEF o
    <2> QED BY <2>1, <2>2, <2>3, SubmitGoesOn
  <1>5. CASE R!EnqueueRecalc(r) \/ R!SubmitStops(r)
    <2> DEFINE o == [request[r] EXCEPT !.step = "done"]
    <2>1. o \in SubmitState /\ o.step = "done"
      BY <1>0, SubmitStep DEF SubmitSteps
    <2>2. /\ request' = [request EXCEPT ![r] = o]
          /\ UNCHANGED <<standing, signals, score, updater, kyc, backfill, happened>>
      BY Zenon, <1>5 DEF R!EnqueueRecalc, R!SubmitStops
    <2>3. CASE R!EnqueueRecalc(r)
      <3>1. recalcs < MaxRecalcs /\ recalcs' = recalcs + 1 /\ UNCHANGED <<losses, clash>>
        BY <2>3 DEF R!EnqueueRecalc, R!history
      <3>2. recalcs' \in Nat /\ recalcs' <= MaxRecalcs + losses'
        BY <1>0, <3>1
      <3> HIDE DEF o
      <3> QED BY <2>1, <2>2, <3>1, <3>2, SubmitGoesOn
    <2>4. CASE R!SubmitStops(r)
      <3>1. losses < MaxFaults /\ losses' = losses + 1 /\ clash' = clash \cup {"lost"}
            /\ UNCHANGED recalcs
        BY <2>4 DEF R!SubmitStops
      <3>2. losses' \in 0 .. MaxFaults /\ recalcs' <= MaxRecalcs + losses'
        BY <1>0, <3>1
      <3> HIDE DEF o
      <3> QED BY <2>1, <2>2, <3>1, <3>2, SubmitGoesOn
    <2> QED BY <1>5, <2>3, <2>4
  <1> QED BY <1>1, <1>2, <1>3, <1>4, <1>5 DEF R!Submitting

\* Owed depends on the requests alone.
LEMMA OwedStays == ASSUME UNCHANGED request PROVE Owed' = Owed
  BY DEF Owed

LEMMA ReputationByWorker ==
  ASSUME R!ReputationAssumption, ReputationTypes, NEW w \in Updaters, R!Working(w) \/ R!WorkerStops(w)
  PROVE  ReputationTypes'
  <1> USE DEF ReputationTypes
  <1>0. updater[w] \in UpdaterState /\ R!IdleWorker \in UpdaterState
    BY DEF R!IdleWorker, R!NoFacts, UpdaterState, StandingState, R!ReputationAssumption
  <1>1. CASE R!FetchUserStats(w)
    <2> DEFINE o == [step |-> "set", read |-> standing, score |-> R!computeScore(standing)]
    <2>1. o \in UpdaterState
      BY ScoreInRange DEF UpdaterState
    <2>2. /\ recalcs > 0 /\ recalcs' = recalcs - 1 /\ updater' = [updater EXCEPT ![w] = o]
          /\ clash' \in {clash, clash \cup {"workers"}}
          /\ UNCHANGED <<standing, signals, score, request, kyc, backfill, happened, losses>>
      BY <1>1 DEF R!FetchUserStats, R!Start
    <2> HIDE DEF o
    <2>3. recalcs' \in Nat /\ recalcs' <= MaxRecalcs + losses'
      BY <2>2 DEF R!ReputationAssumption
    <2> QED BY <2>1, <2>2, <2>3, OwedStays
  <1>2. CASE R!SetScore(w)
    <2>1. score' \in 0 .. 1000
      BY <1>0, <1>2 DEF R!SetScore, UpdaterState
    <2> QED BY <1>0, <1>2, <2>1, OwedStays DEF R!SetScore
  <1>3. CASE R!WorkerStops(w)
    <2>1. /\ losses < MaxFaults /\ losses' = losses + 1 /\ recalcs' = recalcs + 1
          /\ updater' = [updater EXCEPT ![w] = R!IdleWorker]
          /\ UNCHANGED <<standing, signals, score, request, kyc, backfill, happened, clash>>
      BY <1>3 DEF R!WorkerStops, R!history
    <2>2. losses' \in 0 .. MaxFaults /\ recalcs' \in Nat /\ recalcs' <= MaxRecalcs + losses'
      BY <2>1 DEF R!ReputationAssumption
    <2> QED BY <1>0, <2>1, <2>2, OwedStays
  <1> QED BY <1>1, <1>2, <1>3 DEF R!Working

LEMMA ReputationTypesStep ==
  ASSUME R!ReputationAssumption, ReputationTypes, [R!Next]_reputation
  PROVE  ReputationTypes'
  <1> USE DEF ReputationTypes
  <1>0. MaxHappened \in Nat /\ MaxRecalcs \in Nat
    BY DEF R!ReputationAssumption
  <1>1. CASE R!CheckOut
    <2>1. /\ happened < MaxHappened /\ happened' = happened + 1
          /\ standing' = [standing EXCEPT !.rentals = standing.rentals + 1]
          /\ UNCHANGED <<signals, score, recalcs, request, updater, kyc, backfill, losses, clash>>
      BY <1>1 DEF R!CheckOut, R!Event, R!history
    <2>2. /\ standing' \in StandingState /\ standing'.bubbles = standing.bubbles
          /\ standing'.rentals + standing'.disputes + standing'.old <= happened'
          /\ happened' \in 0 .. MaxHappened
      BY <1>0, <2>1 DEF StandingState
    <2> QED BY <2>1, <2>2, OwedStays
  <1>2. CASE R!DisputeResolved
    <2>1. /\ happened < MaxHappened /\ happened' = happened + 1
          /\ recalcs < MaxRecalcs /\ recalcs' = recalcs + 1
          /\ standing' = [standing EXCEPT !.disputes = standing.disputes + 1]
          /\ UNCHANGED <<signals, score, request, updater, kyc, backfill, losses, clash>>
      BY <1>2 DEF R!DisputeResolved, R!Event, R!history
    <2>2. /\ standing' \in StandingState /\ standing'.bubbles = standing.bubbles
          /\ standing'.rentals + standing'.disputes + standing'.old <= happened'
          /\ happened' \in 0 .. MaxHappened
      BY <1>0, <2>1 DEF StandingState
    <2>3. recalcs' \in Nat /\ recalcs' <= MaxRecalcs + losses'
      BY <1>0, <2>1
    <2> QED BY <2>1, <2>2, <2>3, OwedStays
  <1>3. CASE R!Ages
    <2>1. /\ standing.disputes > 0
          /\ standing' = [standing EXCEPT !.disputes = standing.disputes - 1, !.old = standing.old + 1]
          /\ UNCHANGED <<signals, score, recalcs, request, updater, kyc, backfill, happened, losses, clash>>
      BY Zenon, <1>3 DEF R!Ages, R!history
    <2>2. /\ standing' \in StandingState /\ standing'.bubbles = standing.bubbles
          /\ standing'.rentals + standing'.disputes + standing'.old <= happened
      <3>1. standing' = [rentals |-> standing.rentals, bubbles |-> standing.bubbles,
                         verified |-> standing.verified, disputes |-> standing.disputes - 1,
                         old |-> standing.old + 1]
        BY <2>1 DEF StandingState
      <3>2. /\ standing.rentals \in Nat /\ standing.disputes \in Nat /\ standing.old \in Nat
            /\ standing.bubbles \in Nat /\ standing.verified \in BOOLEAN
            /\ standing.rentals <= MaxHappened
        BY DEF StandingState
      <3>3. standing.disputes - 1 \in 0 .. MaxHappened /\ standing.old + 1 \in 0 .. MaxHappened
        BY <1>0, <2>1, <3>2
      <3> QED BY <1>0, <2>1, <3>1, <3>2, <3>3 DEF StandingState
    <2> QED BY <2>1, <2>2, OwedStays
  <1>4. CASE R!UpdateIdentityStatus
    <2>1. /\ standing' = [standing EXCEPT !.verified = TRUE] /\ kyc' = "bonus"
          /\ UNCHANGED <<signals, score, recalcs, request, updater, backfill, happened, losses, clash>>
      BY <1>4 DEF R!UpdateIdentityStatus, R!history
    <2>2. /\ standing' \in StandingState /\ standing'.bubbles = standing.bubbles
          /\ standing'.rentals = standing.rentals /\ standing'.disputes = standing.disputes
          /\ standing'.old = standing.old
      BY <2>1 DEF StandingState
    <2> QED BY <2>1, <2>2, OwedStays
  <1>5. CASE R!AddReputationScore
    <2>1. score' \in 0 .. 1000
      BY <1>5 DEF R!AddReputationScore, R!clamp
    <2> QED BY <1>5, <2>1, OwedStays DEF R!AddReputationScore, R!history
  <1>6. CASE UNCHANGED reputation
    BY <1>6, OwedStays DEF reputation
  <1>7. CASE R!Backfilling
    <2>1. CASE R!BackfillFinds
      <3>1. R!SignalSum(signals) \in 0 .. 1000
        BY SumInRange
      <3>2. happened < MaxHappened /\ happened' = happened + 1
        BY <2>1 DEF R!BackfillFinds, R!Event
      <3>3. happened' \in 0 .. MaxHappened /\ standing.rentals + standing.disputes + standing.old <= happened'
        BY <1>0, <3>2 DEF StandingState
      <3> QED BY <2>1, <3>1, <3>3, OwedStays DEF R!BackfillFinds, R!history
    <2>2. CASE R!BackfillSets
      <3>1. score' \in 0 .. 1000
        BY <2>2 DEF R!BackfillSets
      <3> QED BY <2>2, <3>1, OwedStays DEF R!BackfillSets
    <2>3. CASE R!BackfillStops
      <3>1. losses < MaxFaults /\ losses' = losses + 1 /\ backfill' = R!None
            /\ UNCHANGED <<standing, signals, score, recalcs, request, updater, kyc, happened, clash>>
        BY <2>3 DEF R!BackfillStops, R!history
      <3>2. losses' \in 0 .. MaxFaults /\ recalcs' <= MaxRecalcs + losses'
        BY <1>0, <3>1 DEF R!ReputationAssumption
      <3> QED BY <3>1, <3>2, OwedStays
    <2> QED BY <1>7, <2>1, <2>2, <2>3 DEF R!Backfilling
  <1> QED BY <1>1, <1>2, <1>3, <1>4, <1>5, <1>6, <1>7, ReputationBySubmit, ReputationByWorker DEF R!Next

LEMMA ReputationTypesInit == ASSUME R!ReputationAssumption, R!Init PROVE ReputationTypes
  <1>1. Owed = {}
    BY DEF Owed, R!Init, R!IdleRequest
  <1>2. Cardinality(Owed) = 0
    BY <1>1, FS_EmptySet
  <1> QED BY <1>2 DEF ReputationTypes, R!Init, R!NoFacts, R!IdleRequest, R!IdleWorker, StandingState,
        SubmitState, SubmitSteps, Lefts, Sums, UpdaterState, R!ReputationAssumption

LEMMA ReputationIsTyped == ASSUME R!ReputationAssumption, ReputationTypes PROVE R!TypeOK
  <1>1. signals \in 0 .. standing.bubbles
    BY OwedIsFinite DEF ReputationTypes, StandingState
  <1>2. recalcs \in 0 .. MaxRecalcs + MaxFaults
    BY DEF ReputationTypes, R!ReputationAssumption
  <1> QED BY <1>1, <1>2 DEF ReputationTypes, R!TypeOK, StandingState, SubmitState, SubmitSteps, Lefts, Sums, UpdaterState

LEMMA Least ==
  ASSUME NEW S \in SUBSET Nat, S # {}
  PROVE  \E x \in S : \A y \in S : x <= y
  <1> DEFINE Less == OpToRel(<, Nat)
  <1>1. Less = {ss \in Nat \X Nat : ss[1] < ss[2]}
    BY Zenon DEF OpToRel
  <1>2. PICK x \in S : \A y \in S : <<y, x>> \notin Less
    <2> HIDE DEF Less
    <2>1. IsWellFoundedOn(Less, Nat)
      BY NatLessThanWellFounded DEF Less
    <2> QED BY <2>1, WFMin
  <1>3. \A y \in S : x <= y
    <2> HIDE DEF Less
    <2> SUFFICES ASSUME NEW y \in S, ~ (x <= y) PROVE FALSE
      OBVIOUS
    <2>1. <<y, x>> \in {ss \in Nat \X Nat : ss[1] < ss[2]}
      OBVIOUS
    <2> QED BY <1>1, <1>2, <2>1
  <1> QED BY <1>3

\* The facts are added one after the other, in the order in which CHOOSE takes them.
Any(s) == CHOOSE x \in s : TRUE
Adds(f, D) == f = [s \in D |-> IF s = {} THEN 0 ELSE Score(Any(s)) + f[s \ {Any(s)}]]
UpToSize(S, n) == {s \in SUBSET S : Cardinality(s) <= n}

LEMMA AnyFacts ==
  ASSUME NEW S, IsFiniteSet(S), NEW s \in SUBSET S, s # {}
  PROVE  /\ Any(s) \in s /\ s \ {Any(s)} \in SUBSET S
         /\ Cardinality(s) \in Nat /\ Cardinality(s \ {Any(s)}) = Cardinality(s) - 1
  <1>1. IsFiniteSet(s)
    BY FS_Subset
  <1>2. Any(s) \in s
    BY DEF Any
  <1> QED BY <1>1, <1>2, FS_RemoveElement, FS_CardinalityType

LEMMA SumOfSmallSets ==
  ASSUME NEW S, IsFiniteSet(S), NEW n \in Nat
  PROVE  \E f : Adds(f, UpToSize(S, n))
  <1> DEFINE Bad == {m \in Nat : ~ \E f : Adds(f, UpToSize(S, m))}
  <1>1. ASSUME NEW m \in Bad, \A k \in Bad : m <= k PROVE FALSE
    <2>1. CASE m = 0
      <3> DEFINE f == [s \in UpToSize(S, 0) |-> 0]
      <3>1. \A s \in UpToSize(S, 0) : s = {}
        <4> SUFFICES ASSUME NEW s \in SUBSET S, Cardinality(s) <= 0, s # {} PROVE FALSE
          BY DEF UpToSize
        <4>1. IsFiniteSet(s)
          BY FS_Subset
        <4>2. Cardinality(s) = 0
          BY <4>1, FS_CardinalityType
        <4> QED BY <4>1, <4>2, FS_EmptySet
      <3>2. Adds(f, UpToSize(S, 0))
        BY <3>1 DEF Adds
      <3> QED BY <1>1, <2>1, <3>2
    <2>2. CASE m # 0
      <3>1. m - 1 \in Nat /\ m - 1 \notin Bad
        BY <1>1, <2>2
      <3>2. PICK f : Adds(f, UpToSize(S, m - 1))
        BY <3>1
      <3> DEFINE g == [s \in UpToSize(S, m) |->
                         IF s = {} THEN 0 ELSE Score(Any(s)) + f[s \ {Any(s)}]]
      <3>3. \A s \in UpToSize(S, m) : s # {} => s \ {Any(s)} \in UpToSize(S, m - 1)
        BY <1>1, AnyFacts DEF UpToSize
      <3>4. UpToSize(S, m - 1) \subseteq UpToSize(S, m)
        <4> SUFFICES ASSUME NEW s \in SUBSET S, Cardinality(s) <= m - 1 PROVE Cardinality(s) <= m
          BY DEF UpToSize
        <4>1. Cardinality(s) \in Nat
          BY FS_Subset, FS_CardinalityType
        <4> QED BY <4>1, <1>1
      <3>5. \A s \in UpToSize(S, m - 1) : g[s] = f[s]
        <4> SUFFICES ASSUME NEW s \in UpToSize(S, m - 1) PROVE g[s] = f[s]
          OBVIOUS
        <4>1. f[s] = IF s = {} THEN 0 ELSE Score(Any(s)) + f[s \ {Any(s)}]
          BY Zenon, <3>2 DEF Adds
        <4> QED BY <3>4, <4>1
      <3>6. \A s \in UpToSize(S, m) : s # {} => g[s \ {Any(s)}] = f[s \ {Any(s)}]
        BY <3>3, <3>5
      <3>7. Adds(g, UpToSize(S, m))
        <4> DEFINE h == [s \in UpToSize(S, m) |->
                         IF s = {} THEN 0 ELSE Score(Any(s)) + g[s \ {Any(s)}]]
        <4>1. ASSUME NEW s \in UpToSize(S, m) PROVE h[s] = g[s]
          <5>1. g[s] = IF s = {} THEN 0 ELSE Score(Any(s)) + f[s \ {Any(s)}]
            OBVIOUS
          <5>2. h[s] = IF s = {} THEN 0 ELSE Score(Any(s)) + g[s \ {Any(s)}]
            OBVIOUS
          <5> HIDE DEF g, h
          <5> QED BY Zenon, <3>6, <5>1, <5>2
        <4>2. h = g
          BY <4>1
        <4> QED BY <4>2 DEF Adds
      <3> QED BY <1>1, <3>7
    <2> QED BY <2>1, <2>2
  <1>2. Bad = {}
    BY <1>1, Least
  <1> QED BY <1>2

LEMMA SumIsNat ==
  ASSUME NEW S, IsFiniteSet(S), \A x \in S : Score(x) \in Nat
  PROVE  MapThenSumSet(Score, S) \in Nat
  <1> DEFINE iter == CHOOSE f : Adds(f, SUBSET S)
  <1>1. MapThenSumSet(Score, S) = iter[S]
    BY Zenon DEF MapThenSumSet, MapThenFoldSet, Adds, Any
  <1>2. SUBSET S = UpToSize(S, Cardinality(S)) /\ Cardinality(S) \in Nat
    BY FS_Subset, FS_CardinalityType DEF UpToSize
  <1>3. Adds(iter, SUBSET S)
    <2>1. \E f : Adds(f, SUBSET S)
      <3>1. \E f : Adds(f, UpToSize(S, Cardinality(S)))
        BY <1>2, SumOfSmallSets
      <3> QED BY Zenon, <1>2, <3>1
    <2> QED BY Zenon, <2>1
  <1>4. \A s \in SUBSET S : iter[s] = IF s = {} THEN 0 ELSE Score(Any(s)) + iter[s \ {Any(s)}]
    BY Zenon, <1>3 DEF Adds
  <1> HIDE DEF iter
  <1> DEFINE Bad == {Cardinality(s) : s \in {t \in SUBSET S : iter[t] \notin Nat}}
  <1>5. Bad \in SUBSET Nat
    BY FS_Subset, FS_CardinalityType
  <1>6. ASSUME NEW m \in Bad, \A k \in Bad : m <= k PROVE FALSE
    <2>1. PICK s \in SUBSET S : iter[s] \notin Nat /\ m = Cardinality(s)
      OBVIOUS
    <2>2. s # {}
      BY <1>4, <2>1
    <2>3. /\ Any(s) \in s /\ s \ {Any(s)} \in SUBSET S
          /\ Cardinality(s) \in Nat /\ Cardinality(s \ {Any(s)}) = Cardinality(s) - 1
      BY <2>2, AnyFacts
    <2>4. iter[s \ {Any(s)}] \in Nat
      <3> SUFFICES ASSUME iter[s \ {Any(s)}] \notin Nat PROVE FALSE
        OBVIOUS
      <3>1. Cardinality(s \ {Any(s)}) \in Bad
        BY <2>3
      <3> QED BY <1>6, <2>1, <2>3, <3>1
    <2>5. iter[s] = Score(Any(s)) + iter[s \ {Any(s)}]
      BY <1>4, <2>2
    <2> QED BY <2>1, <2>3, <2>4, <2>5
  <1>7. Bad = {}
    BY <1>5, <1>6, Least
  <1>8. iter[S] \in Nat
    BY <1>7
  <1> QED BY <1>1, <1>8

-----------------------------------------------------------------------------
(* The types of the fraud agent.                                           *)

\* Five signals or four patterns.
LEMMA FiveAreFinite == ASSUME NEW a, NEW b, NEW c, NEW d, NEW e PROVE IsFiniteSet({a, b, c, d, e})
  <1>1. IsFiniteSet({a} \cup {b})
    BY FS_Singleton, FS_AddElement
  <1>2. IsFiniteSet({a, b} \cup {c})
    <2>1. {a, b} = {a} \cup {b}
      OBVIOUS
    <2> QED BY <1>1, <2>1, FS_AddElement
  <1>3. IsFiniteSet({a, b, c} \cup {d})
    <2>1. {a, b, c} = {a, b} \cup {c}
      OBVIOUS
    <2> QED BY <1>2, <2>1, FS_AddElement
  <1>4. IsFiniteSet({a, b, c, d} \cup {e})
    <2>1. {a, b, c, d} = {a, b, c} \cup {d}
      OBVIOUS
    <2> QED BY <1>3, <2>1, FS_AddElement
  <1>5. {a, b, c, d, e} = {a, b, c, d} \cup {e}
    OBVIOUS
  <1> QED BY <1>4, <1>5

\* What a score is made of: a few points for each fact.
LEMMA ScoresAreNumbers ==
  ASSUME FraudAssumption
  PROVE  Scores \subseteq Nat
  <1>1. IsFiniteSet(Facts)
    <2>1. IsFiniteSet(DOMAIN SignalScore)
      <3>1. DOMAIN SignalScore = {"DEVICE_FINGERPRINT", "PAYMENT_INSTRUMENT", "CARRIER_BATCH",
                                  "SIMULTANEOUS_CREATION", "WIFI_NETWORK"}
        BY DEF SignalScore
      <3>2. IsFiniteSet({"DEVICE_FINGERPRINT", "PAYMENT_INSTRUMENT", "CARRIER_BATCH",
                        "SIMULTANEOUS_CREATION", "WIFI_NETWORK"})
        BY FiveAreFinite
      <3> QED BY <3>1, <3>2
    <2>2. IsFiniteSet(DOMAIN PatternScore)
      <3>1. DOMAIN PatternScore = {"EXCLUSIVE_PAIR", "DAMAGE_AMOUNT", "SERIAL_DAMAGE", "VALUE_SPIKE",
                                   "VALUE_SPIKE"}
        BY DEF PatternScore
      <3>2. IsFiniteSet({"EXCLUSIVE_PAIR", "DAMAGE_AMOUNT", "SERIAL_DAMAGE", "VALUE_SPIKE", "VALUE_SPIKE"})
        BY FiveAreFinite
      <3> QED BY <3>1, <3>2
    <2>3. IsFiniteSet(Others)
      BY DEF FraudAssumption
    <2>4. IsFiniteSet(SignalFacts) /\ IsFiniteSet(PatternFacts)
      BY <2>1, <2>2, <2>3, FS_Product DEF SignalFacts, PatternFacts
    <2> QED BY <2>4, FS_Union DEF Facts
  <1>2. \A fact \in Facts : Score(fact) \in Nat
    <2>1. \A s \in DOMAIN SignalScore : SignalScore[s] \in Nat
      BY DEF SignalScore
    <2>2. \A p \in DOMAIN PatternScore : PatternScore[p] \in Nat
      BY DEF PatternScore
    <2> QED BY <2>1, <2>2 DEF Facts, SignalFacts, PatternFacts, Score
  <1>3. ASSUME NEW found \in SUBSET Facts PROVE TotalScore(found) \in Nat
    <2>1. IsFiniteSet(found)
      BY <1>1, FS_Subset
    <2>2. MapThenSumSet(Score, found) \in Nat
      BY <1>2, <2>1, SumIsNat
    <2> QED BY <2>2 DEF TotalScore
  <1> QED BY <1>3 DEF Scores

\* The inductive invariant, beside FraudInv: the numbers are of rows that there are.
FraudTypes ==
  /\ Len(decisions) <= MaxDecisions
  /\ \A e \in Evaluators :
       /\ evaluator[e].decision \in {0} \cup DOMAIN decisions
       /\ evaluator[e].at = "recorded" => evaluator[e].decision # 0
  /\ \A f \in DOMAIN flags : flags[f].decision \in DOMAIN decisions
  /\ riskFlags \subseteq DOMAIN flags

LEMMA FraudTypesStep ==
  ASSUME FraudAssumption, FraudInv, FraudTypes, [Next]_vars
  PROVE  FraudTypes'
  <1> USE DEF FraudTypes
  <1>0. /\ decisions \in Seq(Decision) /\ flags \in Seq(Flag) /\ MaxDecisions \in Nat
        /\ evaluator \in [Evaluators -> [at : {"idle", "found", "recorded"}, found : SUBSET Facts,
                                         decision : Nat]]
    BY DEF FraudInv, Shape, FraudAssumption
  <1>1. CASE Happens \/ UNCHANGED vars
    BY <1>1 DEF Happens, vars
  <1>2. ASSUME NEW e \in Evaluators, Evaluating(e) PROVE FraudTypes'
    <2>1. CASE EvaluateUser(e) \/ RunScheduledScan(e) \/ EvaluationFails(e)
      <3>1. PICK s : /\ evaluator' = [evaluator EXCEPT ![e] = s]
                     /\ s.decision = 0 /\ s.at # "recorded"
        BY <2>1 DEF EvaluateUser, RunScheduledScan, EvaluationFails, Idle
      <3>2. UNCHANGED <<decisions, flags, riskFlags>>
        BY <2>1 DEF EvaluateUser, RunScheduledScan, EvaluationFails
      <3> QED BY <1>0, <3>1, <3>2
    <2>2. CASE RecordDecision(e)
      <3>1. PICK d \in Decision : decisions' = Append(decisions, d)
        BY <1>0, <2>2 DEF RecordDecision, Decision, Scores
      <3>2. /\ DOMAIN decisions' = DOMAIN decisions \cup {Len(decisions) + 1}
            /\ Len(decisions') = Len(decisions) + 1 /\ Len(decisions) \in Nat
        BY <1>0, <3>1
      <3>3. PICK s : /\ evaluator' = [evaluator EXCEPT ![e] = s]
                     /\ (s.decision = 0 /\ s.at # "recorded") \/ s.decision = Len(decisions) + 1
        <4> DEFINE s == IF TotalScore(evaluator[e].found) < ScoreThreshold
                             /\ actionFromScore(TotalScore(evaluator[e].found)) = "MONITOR"
                        THEN Idle
                        ELSE [at |-> "recorded", found |-> evaluator[e].found,
                              decision |-> Len(decisions) + 1]
        <4>1. evaluator' = [evaluator EXCEPT ![e] = s]
          BY <2>2 DEF RecordDecision
        <4>2. (s.decision = 0 /\ s.at # "recorded") \/ s.decision = Len(decisions) + 1
          BY DEF Idle
        <4> HIDE DEF s
        <4> QED BY <4>1, <4>2
      <3>4. Len(decisions) < MaxDecisions /\ UNCHANGED <<flags, riskFlags>>
        BY <2>2 DEF RecordDecision
      <3>5. \A c \in Evaluators :
              /\ evaluator'[c].decision \in {0} \cup DOMAIN decisions'
              /\ evaluator'[c].at = "recorded" => evaluator'[c].decision # 0
        BY <1>0, <3>2, <3>3
      <3> QED BY <1>0, <3>2, <3>4, <3>5
    <2>3. CASE InsertFraudFlag(e)
      <3> DEFINE points == TotalScore(evaluator[e].found)
                 new == [found |-> evaluator[e].found, score |-> points,
                         action |-> actionFromScore(points), decision |-> evaluator[e].decision,
                         by |-> "nobody", outcome |-> "none"]
      <3>1. new \in Flag /\ flags' = Append(flags, new)
        BY <1>0, <2>3 DEF InsertFraudFlag, Flag, Scores
      <3>2. new.decision = evaluator[e].decision
        OBVIOUS
      <3> HIDE DEF new
      <3>3. /\ DOMAIN flags' = DOMAIN flags \cup {Len(flags) + 1}
            /\ flags'[Len(flags) + 1] = new
            /\ \A f \in DOMAIN flags : flags'[f] = flags[f]
        BY <1>0, <3>1
      <3>4. /\ evaluator[e].at = "recorded" /\ riskFlags' = riskFlags \cup {Len(flags) + 1}
            /\ evaluator' = [evaluator EXCEPT ![e] = Idle] /\ UNCHANGED decisions
        BY <2>3 DEF InsertFraudFlag
      <3>5. Idle.decision = 0 /\ Idle.at # "recorded"
        BY DEF Idle
      <3>6. \A c \in Evaluators :
              /\ evaluator'[c].decision \in {0} \cup DOMAIN decisions'
              /\ evaluator'[c].at = "recorded" => evaluator'[c].decision # 0
        BY <1>0, <3>4, <3>5
      <3> QED BY <3>2, <3>3, <3>4, <3>6
    <2> QED BY <1>2, <2>1, <2>2, <2>3 DEF Evaluating
  <1>3. ASSUME NEW o \in Operators, Resolving(o) PROVE FraudTypes'
    <2>1. ASSUME NEW f \in 1 .. MaxFlags, NEW verdict \in Outcomes, ResolveFraudFlag(o, f, verdict)
          PROVE  FraudTypes'
      <3>1. /\ f \in DOMAIN flags /\ UNCHANGED <<decisions, evaluator, riskFlags>>
            /\ flags' = [flags EXCEPT ![f] = [flags[f] EXCEPT !.by = o, !.outcome = verdict]]
        BY <2>1 DEF ResolveFraudFlag
      <3>2. flags[f] \in Flag
        BY <1>0, <3>1
      <3>3. [flags[f] EXCEPT !.by = o, !.outcome = verdict].decision = flags[f].decision
        BY <3>2 DEF Flag
      <3>4. /\ DOMAIN flags' = DOMAIN flags
            /\ \A g \in DOMAIN flags : flags'[g].decision = flags[g].decision
        BY <1>0, <3>1, <3>3
      <3> QED BY <3>1, <3>4
    <2>2. CASE MarkDecision(o)
      <3>1. /\ \E d : \E s : decisions' = [decisions EXCEPT ![d] = s]
            /\ UNCHANGED <<evaluator, flags, riskFlags>>
        BY <2>2 DEF MarkDecision
      <3>2. decisions' \in Seq(Decision)
        BY <2>2, ResolvingKeepsFraudInv DEF Resolving, FraudInv, Shape
      <3>3. DOMAIN decisions' = DOMAIN decisions /\ Len(decisions') = Len(decisions)
        BY <1>0, <3>1, <3>2
      <3> QED BY <3>1, <3>3
    <2>3. CASE MarkFails(o)
      BY <2>3 DEF MarkFails
    <2> QED BY <1>3, <2>1, <2>2, <2>3 DEF Resolving
  <1> QED BY <1>1, <1>2, <1>3 DEF Next

LEMMA FraudTypesInit == ASSUME FraudAssumption, Init PROVE FraudTypes
  BY DEF FraudTypes, Init, Idle, FraudAssumption

LEMMA FraudIsTyped == ASSUME FraudAssumption, FraudInv, FraudTypes PROVE TypeOK
  <1> USE DEF FraudInv, Shape, FraudTypes
  <1>0. MaxDecisions \in Nat
    BY DEF FraudAssumption
  <1>1. evaluator \in [Evaluators -> [at : {"idle", "found", "recorded"},
                                      found : SUBSET (SignalFacts \cup PatternFacts),
                                      decision : 0 .. MaxDecisions]]
    <2>1. Len(decisions) \in Nat /\ DOMAIN decisions = 1 .. Len(decisions)
      OBVIOUS
    <2>2. \A e \in Evaluators : evaluator[e].decision \in 0 .. MaxDecisions
      BY <1>0, <2>1
    <2> QED BY <2>2 DEF Facts
  <1>2. ASSUME NEW d \in DOMAIN decisions PROVE decisions[d] \in [score : Nat, correct : BOOLEAN]
    <2>1. decisions[d] \in Decision
      OBVIOUS
    <2> QED BY <2>1, ScoresAreNumbers DEF Decision
  <1>3. ASSUME NEW f \in DOMAIN flags
        PROVE  flags[f] \in [found : SUBSET (SignalFacts \cup PatternFacts), score : Nat,
                             action : {"MONITOR", "FLAG", "SUSPEND"}, decision : DOMAIN decisions,
                             by : Operators \cup {"nobody"}, outcome : Outcomes \cup {"none"}]
    <2>1. flags[f] \in Flag /\ flags[f].decision \in DOMAIN decisions
      OBVIOUS
    <2>2. \A s : actionFromScore(s) \in {"MONITOR", "FLAG", "SUSPEND"}
      BY DEF actionFromScore
    <2>3. {actionFromScore(s) : s \in Scores} \subseteq {"MONITOR", "FLAG", "SUSPEND"}
      BY <2>2
    <2> QED BY <2>1, <2>3, ScoresAreNumbers DEF Flag, Facts
  <1>4. marking \in [Operators -> {0} \cup DOMAIN flags]
    OBVIOUS
  <1> QED BY <1>1, <1>2, <1>3, <1>4 DEF TypeOK, Facts

-----------------------------------------------------------------------------
(* The types of the outcome links.                                         *)

Counts == (0 .. MaxLogged) \X (0 .. MaxLogged)
BusyLinkers == {w \in Linkers : O!Busy(w)}

\* The inductive invariant, beside OutcomeInv: no count is of more than the log, and a job is
\* either queued or under way.
LinkTypes ==
  /\ Len(log) <= MaxLogged
  /\ \A i \in DOMAIN log : log[i].of \in 0 .. MaxLogged
  /\ dispute \in {O!None, "HUMAN_REVIEW", "RESOLVED"}
  /\ late \in {O!None, "MONITORING", "RESOLVED", "ESCALATED_TO_DISPUTE"}
  /\ breaks \in 0 .. MaxFaults
  /\ \A w \in Linkers : linker[w].stats \in Counts
  /\ calibration \in [O!AgentType -> Counts]
  /\ IsFiniteSet(BusyLinkers)
  /\ links \in Nat /\ scheduled \in 0 .. MaxLinks
  /\ links + Cardinality(BusyLinkers) <= scheduled

LEMMA StatsAreCounts ==
  ASSUME O!OutcomeAssumption, log \in Seq(LogEntry), Len(log) <= MaxLogged, NEW t \in O!AgentType
  PROVE  O!Stats(t) \in Counts
  <1> DEFINE judged == {i \in DOMAIN log : log[i].type = t /\ O!InBucket(log[i])
                                         /\ log[i].outcome # O!None}
             right == {i \in judged : log[i].outcome = "correct"}
  <1>1. IsFiniteSet(DOMAIN log) /\ Cardinality(DOMAIN log) <= MaxLogged
    <2>1. DOMAIN log = 1 .. Len(log) /\ Len(log) \in Nat
      OBVIOUS
    <2>2. IsFiniteSet(1 .. Len(log)) /\ Cardinality(1 .. Len(log)) = Len(log)
      BY <2>1, FS_Interval
    <2> QED BY <2>1, <2>2
  <1>2. judged \in SUBSET DOMAIN log /\ right \in SUBSET DOMAIN log
    OBVIOUS
  <1> HIDE DEF judged, right
  <1>3. /\ Cardinality(judged) \in Nat /\ Cardinality(judged) <= Cardinality(DOMAIN log)
        /\ Cardinality(right) \in Nat /\ Cardinality(right) <= Cardinality(DOMAIN log)
    BY <1>1, <1>2, FS_Subset, FS_CardinalityType
  <1>4. Cardinality(judged) \in 0 .. MaxLogged /\ Cardinality(right) \in 0 .. MaxLogged
    BY <1>1, <1>3, FS_CardinalityType DEF O!OutcomeAssumption
  <1>5. O!Stats(t) = <<Cardinality(judged), Cardinality(right)>>
    BY Zenon DEF O!Stats, O!Cardinality, Cardinality, judged, right
  <1> QED BY <1>4, <1>5 DEF Counts

LEMMA NoCounts == ASSUME O!OutcomeAssumption PROVE <<0, 0>> \in Counts /\ O!Idle.stats = <<0, 0>>
  BY DEF Counts, O!OutcomeAssumption, O!Idle

\* What the worker of a job does with it, and with the counts that it carries.
LinkerActs(w) ==
  /\ UNCHANGED <<scheduled, dispute, late>>
  /\ \A v \in Linkers : v # w => linker'[v] = linker[v]
  /\ linker'[w].stats \in {linker[w].stats, <<0, 0>>} \cup {O!Stats(t) : t \in O!AgentType}
  /\ \/ ~ O!Busy(w) /\ links > 0 /\ links' = links - 1 /\ UNCHANGED breaks
     \/ O!Busy(w) /\ links' = links /\ UNCHANGED breaks
     \/ O!Busy(w) /\ links' = links /\ breaks < MaxFaults /\ breaks' = breaks + 1
     \/ O!Busy(w) /\ links' = links + 1 /\ linker'[w] = O!Idle
          /\ breaks < MaxFaults /\ breaks' = breaks + 1
  /\ \/ UNCHANGED calibration
     \/ calibration' = [calibration EXCEPT ![linker[w].type] = linker[w].stats]
  /\ \/ UNCHANGED log
     \/ O!UpdateOutcome(w)

LEMMA WorkersAct ==
  ASSUME OutcomeInv, NEW w \in Linkers, O!Working(w) \/ O!LinkFails(w) \/ O!WorkerStops(w)
  PROVE  LinkerActs(w)
  <1>0. linker[w] \in LinkerState /\ linker \in [Linkers -> LinkerState]
    BY DEF OutcomeInv, OutcomeTypes
  <1>1. ASSUME NEW o, linker' = [linker EXCEPT ![w] = o]
        PROVE  linker'[w] = o /\ \A v \in Linkers : v # w => linker'[v] = linker[v]
    BY <1>0, <1>1
  <1>2. ASSUME NEW s PROVE [linker[w] EXCEPT !.step = s].stats = linker[w].stats
    BY <1>0 DEF LinkerState
  <1>3. CASE O!FindDecisionsByTransaction(w)
    <2> DEFINE o == [[O!Idle EXCEPT !.todo = O!Linkable] EXCEPT !.step = "evaluate"]
    <2>1. /\ UNCHANGED <<log, scheduled, dispute, late, calibration, breaks>> /\ ~ O!Busy(w)
          /\ links > 0 /\ links' = links - 1
          /\ linker' = linker \/ linker' = [linker EXCEPT ![w] = o]
      BY Zenon, <1>3 DEF O!FindDecisionsByTransaction, O!Continue
    <2>2. o.stats = <<0, 0>>
      BY DEF O!Idle
    <2> HIDE DEF o
    <2> QED BY <1>1, <2>1, <2>2 DEF LinkerActs
  <1>4. CASE O!Evaluate(w)
    <2> DEFINE i == O!Min(linker[w].todo)
               o == [[linker[w] EXCEPT !.todo = linker[w].todo \ {i}, !.at = i,
                                       !.outcome = O!evaluateDecision(i)] EXCEPT !.step = "link"]
    <2>1. /\ UNCHANGED <<log, links, scheduled, dispute, late, calibration, breaks>>
          /\ linker[w].step = "evaluate" /\ linker' = [linker EXCEPT ![w] = o]
      BY Zenon, <1>4 DEF O!Evaluate, O!Continue
    <2>2. o.stats = linker[w].stats
      <3> HIDE DEF i
      <3> QED BY <1>0 DEF LinkerState
    <2> HIDE DEF o
    <2> QED BY <1>1, <2>1, <2>2 DEF LinkerActs, O!Busy
  <1>5. CASE O!UpdateOutcome(w)
    <2> DEFINE o == [[linker[w] EXCEPT !.types = linker[w].types \cup {log[linker[w].at].type}]
                       EXCEPT !.step = "evaluate"]
    <2>1. /\ UNCHANGED <<links, scheduled, dispute, late, calibration, breaks>>
          /\ linker[w].step = "link" /\ linker' = [linker EXCEPT ![w] = o]
      BY Zenon, <1>5 DEF O!UpdateOutcome, O!Continue
    <2>2. o.stats = linker[w].stats
      BY <1>0 DEF LinkerState
    <2> HIDE DEF o
    <2> QED BY <1>1, <1>5, <2>1, <2>2 DEF LinkerActs, O!Busy
  <1>6. ASSUME NEW t \in O!AgentType, O!GetCalibrationStats(w, t) PROVE LinkerActs(w)
    <2> DEFINE o == [[linker[w] EXCEPT !.type = t, !.types = linker[w].types \ {t},
                                       !.stats = O!Stats(t)] EXCEPT !.step = "store"]
    <2>1. /\ UNCHANGED <<log, links, scheduled, dispute, late, calibration, breaks>>
          /\ linker[w].step = "evaluate" /\ linker' = [linker EXCEPT ![w] = o]
      BY Zenon, <1>6 DEF O!GetCalibrationStats, O!Continue
    <2>2. o.stats = O!Stats(t)
      BY <1>0 DEF LinkerState
    <2> HIDE DEF o
    <2> QED BY <1>1, <2>1, <2>2 DEF LinkerActs, O!Busy
  <1>7. CASE O!StoreCalibrationBucket(w)
    <2> DEFINE o == [linker[w] EXCEPT !.step = "evaluate"]
    <2>1. /\ UNCHANGED <<log, links, scheduled, dispute, late, breaks>> /\ linker[w].step = "store"
          /\ calibration' = [calibration EXCEPT ![linker[w].type] = linker[w].stats]
          /\ linker' = [linker EXCEPT ![w] = o]
      BY Zenon, <1>7 DEF O!StoreCalibrationBucket, O!Continue
    <2>2. o.stats = linker[w].stats
      BY <1>2
    <2> HIDE DEF o
    <2> QED BY <1>1, <2>1, <2>2 DEF LinkerActs, O!Busy
  <1>8. CASE O!Finish(w)
    <2>1. /\ UNCHANGED <<log, links, scheduled, dispute, late, calibration, breaks>>
          /\ linker[w].step = "evaluate" /\ linker' = [linker EXCEPT ![w] = O!Idle]
      BY <1>8 DEF O!Finish
    <2>2. O!Idle.stats = <<0, 0>>
      BY DEF O!Idle
    <2> QED BY <1>1, <2>1, <2>2 DEF LinkerActs, O!Busy
  <1>9. CASE O!LinkFails(w)
    <2> DEFINE o == [linker[w] EXCEPT !.step = "evaluate"]
    <2>1. /\ UNCHANGED <<log, links, scheduled, dispute, late, calibration>>
          /\ breaks < MaxFaults /\ breaks' = breaks + 1
          /\ linker[w].step = "link" /\ linker' = [linker EXCEPT ![w] = o]
      BY Zenon, <1>9 DEF O!LinkFails, O!Continue
    <2>2. o.stats = linker[w].stats
      BY <1>2
    <2> HIDE DEF o
    <2> QED BY <1>1, <2>1, <2>2 DEF LinkerActs, O!Busy
  <1>10. CASE O!WorkerStops(w)
    <2>1. /\ UNCHANGED <<log, scheduled, dispute, late, calibration>>
          /\ O!Busy(w) /\ links' = links + 1 /\ breaks < MaxFaults /\ breaks' = breaks + 1
          /\ linker' = [linker EXCEPT ![w] = O!Idle]
      BY <1>10 DEF O!WorkerStops
    <2>2. O!Idle.stats = <<0, 0>>
      BY DEF O!Idle
    <2> QED BY <1>1, <2>1, <2>2 DEF LinkerActs
  <1> QED BY <1>3, <1>4, <1>5, <1>6, <1>7, <1>8, <1>9, <1>10 DEF O!Working

\* A judgement leaves the rest of the log as it is.
LEMMA JudgingKeepsRows ==
  ASSUME OutcomeInv, NEW w \in Linkers, O!UpdateOutcome(w)
  PROVE  /\ Len(log') = Len(log) /\ DOMAIN log' = DOMAIN log
         /\ \A i \in DOMAIN log : log'[i].of = log[i].of
  <1> DEFINE at == linker[w].at
             judged == [log[at] EXCEPT !.outcome = linker[w].outcome]
  <1>1. log' = [log EXCEPT ![at] = judged] /\ linker[w].step = "link"
    BY Zenon DEF O!UpdateOutcome
  <1>2. log \in Seq(LogEntry) /\ at \in DOMAIN log
    BY <1>1 DEF OutcomeInv, OutcomeTypes, LinkerRefs
  <1>3. log' \in Seq(LogEntry)
    BY OutcomeOfUpdate DEF OutcomeInv, OutcomeTypes
  <1> HIDE DEF at
  <1>4. log[at] \in LogEntry
    BY <1>2
  <1>5. judged.of = log[at].of
    BY <1>4 DEF LogEntry
  <1> HIDE DEF judged
  <1>6. DOMAIN log' = DOMAIN log /\ \A i \in DOMAIN log : log'[i] = IF i = at THEN judged ELSE log[i]
    BY <1>1, <1>2
  <1>7. Len(log') = Len(log)
    BY <1>2, <1>3, <1>6
  <1> QED BY <1>5, <1>6, <1>7

LEMMA LinkTypesByLinker ==
  ASSUME O!OutcomeAssumption, OutcomeInv, LinkTypes, NEW w \in Linkers, LinkerActs(w)
  PROVE  LinkTypes'
  <1>0. /\ log \in Seq(LogEntry) /\ linker \in [Linkers -> LinkerState]
        /\ linker[w].type \in O!AgentType /\ linker[w].stats \in Counts
    BY DEF OutcomeInv, OutcomeTypes, LinkerState, LinkTypes
  <1>1. Len(log') <= MaxLogged /\ \A i \in DOMAIN log' : log'[i].of \in 0 .. MaxLogged
    BY JudgingKeepsRows DEF LinkerActs, LinkTypes
  <1>2. \A v \in Linkers : linker'[v].stats \in Counts
    <2>1. \A t \in O!AgentType : O!Stats(t) \in Counts
      BY <1>0, StatsAreCounts DEF LinkTypes
    <2>2. linker'[w].stats \in Counts
      BY <1>0, <2>1, NoCounts DEF LinkerActs
    <2> QED BY <2>2 DEF LinkerActs, LinkTypes
  <1>3. calibration' \in [O!AgentType -> Counts]
    BY <1>0 DEF LinkerActs, LinkTypes
  <1>4. breaks' \in 0 .. MaxFaults
    BY DEF LinkerActs, LinkTypes, O!OutcomeAssumption
  <1>5. IsFiniteSet(BusyLinkers) /\ Cardinality(BusyLinkers) \in Nat
    BY FS_CardinalityType DEF LinkTypes
  <1>6. /\ IsFiniteSet(BusyLinkers') /\ links' \in Nat
        /\ links' + Cardinality(BusyLinkers') <= scheduled
    <2>1. CASE ~ O!Busy(w) /\ links > 0 /\ links' = links - 1
      <3>1. BusyLinkers' \subseteq BusyLinkers \cup {w} /\ w \notin BusyLinkers
        BY <2>1 DEF BusyLinkers, LinkerActs, O!Busy
      <3>2. /\ IsFiniteSet(BusyLinkers \cup {w})
            /\ Cardinality(BusyLinkers \cup {w}) = Cardinality(BusyLinkers) + 1
        BY <1>5, <3>1, FS_AddElement
      <3>3. /\ IsFiniteSet(BusyLinkers') /\ Cardinality(BusyLinkers') \in Nat
            /\ Cardinality(BusyLinkers') <= Cardinality(BusyLinkers) + 1
        BY <3>1, <3>2, FS_Subset, FS_CardinalityType
      <3> QED BY <1>5, <2>1, <3>3 DEF LinkTypes
    <2>2. CASE O!Busy(w) /\ links' = links
      <3>1. BusyLinkers' \subseteq BusyLinkers
        BY <2>2 DEF BusyLinkers, LinkerActs, O!Busy
      <3>2. /\ IsFiniteSet(BusyLinkers') /\ Cardinality(BusyLinkers') \in Nat
            /\ Cardinality(BusyLinkers') <= Cardinality(BusyLinkers)
        BY <1>5, <3>1, FS_Subset, FS_CardinalityType
      <3> QED BY <1>5, <2>2, <3>2 DEF LinkTypes
    <2>3. CASE O!Busy(w) /\ links' = links + 1 /\ linker'[w] = O!Idle
      <3>1. BusyLinkers' = BusyLinkers \ {w} /\ w \in BusyLinkers
        BY <2>3, IdleLinker DEF BusyLinkers, LinkerActs, O!Busy
      <3>2. /\ IsFiniteSet(BusyLinkers \ {w})
            /\ Cardinality(BusyLinkers \ {w}) = Cardinality(BusyLinkers) - 1
        BY <1>5, <3>1, FS_RemoveElement
      <3>3. IsFiniteSet(BusyLinkers') /\ Cardinality(BusyLinkers') = Cardinality(BusyLinkers) - 1
        BY <3>1, <3>2
      <3> QED BY <1>5, <2>3, <3>3 DEF LinkTypes
    <2> QED BY <2>1, <2>2, <2>3 DEF LinkerActs
  <1> QED BY <1>1, <1>2, <1>3, <1>4, <1>6 DEF LinkTypes, LinkerActs

\* Who writes a decision appends one that is of another row or of none.
LEMMA LogGrows ==
  ASSUME O!OutcomeAssumption, OutcomeInv, LinkTypes,
         \/ \E b \in BOOLEAN : O!DisputeDecided(b) \/ O!LateReturnDecided(b)
         \/ \E a \in {"APPROVE", "OVERRIDE"} : O!ResolveByHuman(a)
         \/ O!RiskScored
  PROVE  Len(log') <= MaxLogged /\ \A i \in DOMAIN log' : log'[i].of \in 0 .. MaxLogged
  <1>0. log \in Seq(LogEntry) /\ MaxLogged \in Nat
    BY DEF OutcomeInv, OutcomeTypes, O!OutcomeAssumption
  <1>1. PICK d : log' = Append(log, d) /\ d.of \in {0} \cup DOMAIN log /\ Len(log) < MaxLogged
    <2>1. \A type, of, action : O!Decision(type, of, action).of = of
      BY DEF O!Decision
    <2> QED BY <2>1 DEF O!DisputeDecided, O!LateReturnDecided, O!ResolveByHuman, O!RiskScored, O!RecordDecision
  <1>2. /\ DOMAIN log' = DOMAIN log \cup {Len(log) + 1} /\ Len(log') = Len(log) + 1
        /\ log'[Len(log) + 1] = d /\ \A i \in DOMAIN log : log'[i] = log[i]
        /\ DOMAIN log = 1 .. Len(log) /\ Len(log) \in Nat
    BY <1>0, <1>1
  <1>3. d.of \in 0 .. MaxLogged
    BY <1>0, <1>1, <1>2
  <1> QED BY <1>0, <1>1, <1>2, <1>3 DEF LinkTypes

LEMMA LinkTypesStep ==
  ASSUME O!OutcomeAssumption, OutcomeInv, LinkTypes, [O!Next]_outcome
  PROVE  LinkTypes'
  <1>1. CASE \E w \in Linkers : O!Working(w) \/ O!LinkFails(w) \/ O!WorkerStops(w)
    BY <1>1, WorkersAct, LinkTypesByLinker
  <1>2. ASSUME UNCHANGED linker PROVE BusyLinkers' = BusyLinkers
    BY <1>2 DEF BusyLinkers, O!Busy
  <1>3. Cardinality(BusyLinkers) \in Nat
    BY FS_CardinalityType DEF LinkTypes
  <1>4. CASE UNCHANGED outcome
    BY <1>2, <1>4 DEF LinkTypes, outcome
  <1>5. CASE \/ \E b \in BOOLEAN : O!DisputeDecided(b) \/ O!LateReturnDecided(b)
             \/ \E a \in {"APPROVE", "OVERRIDE"} : O!ResolveByHuman(a)
             \/ O!RiskScored \/ O!CheckOut
    <2>1. UNCHANGED <<linker, calibration, breaks>>
      BY <1>5 DEF O!DisputeDecided, O!LateReturnDecided, O!ResolveByHuman, O!RiskScored, O!CheckOut
    <2>2. \/ UNCHANGED <<links, scheduled>>
          \/ links' = links + 1 /\ scheduled' = scheduled + 1 /\ scheduled < MaxLinks
      BY <1>5 DEF O!DisputeDecided, O!LateReturnDecided, O!ResolveByHuman, O!RiskScored, O!CheckOut,
                  O!ScheduleOutcomeLink
    <2>3. /\ links' \in Nat /\ scheduled' \in 0 .. MaxLinks
          /\ links' + Cardinality(BusyLinkers) <= scheduled'
      BY <1>3, <2>2 DEF LinkTypes, O!OutcomeAssumption
    <2>4. /\ dispute' \in {O!None, "HUMAN_REVIEW", "RESOLVED"}
          /\ late' \in {O!None, "MONITORING", "RESOLVED", "ESCALATED_TO_DISPUTE"}
      BY <1>5 DEF LinkTypes, O!DisputeDecided, O!LateReturnDecided, O!ResolveByHuman, O!RiskScored, O!CheckOut
    <2>5. Len(log') <= MaxLogged /\ \A i \in DOMAIN log' : log'[i].of \in 0 .. MaxLogged
      <3>1. CASE O!CheckOut
        BY <3>1 DEF O!CheckOut, LinkTypes
      <3> QED BY <1>5, <3>1, LogGrows
    <2> QED BY <1>2, <2>1, <2>3, <2>4, <2>5 DEF LinkTypes
  <1> QED BY Zenon, <1>1, <1>4, <1>5 DEF O!Next

LEMMA LinkTypesInit == ASSUME O!OutcomeAssumption, O!Init PROVE LinkTypes
  <1>1. BusyLinkers = {}
    BY IdleLinker DEF BusyLinkers, O!Init, O!Busy
  <1>2. IsFiniteSet(BusyLinkers) /\ Cardinality(BusyLinkers) = 0
    BY <1>1, FS_EmptySet
  <1> QED BY <1>2, NoCounts DEF LinkTypes, O!Init, O!OutcomeAssumption

LEMMA OutcomeIsTyped == ASSUME O!OutcomeAssumption, OutcomeInv, LinkTypes PROVE O!TypeOK
  <1>1. links \in 0 .. MaxLinks
    BY FS_CardinalityType DEF LinkTypes, O!OutcomeAssumption
  <1>2. \A i \in DOMAIN log : log[i] \in LogEntry
    BY DEF OutcomeInv, OutcomeTypes
  <1>3. \A w \in Linkers : linker[w].step \in {"idle", "evaluate", "link", "stats", "store"}
    BY DEF OutcomeInv, OutcomeTypes, LinkerState
  <1>4. \A i \in DOMAIN log :
          /\ log[i].type \in O!LogType /\ log[i].of \in 0 .. MaxLogged
          /\ log[i].action \in {O!None, "APPROVE", "OVERRIDE"}
          /\ log[i].outcome \in {O!None, "correct", "incorrect"}
    BY <1>2 DEF LinkTypes, LogEntry, Judgement
  <1>5. calibration \in [O!AgentType -> (0 .. MaxLogged) \X (0 .. MaxLogged)] /\ disturbed \in BOOLEAN
    BY DEF LinkTypes, Counts, OutcomeInv, OutcomeTypes
  <1> QED BY <1>1, <1>3, <1>4, <1>5 DEF LinkTypes, O!TypeOK

-----------------------------------------------------------------------------
(* The types of the identity checks.  That there is room for every attempt *)
(* is the point: sessions are opened by the user and replaced by the       *)
(* timeout, each by one other and no more than MaxRetries times.           *)

Row == [status : V!VerificationStatus, retries : 0 .. MaxRetries]

\* Rows are added and marked; a row that was resolved is never pending again.
RowsKept ==
  /\ attempts' \in Seq(Row) /\ Len(attempts') \in Nat /\ Len(attempts) <= Len(attempts')
  /\ DOMAIN attempts \subseteq DOMAIN attempts'
  /\ \A n \in DOMAIN attempts :
       /\ attempts'[n].retries = attempts[n].retries
       /\ attempts[n].status # "PENDING" => attempts'[n].status # "PENDING"

LEMMA RowsRest == ASSUME attempts \in Seq(Row), UNCHANGED attempts PROVE RowsKept
  BY DEF RowsKept

LEMMA RowMarked ==
  ASSUME attempts \in Seq(Row), NEW n \in DOMAIN attempts,
         NEW status \in V!VerificationStatus \ {"PENDING"}, V!UpdateStatus(n, status)
  PROVE  /\ RowsKept /\ Len(attempts') = Len(attempts) /\ DOMAIN attempts' = DOMAIN attempts
         /\ attempts'[n].status # "PENDING"
  <1> DEFINE row == [attempts[n] EXCEPT !.status = status]
  <1>1. attempts' = [attempts EXCEPT ![n] = row]
    BY DEF V!UpdateStatus
  <1>2. attempts[n] \in Row
    OBVIOUS
  <1>3. row \in Row /\ row.status = status /\ row.retries = attempts[n].retries
    BY <1>2 DEF Row
  <1> HIDE DEF row
  <1>4. attempts \in [1 .. Len(attempts) -> Row] /\ Len(attempts) \in Nat
        /\ DOMAIN attempts = 1 .. Len(attempts)
    OBVIOUS
  <1>5. attempts' \in [1 .. Len(attempts) -> Row]
    BY <1>1, <1>3, <1>4
  <1>6. attempts' \in Seq(Row) /\ Len(attempts') = Len(attempts) /\ DOMAIN attempts' = DOMAIN attempts
    BY <1>4, <1>5
  <1>7. \A m \in DOMAIN attempts : attempts'[m] = IF m = n THEN row ELSE attempts[m]
    BY <1>1, <1>4
  <1> QED BY <1>3, <1>4, <1>6, <1>7 DEF RowsKept

LEMMA RowAdded ==
  ASSUME attempts \in Seq(Row), NEW k \in 0 .. MaxRetries, V!Insert(k)
  PROVE  /\ RowsKept /\ DOMAIN attempts' = DOMAIN attempts \cup {Len(attempts) + 1}
         /\ Len(attempts') = Len(attempts) + 1 /\ Len(attempts) + 1 \notin DOMAIN attempts
         /\ attempts'[Len(attempts) + 1].retries = k
         /\ \A n \in DOMAIN attempts : attempts'[n] = attempts[n]
  <1> DEFINE row == [status |-> "PENDING", retries |-> k]
  <1>1. row \in Row /\ row.retries = k /\ attempts' = Append(attempts, row)
    BY DEF V!Insert, Row, V!VerificationStatus
  <1> HIDE DEF row
  <1>2. /\ attempts' \in Seq(Row) /\ Len(attempts') = Len(attempts) + 1 /\ Len(attempts) \in Nat
        /\ DOMAIN attempts' = DOMAIN attempts \cup {Len(attempts) + 1}
        /\ Len(attempts) + 1 \notin DOMAIN attempts
        /\ attempts'[Len(attempts) + 1] = row /\ \A n \in DOMAIN attempts : attempts'[n] = attempts[n]
    BY <1>1
  <1> QED BY <1>1, <1>2 DEF RowsKept

LEMMA RetriesAreNumbers ==
  ASSUME attempts \in Seq(Row)
  PROVE  \A n \in DOMAIN attempts : attempts[n].retries \in Int
  <1> SUFFICES ASSUME NEW n \in DOMAIN attempts PROVE attempts[n].retries \in Int
    OBVIOUS
  <1>1. attempts[n] \in Row
    OBVIOUS
  <1> QED BY <1>1 DEF Row

StarterTypes ==
  /\ starter \in [Starters -> {"idle", "session", "queue"} \X Nat]
  /\ \A s \in Starters : /\ starter[s][2] \in {0} \cup DOMAIN attempts
                         /\ starter[s][1] = "queue" => starter[s][2] # 0

StripeTypes ==
  /\ events \subseteq (DOMAIN attempts) \X V!EventKind
  /\ deliveries \in 0 .. MaxDeliveries
  /\ timers \subseteq DOMAIN attempts
  /\ faults \in 0 .. MaxFaults
  /\ overlapped \in BOOLEAN

HandlerTypes ==
  /\ identity \in V!IdentityStatus
  /\ \A h \in Handlers :
       /\ handler[h].session \in {0} \cup DOMAIN attempts /\ handler[h].prev \in V!IdentityStatus
       /\ handler[h].step = "attempt" => handler[h].session # 0 /\ handler[h].status # "PENDING"
       /\ handler[h].step = "profile" => handler[h].status = "VERIFIED"
       /\ handler[h].step = "identity" => handler[h].status \in {"VERIFIED", "REJECTED"}

TimeoutTypes ==
  /\ timeout \in [step : {"idle", "escalate", "cancel", "insert", "queue"}, session : Nat, next : Nat]
  /\ timeout.session \in {0} \cup DOMAIN attempts /\ timeout.next \in {0} \cup DOMAIN attempts
  /\ timeout.step # "idle" => timeout.session # 0
  /\ timeout.step = "queue" => timeout.next # 0
  /\ timeout.step \in {"cancel", "insert"} => attempts[timeout.session].retries < MaxRetries
  /\ timeout.step = "insert" => attempts[timeout.session].status # "PENDING"

\* Of the sessions that replaced one another, root[n] is the one the user opened.
Replaces(root) ==
  /\ root \in [DOMAIN attempts -> DOMAIN attempts]
  /\ \A n \in DOMAIN attempts : attempts[root[n]].retries = 0
  /\ \A m, n \in DOMAIN attempts :
       root[m] = root[n] /\ attempts[m].retries = attempts[n].retries => m = n
  /\ \A m, n \in DOMAIN attempts :
       root[m] = root[n] /\ attempts[m].retries < attempts[n].retries => attempts[m].status # "PENDING"
  /\ timeout.step \in {"cancel", "insert"} =>
       \A m \in DOMAIN attempts :
         root[m] = root[timeout.session] => attempts[m].retries <= attempts[timeout.session].retries

Opened == {n \in DOMAIN attempts : attempts[n].retries = 0}
Opening == {s \in Starters : starter[s][1] = "session"}
\* What StartReads counts.
RoomToOpen == Cardinality(Opened) + Cardinality(Opening) <= MaxStarts

VerificationTypes ==
  /\ attempts \in Seq(Row)
  /\ StarterTypes /\ StripeTypes /\ HandlerTypes /\ TimeoutTypes
  /\ \E root : Replaces(root)
  /\ RoomToOpen

LEMMA OpenedAreFinite ==
  ASSUME V!VerificationAssumption, attempts \in Seq(Row)
  PROVE  /\ IsFiniteSet(Opened) /\ Cardinality(Opened) \in Nat
         /\ IsFiniteSet(Opening) /\ Cardinality(Opening) \in Nat
  <1>1. IsFiniteSet(DOMAIN attempts)
    <2>1. DOMAIN attempts = 1 .. Len(attempts) /\ Len(attempts) \in Nat
      OBVIOUS
    <2>2. IsFiniteSet(1 .. Len(attempts))
      BY <2>1, FS_Interval
    <2> QED BY <2>1, <2>2
  <1>2. IsFiniteSet(Starters)
    BY Zenon DEF V!VerificationAssumption, V!IsFiniteSet, IsFiniteSet
  <1>3. Opened \in SUBSET DOMAIN attempts /\ Opening \in SUBSET Starters
    BY DEF Opened, Opening
  <1> QED BY <1>1, <1>2, <1>3, FS_Subset, FS_CardinalityType

LEMMA CountsOfStarted == V!Started = Cardinality(Opened) + Cardinality(Opening)
  BY Zenon DEF V!Started, V!Cardinality, Cardinality, Opened, Opening

\* Without a new row the replacements are what they were.
LEMMA ReplacesStays ==
  ASSUME attempts \in Seq(Row), RowsKept, DOMAIN attempts' = DOMAIN attempts,
         NEW root, Replaces(root), TimeoutTypes,
         timeout'.step \in {"cancel", "insert"} =>
           /\ timeout'.session \in DOMAIN attempts
           /\ \/ timeout.step \in {"cancel", "insert"} /\ timeout'.session = timeout.session
              \/ attempts[timeout'.session].status = "PENDING"
  PROVE  Replaces(root)'
  <1>1. /\ root \in [DOMAIN attempts -> DOMAIN attempts]
        /\ \A n \in DOMAIN attempts : attempts[n].retries \in Int
    BY RetriesAreNumbers DEF Replaces
  <1>2. \A n \in DOMAIN attempts : attempts'[root[n]].retries = 0
    BY <1>1 DEF Replaces, RowsKept
  <1>3. \A m, n \in DOMAIN attempts :
          root[m] = root[n] /\ attempts'[m].retries = attempts'[n].retries => m = n
    BY DEF Replaces, RowsKept
  <1>4. \A m, n \in DOMAIN attempts :
          root[m] = root[n] /\ attempts'[m].retries < attempts'[n].retries => attempts'[m].status # "PENDING"
    BY DEF Replaces, RowsKept
  <1>5. ASSUME timeout'.step \in {"cancel", "insert"}, NEW m \in DOMAIN attempts,
               root[m] = root[timeout'.session]
        PROVE  attempts'[m].retries <= attempts'[timeout'.session].retries
    <2>1. attempts[m].retries <= attempts[timeout'.session].retries
      <3>1. CASE timeout.step \in {"cancel", "insert"} /\ timeout'.session = timeout.session
        BY <1>5, <3>1 DEF Replaces
      <3>2. CASE attempts[timeout'.session].status = "PENDING"
        BY <1>1, <1>5, <3>2 DEF Replaces
      <3> QED BY <1>5, <3>1, <3>2
    <2> QED BY <1>5, <2>1 DEF RowsKept
  <1> QED BY <1>1, <1>2, <1>3, <1>4, <1>5 DEF Replaces

\* Without a session opened the count stays; nothing else adds a row with no retries.
LEMMA RoomStays ==
  ASSUME V!VerificationAssumption, attempts \in Seq(Row), RowsKept, RoomToOpen,
         \/ DOMAIN attempts' = DOMAIN attempts
         \/ /\ DOMAIN attempts' = DOMAIN attempts \cup {Len(attempts) + 1}
            /\ attempts'[Len(attempts) + 1].retries # 0,
         Opening' \subseteq Opening
  PROVE  RoomToOpen'
  <1>1. Opened' = Opened
    BY DEF Opened, RowsKept
  <1>2. Cardinality(Opening') <= Cardinality(Opening) /\ Cardinality(Opening') \in Nat
    BY OpenedAreFinite, FS_Subset, FS_CardinalityType
  <1> QED BY <1>1, <1>2, OpenedAreFinite DEF RoomToOpen, V!VerificationAssumption

\* Who knows a session goes on knowing it.
LEMMA StartersRest ==
  ASSUME RowsKept, StarterTypes, UNCHANGED starter
  PROVE  StarterTypes' /\ Opening' = Opening
  BY DEF RowsKept, StarterTypes, Opening

LEMMA StripeRests ==
  ASSUME RowsKept, StripeTypes, UNCHANGED <<events, deliveries>>, timers' \subseteq DOMAIN attempts',
         faults' \in 0 .. MaxFaults, overlapped' \in BOOLEAN
  PROVE  StripeTypes'
  BY DEF RowsKept, StripeTypes

LEMMA HandlersRest ==
  ASSUME RowsKept, HandlerTypes, UNCHANGED <<identity, handler>>
  PROVE  HandlerTypes'
  BY DEF RowsKept, HandlerTypes

LEMMA TimeoutRests ==
  ASSUME RowsKept, TimeoutTypes, UNCHANGED timeout
  PROVE  TimeoutTypes'
  BY DEF RowsKept, TimeoutTypes

LEMMA FaultCounts ==
  ASSUME V!VerificationAssumption, faults \in 0 .. MaxFaults, NEW fault, V!Fault(fault)
  PROVE  faults' \in 0 .. MaxFaults
  BY DEF V!VerificationAssumption, V!Fault

-----------------------------------------------------------------------------

LEMMA TypesByStarter ==
  ASSUME V!VerificationAssumption, VerificationTypes, NEW s \in Starters, V!Starting(s)
  PROVE  VerificationTypes'
  <1> USE DEF VerificationTypes
  <1>0. /\ faults \in 0 .. MaxFaults /\ overlapped \in BOOLEAN /\ timers \subseteq DOMAIN attempts
        /\ starter \in [Starters -> {"idle", "session", "queue"} \X Nat]
        /\ MaxRetries \in Nat /\ MaxStarts \in Nat
    BY DEF StripeTypes, StarterTypes, V!VerificationAssumption
  <1>1. UNCHANGED <<identity, events, deliveries, handler, timeout, overlapped>>
    BY DEF V!Starting, V!StartReads, V!StartInserts, V!StartQueues, V!StartStops, V!history
  <1>2. CASE V!StartReads(s) \/ V!StartQueues(s) \/ V!StartStops(s)
    <2>1. UNCHANGED attempts
      BY <1>2 DEF V!StartReads, V!StartQueues, V!StartStops
    <2>2. RowsKept
      BY <2>1, RowsRest
    <2>3. timers' \subseteq DOMAIN attempts'
      BY <1>0, <1>2, <2>1 DEF V!StartReads, V!StartQueues, V!StartStops, StarterTypes
    <2>4. faults' \in 0 .. MaxFaults
      BY <1>0, <1>2, FaultCounts DEF V!StartReads, V!StartQueues, V!StartStops
    <2>5. PICK o \in {<<"session", 0>>, <<"idle", 0>>} : starter' = [starter EXCEPT ![s] = o]
      BY <1>2 DEF V!StartReads, V!StartQueues, V!StartStops
    <2>6. StarterTypes'
      <3>1. o \in {"idle", "session", "queue"} \X Nat /\ o[2] = 0 /\ o[1] # "queue"
        BY <2>5
      <3> QED BY <1>0, <2>1, <2>5, <3>1 DEF StarterTypes
    <2>7. RoomToOpen'
      <3>1. CASE V!StartReads(s)
        <4>1. Cardinality(Opened) + Cardinality(Opening) < MaxStarts
          BY <3>1, CountsOfStarted DEF V!StartReads
        <4>2. Opening' = Opening \cup {s} /\ s \notin Opening
          BY <1>0, <3>1 DEF Opening, V!StartReads
        <4>3. Cardinality(Opening') = Cardinality(Opening) + 1
          BY <4>2, OpenedAreFinite, FS_AddElement
        <4>4. Opened' = Opened
          BY <2>1 DEF Opened
        <4> QED BY <1>0, <4>1, <4>3, <4>4, OpenedAreFinite DEF RoomToOpen
      <3>2. CASE V!StartQueues(s) \/ V!StartStops(s)
        <4>1. Opening' \subseteq Opening
          BY <1>0, <3>2 DEF Opening, V!StartQueues, V!StartStops
        <4>2. DOMAIN attempts' = DOMAIN attempts
          BY <2>1
        <4>3. attempts \in Seq(Row) /\ RoomToOpen
          OBVIOUS
        <4> QED BY ONLY V!VerificationAssumption, <2>2, <4>1, <4>2, <4>3, RoomStays, Zenon
      <3> QED BY <1>2, <3>1, <3>2
    <2>8. (\E root : Replaces(root))'
      BY <1>1, <2>1 DEF Replaces
    <2> QED BY <1>0, <1>1, <2>1, <2>2, <2>3, <2>4, <2>6, <2>7, <2>8, StripeRests, HandlersRest, TimeoutRests
  <1>3. CASE V!StartInserts(s)
    <2> DEFINE new == Len(attempts) + 1
    <2>1. /\ starter[s][1] = "session" /\ V!Insert(0) /\ UNCHANGED <<timers, faults>>
          /\ starter' = [starter EXCEPT ![s] = <<"queue", new>>]
      BY <1>3 DEF V!StartInserts
    <2>2. /\ RowsKept /\ DOMAIN attempts' = DOMAIN attempts \cup {new}
          /\ new \notin DOMAIN attempts /\ new \in Nat /\ new # 0
          /\ attempts'[new].retries = 0
          /\ \A n \in DOMAIN attempts : attempts'[n] = attempts[n]
      <3>1. 0 \in 0 .. MaxRetries
        BY <1>0
      <3>2. Len(attempts) \in Nat
        OBVIOUS
      <3>3. attempts \in Seq(Row) /\ V!Insert(0)
        BY <2>1
      <3>4. /\ RowsKept /\ DOMAIN attempts' = DOMAIN attempts \cup {Len(attempts) + 1}
            /\ Len(attempts) + 1 \notin DOMAIN attempts
            /\ attempts'[Len(attempts) + 1].retries = 0
            /\ \A n \in DOMAIN attempts : attempts'[n] = attempts[n]
        BY ONLY <3>1, <3>3, RowAdded
      <3> QED BY ONLY <3>2, <3>4 DEF new
    <2> HIDE DEF new
    <2>3. timers' \subseteq DOMAIN attempts'
      BY <1>0, <2>1, <2>2
    <2>4. StarterTypes'
      <3>1. <<"queue", new>> \in {"idle", "session", "queue"} \X Nat
        BY <2>2
      <3>2. starter' \in [Starters -> {"idle", "session", "queue"} \X Nat]
        BY <1>0, <2>1, <3>1
      <3>3. starter'[s] = <<"queue", new>> /\ \A r \in Starters : r # s => starter'[r] = starter[r]
        BY <1>0, <2>1
      <3>4. starter'[s][2] = new /\ new \in DOMAIN attempts'
        BY <2>2, <3>3
      <3>5. ASSUME NEW r \in Starters
            PROVE  /\ starter'[r][2] \in {0} \cup DOMAIN attempts'
                   /\ starter'[r][1] = "queue" => starter'[r][2] # 0
        BY <2>2, <3>3, <3>4, <3>5 DEF StarterTypes
      <3> QED BY <3>2, <3>5 DEF StarterTypes
    <2>5. RoomToOpen'
      <3>1. Opening' = Opening \ {s} /\ s \in Opening
        BY <1>0, <2>1 DEF Opening
      <3>2. Opened' = Opened \cup {new} /\ new \notin Opened
        BY <2>2 DEF Opened
      <3>3. Cardinality(Opening \ {s}) = Cardinality(Opening) - 1
        BY <3>1, OpenedAreFinite, FS_RemoveElement
      <3>4. Cardinality(Opened \cup {new}) = Cardinality(Opened) + 1
        BY <3>2, OpenedAreFinite, FS_AddElement
      <3> QED BY <1>0, <3>1, <3>2, <3>3, <3>4, OpenedAreFinite DEF RoomToOpen
    <2>6. (\E root : Replaces(root))'
      <3>1. PICK root : Replaces(root)
        OBVIOUS
      <3>2. PICK next \in [DOMAIN attempts' -> DOMAIN attempts'] :
              /\ next[new] = new
              /\ \A n \in DOMAIN attempts : next[n] = root[n] /\ next[n] \in DOMAIN attempts
        <4> DEFINE f == [n \in DOMAIN attempts' |-> IF n = new THEN new ELSE root[n]]
        <4>1. /\ f \in [DOMAIN attempts' -> DOMAIN attempts'] /\ f[new] = new
              /\ \A n \in DOMAIN attempts : f[n] = root[n] /\ f[n] \in DOMAIN attempts
          BY <2>2, <3>1 DEF Replaces
        <4> HIDE DEF f
        <4> QED BY <4>1
      <3>3. \A n \in DOMAIN attempts' : attempts'[next[n]].retries = 0
        BY <2>2, <3>1, <3>2 DEF Replaces
      <3>4. \A n \in DOMAIN attempts : next[n] # new
        BY <2>2, <3>2
      <3>5. \A m, n \in DOMAIN attempts' :
              next[m] = next[n] => (m = n) \/ (m \in DOMAIN attempts /\ n \in DOMAIN attempts)
        BY <2>2, <3>2, <3>4
      <3>6. \A m, n \in DOMAIN attempts' :
              next[m] = next[n] /\ attempts'[m].retries = attempts'[n].retries => m = n
        BY <2>2, <3>1, <3>2, <3>5 DEF Replaces
      <3>7. \A m, n \in DOMAIN attempts' :
              next[m] = next[n] /\ attempts'[m].retries < attempts'[n].retries
                => attempts'[m].status # "PENDING"
        <4> SUFFICES ASSUME NEW m \in DOMAIN attempts', NEW n \in DOMAIN attempts', next[m] = next[n],
                            attempts'[m].retries < attempts'[n].retries
                     PROVE  attempts'[m].status # "PENDING"
          OBVIOUS
        <4>1. m # n
          <5>1. attempts' \in Seq(Row)
            BY <2>2 DEF RowsKept
          <5>2. attempts'[m] \in Row
            BY <5>1
          <5>3. attempts'[m].retries \in Int
            BY <5>2 DEF Row
          <5> QED BY <5>3
        <4> QED BY <2>2, <3>1, <3>2, <3>5, <4>1 DEF Replaces
      <3>8. ASSUME timeout'.step \in {"cancel", "insert"}, NEW m \in DOMAIN attempts',
                   next[m] = next[timeout'.session]
            PROVE  attempts'[m].retries <= attempts'[timeout'.session].retries
        <4>1. timeout'.session \in DOMAIN attempts /\ timeout' = timeout
          BY <1>1, <3>8 DEF TimeoutTypes
        <4>2. m \in DOMAIN attempts
          BY <2>2, <3>2, <3>4, <3>8, <4>1
        <4> QED BY <2>2, <3>1, <3>2, <3>8, <4>1, <4>2 DEF Replaces
      <3>9. Replaces(next)'
        BY <3>2, <3>3, <3>6, <3>7, <3>8 DEF Replaces
      <3> QED BY <3>9
    <2> QED BY <1>0, <1>1, <2>1, <2>2, <2>3, <2>4, <2>5, <2>6, StripeRests, HandlersRest, TimeoutRests
            DEF RowsKept
  <1> QED BY <1>2, <1>3 DEF V!Starting

LEMMA TypesByStripe ==
  ASSUME V!VerificationAssumption, VerificationTypes,
         NEW n \in V!Sessions, NEW event \in V!EventKind, V!StripeReports(n, event)
  PROVE  VerificationTypes'
  <1> USE DEF VerificationTypes
  <1>1. /\ UNCHANGED <<attempts, identity, deliveries, timers, handler, starter, timeout, faults, overlapped>>
        /\ n \in DOMAIN attempts /\ events' = events \cup {<<n, event>>}
    BY DEF V!StripeReports, V!actors, V!history
  <1>2. RowsKept
    BY <1>1, RowsRest
  <1>3. StripeTypes'
    BY <1>1 DEF StripeTypes
  <1>4. RoomToOpen' /\ (\E root : Replaces(root))'
    BY <1>1 DEF RoomToOpen, Opened, Opening, Replaces
  <1> QED BY <1>1, <1>2, <1>3, <1>4, StartersRest, HandlersRest, TimeoutRests

\* Handler h goes on in state o, with sessions and statuses as HandlerTypes wants them.
HandlerFits(o) ==
  /\ o.session \in {0} \cup DOMAIN attempts /\ o.prev \in V!IdentityStatus
  /\ o.step = "attempt" => o.session # 0 /\ o.status # "PENDING"
  /\ o.step = "profile" => o.status = "VERIFIED"
  /\ o.step = "identity" => o.status \in {"VERIFIED", "REJECTED"}

LEMMA IdleFits == HandlerFits(V!IdleHandler)
  BY DEF HandlerFits, V!IdleHandler, V!IdentityStatus

LEMMA HandlerGoesOn ==
  ASSUME BonusInv, HandlerTypes, RowsKept, NEW h \in Handlers, NEW o, HandlerFits(o),
         handler' = [handler EXCEPT ![h] = o], identity' \in V!IdentityStatus
  PROVE  HandlerTypes'
  <1>1. handler \in [Handlers -> WebhookState]
    BY DEF BonusInv
  <1>2. \A g \in Handlers : handler'[g] = IF g = h THEN o ELSE handler[g]
    BY <1>1
  <1> QED BY <1>2 DEF HandlerTypes, HandlerFits, RowsKept

LEMMA TypesByHandler ==
  ASSUME V!VerificationAssumption, BonusInv, VerificationTypes, NEW h \in Handlers,
         \/ \E n \in V!Sessions, event \in V!EventKind : V!WebhookReads(h, n, event)
         \/ V!Handling(h) \/ V!ProfileUnread(h) \/ V!WebhookStops(h)
  PROVE  VerificationTypes'
  <1> USE DEF VerificationTypes
  <1>0. /\ handler[h] \in WebhookState /\ HandlerFits(handler[h]) /\ "VERIFIED" \in V!VerificationStatus
        /\ identity \in V!IdentityStatus /\ overlapped \in BOOLEAN /\ faults \in 0 .. MaxFaults
        /\ deliveries \in 0 .. MaxDeliveries /\ timers \subseteq DOMAIN attempts
        /\ events \subseteq (DOMAIN attempts) \X V!EventKind /\ MaxDeliveries \in Nat
    BY DEF BonusInv, HandlerTypes, HandlerFits, StripeTypes, V!VerificationAssumption, V!VerificationStatus
  <1>1. UNCHANGED <<events, timers, starter, timeout>>
    BY DEF V!WebhookReads, V!Handling, V!Verify, V!Reject, V!Escalate, V!Cancel, V!Mark, V!ReadProfile,
           V!UpdateIdentityStatus, V!AddReputationScore, V!ProfileUnread, V!WebhookStops
  \* What the handler does to the rows, and how it goes on.
  <1> DEFINE Fine == /\ RowsKept /\ DOMAIN attempts' = DOMAIN attempts
                     /\ HandlerTypes'
                     /\ deliveries' \in 0 .. MaxDeliveries /\ faults' \in 0 .. MaxFaults
                     /\ overlapped' \in BOOLEAN
  <1>2. ASSUME \E n \in V!Sessions, event \in V!EventKind : V!WebhookReads(h, n, event)
        PROVE  Fine
    <2>1. PICK n \in V!Sessions, event \in V!EventKind :
            /\ <<n, event>> \in events /\ deliveries < MaxDeliveries /\ deliveries' = deliveries + 1
            /\ \E status \in V!Outcomes(event) :
                 handler' = [handler EXCEPT ![h] = [step |-> "attempt", session |-> n, status |-> status,
                                                    prev |-> "PENDING"]]
            /\ UNCHANGED <<attempts, identity, faults>>
            /\ overlapped' = (overlapped \/ V!Busy(h))
      BY <1>2 DEF V!WebhookReads
    <2>2. PICK status \in V!Outcomes(event) :
            handler' = [handler EXCEPT ![h] = [step |-> "attempt", session |-> n, status |-> status,
                                               prev |-> "PENDING"]]
      BY <2>1
    <2> DEFINE o == [step |-> "attempt", session |-> n, status |-> status, prev |-> "PENDING"]
    <2>3. HandlerFits(o)
      <3>1. n \in DOMAIN attempts /\ n # 0
        BY <1>0, <2>1
      <3>2. status # "PENDING"
        BY <2>2 DEF V!Outcomes, V!Interpretation, V!EventKind
      <3> QED BY <3>1, <3>2 DEF HandlerFits, V!IdentityStatus
    <2> HIDE DEF o
    <2>4. RowsKept /\ DOMAIN attempts' = DOMAIN attempts
      BY <2>1, RowsRest
    <2>5. handler' = [handler EXCEPT ![h] = o]
      BY <2>2 DEF o
    <2>6. HandlerTypes'
      BY <1>0, <2>1, <2>3, <2>4, <2>5, HandlerGoesOn
    <2> QED BY <1>0, <2>1, <2>4, <2>6
  <1>3. ASSUME V!Verify(h) \/ V!Reject(h) \/ V!Escalate(h) \/ V!Cancel(h)
        PROVE  Fine
    <2>1. \E status \in V!VerificationStatus \ {"PENDING"} : \E o :
            V!Mark(h, status, o) /\ HandlerFits(o)
      <3>1. CASE V!Verify(h)
        <4>1. [handler[h] EXCEPT !.step = "profile"] \in WebhookState
              /\ [handler[h] EXCEPT !.step = "profile"].step = "profile"
              /\ [handler[h] EXCEPT !.step = "profile"].status = handler[h].status
              /\ [handler[h] EXCEPT !.step = "profile"].prev = handler[h].prev
          BY <1>0, WebhookFields
        <4>2. [handler[h] EXCEPT !.step = "profile"].session = handler[h].session
          BY <1>0 DEF WebhookState
        <4>3. handler[h].status = "VERIFIED"
          BY <3>1 DEF V!Verify, V!Mark
        <4>4. HandlerFits([handler[h] EXCEPT !.step = "profile"])
          BY <1>0, <4>1, <4>2, <4>3 DEF HandlerFits
        <4> QED BY <3>1, <4>4 DEF V!Verify, V!VerificationStatus
      <3>2. CASE V!Reject(h)
        <4>1. [handler[h] EXCEPT !.step = "identity"] \in WebhookState
              /\ [handler[h] EXCEPT !.step = "identity"].step = "identity"
              /\ [handler[h] EXCEPT !.step = "identity"].status = handler[h].status
              /\ [handler[h] EXCEPT !.step = "identity"].prev = handler[h].prev
          BY <1>0, WebhookFields
        <4>2. [handler[h] EXCEPT !.step = "identity"].session = handler[h].session
          BY <1>0 DEF WebhookState
        <4>3. handler[h].status = "REJECTED"
          BY <3>2 DEF V!Reject, V!Mark
        <4>4. HandlerFits([handler[h] EXCEPT !.step = "identity"])
          BY <1>0, <4>1, <4>2, <4>3 DEF HandlerFits
        <4> QED BY <3>2, <4>4 DEF V!Reject, V!VerificationStatus
      <3>3. CASE V!Escalate(h) \/ V!Cancel(h)
        BY <3>3, IdleFits DEF V!Escalate, V!Cancel, V!VerificationStatus
      <3> QED BY <1>3, <3>1, <3>2, <3>3
    <2>2. PICK status \in V!VerificationStatus \ {"PENDING"} : \E o : V!Mark(h, status, o) /\ HandlerFits(o)
      BY <2>1
    <2>3. PICK o : V!Mark(h, status, o) /\ HandlerFits(o)
      BY <2>2
    <2>4. /\ handler[h].step = "attempt" /\ V!UpdateStatus(handler[h].session, status)
          /\ handler' = [handler EXCEPT ![h] = o]
          /\ UNCHANGED <<identity, deliveries, faults, overlapped>>
      BY <2>3 DEF V!Mark, V!history
    <2>5. handler[h].session \in DOMAIN attempts
      BY <1>0, <2>4 DEF HandlerFits
    <2>6. RowsKept /\ DOMAIN attempts' = DOMAIN attempts
      BY <2>4, <2>5, RowMarked
    <2>7. HandlerTypes'
      BY <1>0, <2>3, <2>4, <2>6, HandlerGoesOn
    <2> QED BY <1>0, <2>4, <2>6, <2>7
  <1>4. ASSUME V!ReadProfile(h) \/ V!ProfileUnread(h)
        PROVE  Fine
    <2>1. PICK prev \in V!IdentityStatus :
            /\ handler' = [handler EXCEPT ![h] = [handler[h] EXCEPT !.step = "identity", !.prev = prev]]
            /\ handler[h].step = "profile" /\ UNCHANGED <<attempts, identity, deliveries>>
            /\ (V!Fault("stop") /\ overlapped' = TRUE) \/ UNCHANGED <<faults, overlapped>>
      BY <1>0, <1>4 DEF V!ReadProfile, V!ProfileUnread, V!IdentityStatus, V!history
    <2> DEFINE o == [handler[h] EXCEPT !.step = "identity", !.prev = prev]
    <2>2. HandlerFits(o)
      <3>1. prev \in V!VerificationStatus
        BY DEF V!IdentityStatus, V!VerificationStatus
      <3>2. o.step = "identity" /\ o.status = handler[h].status /\ o.prev = prev
        <4>1. handler[h] \in WebhookState
          BY <1>0
        <4>2. /\ [handler[h] EXCEPT !.step = "identity", !.prev = prev].step = "identity"
              /\ [handler[h] EXCEPT !.step = "identity", !.prev = prev].status = handler[h].status
              /\ [handler[h] EXCEPT !.step = "identity", !.prev = prev].prev = prev
          BY ONLY <3>1, <4>1 DEF WebhookState
        <4> QED BY <4>2
      <3>3. o.session = handler[h].session
        BY <1>0 DEF WebhookState
      <3> HIDE DEF o
      <3> QED BY <1>0, <2>1, <3>2, <3>3 DEF HandlerFits
    <2> HIDE DEF o
    <2>3. RowsKept /\ DOMAIN attempts' = DOMAIN attempts
      BY <2>1, RowsRest
    <2>4. HandlerTypes'
      <3>1. handler' = [handler EXCEPT ![h] = o]
        BY <2>1 DEF o
      <3> QED BY <1>0, <2>1, <2>2, <2>3, <3>1, HandlerGoesOn
    <2> QED BY <1>0, <2>1, <2>3, <2>4, FaultCounts
  <1>5. ASSUME V!UpdateIdentityStatus(h)
        PROVE  Fine
    <2> DEFINE o == IF handler[h].status = "VERIFIED" /\ handler[h].prev # "VERIFIED"
                    THEN [handler[h] EXCEPT !.step = "bonus"] ELSE V!IdleHandler
    <2>1. /\ handler' = [handler EXCEPT ![h] = o] /\ handler[h].step = "identity"
          /\ identity' = handler[h].status /\ UNCHANGED <<attempts, deliveries, faults, overlapped>>
      BY <1>5 DEF V!UpdateIdentityStatus
    <2>2. HandlerFits(o)
      <3>1. [handler[h] EXCEPT !.step = "bonus"].step = "bonus"
            /\ [handler[h] EXCEPT !.step = "bonus"].prev = handler[h].prev
        BY <1>0, WebhookFields
      <3>2. [handler[h] EXCEPT !.step = "bonus"].session = handler[h].session
        BY <1>0 DEF WebhookState
      <3>3. HandlerFits([handler[h] EXCEPT !.step = "bonus"])
        BY <1>0, <3>1, <3>2 DEF HandlerFits
      <3> QED BY <3>3, IdleFits
    <2> HIDE DEF o
    <2>3. RowsKept /\ DOMAIN attempts' = DOMAIN attempts
      BY <2>1, RowsRest
    <2>4. identity' \in V!IdentityStatus
      BY <1>0, <2>1 DEF HandlerFits, V!IdentityStatus
    <2> QED BY <1>0, <2>1, <2>2, <2>3, <2>4, HandlerGoesOn
  <1>6. ASSUME V!AddReputationScore(h) \/ V!WebhookStops(h)
        PROVE  Fine
    <2>1. /\ handler' = [handler EXCEPT ![h] = V!IdleHandler] /\ UNCHANGED <<attempts, identity, deliveries>>
          /\ (V!Fault("stop") /\ overlapped' = TRUE) \/ UNCHANGED <<faults, overlapped>>
      BY <1>6 DEF V!AddReputationScore, V!WebhookStops, V!history
    <2>2. RowsKept /\ DOMAIN attempts' = DOMAIN attempts
      BY <2>1, RowsRest
    <2> QED BY <1>0, <2>1, <2>2, IdleFits, HandlerGoesOn, FaultCounts
  <1>7. Fine
    BY <1>2, <1>3, <1>4, <1>5, <1>6 DEF V!Handling
  <1>8. StripeTypes'
    BY <1>0, <1>1, <1>7 DEF StripeTypes, RowsKept
  <1>9. RoomToOpen'
    <2>1. Opening' \subseteq Opening
      BY <1>1 DEF Opening
    <2> QED BY <1>7, <2>1, RoomStays
  <1>10. (\E root : Replaces(root))'
    <2>1. PICK root : Replaces(root)
      OBVIOUS
    <2>2. /\ timeout' = timeout
          /\ timeout.step \in {"cancel", "insert"} => timeout.session \in DOMAIN attempts
      BY <1>1 DEF TimeoutTypes
    <2>3. Replaces(root)'
      BY <1>7, <2>1, <2>2, ReplacesStays
    <2> QED BY <2>3
  <1> QED BY <1>1, <1>7, <1>8, <1>9, <1>10, StartersRest, TimeoutRests DEF RowsKept

-----------------------------------------------------------------------------

\* A step of the timeout that adds no row.
LEMMA TimeoutGoesOn ==
  ASSUME V!VerificationAssumption, VerificationTypes, RowsKept, DOMAIN attempts' = DOMAIN attempts,
         UNCHANGED <<identity, events, deliveries, handler, starter, overlapped>>,
         timers' \subseteq DOMAIN attempts, faults' \in 0 .. MaxFaults, TimeoutTypes',
         timeout'.step \in {"cancel", "insert"} =>
           \/ timeout.step \in {"cancel", "insert"} /\ timeout'.session = timeout.session
           \/ attempts[timeout'.session].status = "PENDING"
  PROVE  VerificationTypes'
  <1> USE DEF VerificationTypes
  <1>1. attempts' \in Seq(Row) /\ overlapped' \in BOOLEAN /\ timers' \subseteq DOMAIN attempts'
    BY DEF RowsKept, StripeTypes
  <1>2. RoomToOpen'
    <2>1. Opening' \subseteq Opening
      BY DEF Opening
    <2> QED BY <2>1, RoomStays
  <1>3. (\E root : Replaces(root))'
    <2>1. PICK root : Replaces(root)
      OBVIOUS
    <2>2. timeout'.step \in {"cancel", "insert"} => timeout'.session \in DOMAIN attempts
      BY DEF TimeoutTypes
    <2>3. Replaces(root)'
      BY <2>1, <2>2, ReplacesStays
    <2> QED BY <2>3
  <1> QED BY <1>1, <1>2, <1>3, StartersRest, StripeRests, HandlersRest

JobSteps == {"idle", "escalate", "cancel", "insert", "queue"}

LEMMA IdleTimeout ==
  /\ V!IdleJob \in [step : {"idle", "escalate", "cancel", "insert", "queue"}, session : Nat, next : Nat]
  /\ V!IdleJob.step = "idle" /\ V!IdleJob.session = 0 /\ V!IdleJob.next = 0
  BY DEF V!IdleJob

LEMMA JobFields ==
  ASSUME NEW S, NEW job \in [step : S, session : Nat, next : Nat], NEW step \in S, NEW n \in Nat
  PROVE  /\ [job EXCEPT !.session = n, !.step = step] \in [step : S, session : Nat, next : Nat]
         /\ [job EXCEPT !.session = n, !.step = step].step = step
         /\ [job EXCEPT !.session = n, !.step = step].session = n
         /\ [job EXCEPT !.session = n, !.step = step].next = job.next
  OBVIOUS

LEMMA TimeoutEnds ==
  ASSUME TimeoutTypes, timeout' = V!IdleJob
  PROVE  TimeoutTypes'
  BY IdleTimeout DEF TimeoutTypes

LEMMA TypesByTimeout ==
  ASSUME V!VerificationAssumption, VerificationTypes,
         V!TimingOut \/ V!TimeoutStops, ~ V!TimeoutInserts
  PROVE  VerificationTypes'
  <1> USE DEF VerificationTypes
  <1>0. /\ timeout \in [step : {"idle", "escalate", "cancel", "insert", "queue"}, session : Nat, next : Nat]
        /\ timers \subseteq DOMAIN attempts /\ faults \in 0 .. MaxFaults /\ MaxRetries \in Nat
    BY DEF TimeoutTypes, StripeTypes, V!VerificationAssumption
  <1>1. CASE \E n \in V!Sessions : V!TimeoutReads(n)
    <2>1. PICK n \in V!Sessions : V!TimeoutReads(n)
      BY <1>1
    <2>2. /\ n \in timers /\ UNCHANGED <<attempts, identity, events, deliveries, handler, starter, faults, overlapped>>
      BY <2>1 DEF V!TimeoutReads, V!history
    <2>3. RowsKept /\ DOMAIN attempts' = DOMAIN attempts
      BY <2>2, RowsRest
    <2>4. CASE attempts[n].status # "PENDING"
      <3>1. timers' = timers \ {n} /\ UNCHANGED timeout
        BY <2>1, <2>4 DEF V!TimeoutReads
      <3>2. TimeoutTypes'
        BY <2>3, <3>1, TimeoutRests
      <3>3. ASSUME timeout'.step \in {"cancel", "insert"}
            PROVE  timeout.step \in {"cancel", "insert"} /\ timeout'.session = timeout.session
        BY <3>1, <3>3
      <3>4. timers' \subseteq DOMAIN attempts /\ faults' \in 0 .. MaxFaults
        BY <1>0, <2>2, <3>1
      <3> QED BY <2>2, <2>3, <3>2, <3>3, <3>4, TimeoutGoesOn
    <2>5. CASE attempts[n].status = "PENDING"
      <3> DEFINE step == IF attempts[n].retries >= MaxRetries THEN "escalate" ELSE "cancel"
                 o == [V!IdleJob EXCEPT !.session = n, !.step = step]
      <3>1. timeout' = o /\ UNCHANGED timers
        BY <2>1, <2>5 DEF V!TimeoutReads
      <3>2. n \in DOMAIN attempts /\ n \in Nat /\ n # 0 /\ attempts[n].retries \in Int
        BY <1>0, <2>2, RetriesAreNumbers
      <3>3. step \in JobSteps
        BY DEF JobSteps
      <3>8. /\ o \in [step : JobSteps, session : Nat, next : Nat]
            /\ o.step = step /\ o.session = n /\ o.next = V!IdleJob.next
        <4>1. V!IdleJob \in [step : JobSteps, session : Nat, next : Nat]
          BY IdleTimeout DEF JobSteps
        <4> QED BY ONLY <3>2, <3>3, <4>1, JobFields DEF o
      <3>4. step \in {"escalate", "cancel"} /\ step = "cancel" => attempts[n].retries < MaxRetries
        BY <1>0, <3>2
      <3> HIDE DEF step, o
      <3>5. TimeoutTypes'
        <4>1. /\ timeout' \in [step : {"idle", "escalate", "cancel", "insert", "queue"}, session : Nat, next : Nat]
              /\ timeout'.step = step /\ timeout'.session = n /\ timeout'.next = 0
          BY <3>1, <3>8, IdleTimeout DEF JobSteps
        <4>2. step \in {"escalate", "cancel"}
          BY DEF step
        <4> QED BY <2>2, <3>2, <3>4, <4>1, <4>2 DEF TimeoutTypes
      <3>6. timeout'.session = n
        BY <3>1, <3>8
      <3>7. timers' \subseteq DOMAIN attempts /\ faults' \in 0 .. MaxFaults
        BY <1>0, <2>2, <3>1
      <3> QED BY <2>2, <2>3, <2>5, <3>5, <3>6, <3>7, TimeoutGoesOn
    <2> QED BY <2>4, <2>5
  <1>2. CASE V!TimeoutMarks /\ timeout.step = "escalate"
    <2>1. /\ timeout.step = "escalate" /\ V!UpdateStatus(timeout.session, "ESCALATED")
          /\ timers' = timers \ {timeout.session} /\ timeout' = V!IdleJob
          /\ UNCHANGED <<identity, events, deliveries, handler, starter, faults, overlapped>>
      BY <1>2 DEF V!TimeoutMarks, V!history
    <2>2. timeout.session \in DOMAIN attempts
      BY <2>1 DEF TimeoutTypes
    <2>3. RowsKept /\ DOMAIN attempts' = DOMAIN attempts
      BY <2>1, <2>2, RowMarked DEF V!VerificationStatus
    <2>4. TimeoutTypes' /\ timeout'.step = "idle"
      BY <2>1, TimeoutEnds, IdleTimeout
    <2>5. timers' \subseteq DOMAIN attempts /\ faults' \in 0 .. MaxFaults
      BY <1>0, <2>1
    <2> QED BY <2>1, <2>3, <2>4, <2>5, TimeoutGoesOn
  <1>3. CASE V!TimeoutMarks /\ timeout.step # "escalate"
    <2> DEFINE o == [timeout EXCEPT !.step = "insert"]
    <2>1. /\ timeout.step = "cancel" /\ V!UpdateStatus(timeout.session, "CANCELED") /\ timeout' = o
          /\ UNCHANGED <<identity, events, deliveries, timers, handler, starter, faults, overlapped>>
      BY <1>3 DEF V!TimeoutMarks, V!history
    <2>2. timeout.session \in DOMAIN attempts
      BY <2>1 DEF TimeoutTypes
    <2>3. /\ RowsKept /\ DOMAIN attempts' = DOMAIN attempts
          /\ attempts'[timeout.session].status # "PENDING"
      BY <2>1, <2>2, RowMarked DEF V!VerificationStatus
    <2>4. /\ o \in [step : {"idle", "escalate", "cancel", "insert", "queue"}, session : Nat, next : Nat]
          /\ o.step = "insert" /\ o.session = timeout.session /\ o.next = timeout.next
      BY <1>0
    <2> HIDE DEF o
    <2>5. TimeoutTypes'
      BY <2>1, <2>2, <2>3, <2>4 DEF TimeoutTypes, RowsKept
    <2>6. timers' \subseteq DOMAIN attempts /\ faults' \in 0 .. MaxFaults
      BY <1>0, <2>1
    <2>7. timeout.step \in {"cancel", "insert"} /\ timeout'.session = timeout.session
      BY <2>1, <2>4
    <2> QED BY <2>1, <2>3, <2>5, <2>6, <2>7, TimeoutGoesOn
  <1>4. CASE V!TimeoutSkipsNext \/ V!TimeoutStops
    <2>1. /\ timeout.step # "idle" /\ timeout' = V!IdleJob /\ timers' \subseteq timers
          /\ V!Fault("stop") \/ UNCHANGED faults
          /\ UNCHANGED <<attempts, identity, events, deliveries, handler, starter, overlapped>>
      BY <1>4 DEF V!TimeoutSkipsNext, V!TimeoutStops, V!history
    <2>2. RowsKept /\ DOMAIN attempts' = DOMAIN attempts
      BY <2>1, RowsRest
    <2>3. TimeoutTypes' /\ timeout'.step = "idle"
      BY <2>1, TimeoutEnds, IdleTimeout
    <2>4. timers' \subseteq DOMAIN attempts
      BY <1>0, <2>1
    <2>5. faults' \in 0 .. MaxFaults
      BY <1>0, <2>1, FaultCounts
    <2> QED BY <2>1, <2>2, <2>3, <2>4, <2>5, TimeoutGoesOn
  <1> QED BY <1>1, <1>2, <1>3, <1>4 DEF V!TimingOut

\* The session that replaces another goes on with its root, deeper than any before.
LEMMA TypesByReplacement ==
  ASSUME V!VerificationAssumption, VerificationTypes, V!TimeoutInserts
  PROVE  VerificationTypes'
  <1> USE DEF VerificationTypes
  <1> DEFINE new == Len(attempts) + 1
             old == timeout.session
             k == attempts[old].retries + 1
             o == [timeout EXCEPT !.step = "queue", !.next = new]
  <1>0. /\ timeout \in [step : {"idle", "escalate", "cancel", "insert", "queue"}, session : Nat, next : Nat]
        /\ timers \subseteq DOMAIN attempts /\ faults \in 0 .. MaxFaults /\ overlapped \in BOOLEAN
        /\ MaxRetries \in Nat /\ new \in Nat
    BY DEF TimeoutTypes, StripeTypes, V!VerificationAssumption
  <1>1. /\ timeout.step = "insert" /\ V!Insert(k) /\ timeout' = o
        /\ UNCHANGED <<identity, events, deliveries, timers, handler, starter, faults, overlapped>>
    BY DEF V!TimeoutInserts, V!history
  <1>2. /\ old \in DOMAIN attempts /\ attempts[old].status # "PENDING"
        /\ attempts[old].retries < MaxRetries
    BY <1>1 DEF TimeoutTypes
  <1>3. k \in 0 .. MaxRetries /\ k # 0
    <2>1. attempts[old] \in Row
      BY <1>2
    <2> QED BY <1>0, <1>2, <2>1 DEF Row
  <1> HIDE DEF k
  <1>4. /\ RowsKept /\ DOMAIN attempts' = DOMAIN attempts \cup {new} /\ new \notin DOMAIN attempts
        /\ attempts'[new].retries = k /\ \A n \in DOMAIN attempts : attempts'[n] = attempts[n]
    BY <1>1, <1>3, RowAdded
  <1>5. /\ o \in [step : {"idle", "escalate", "cancel", "insert", "queue"}, session : Nat, next : Nat]
        /\ o.step = "queue" /\ o.session = old /\ o.next = new
    <2>1. \A S, job, next : job \in [step : S, session : Nat, next : Nat] /\ "queue" \in S /\ next \in Nat =>
            /\ [job EXCEPT !.step = "queue", !.next = next] \in [step : S, session : Nat, next : Nat]
            /\ [job EXCEPT !.step = "queue", !.next = next].step = "queue"
            /\ [job EXCEPT !.step = "queue", !.next = next].session = job.session
            /\ [job EXCEPT !.step = "queue", !.next = next].next = next
      OBVIOUS
    <2> DEFINE Steps == {"idle", "escalate", "cancel", "insert", "queue"}
    <2>2. timeout \in [step : Steps, session : Nat, next : Nat] /\ "queue" \in Steps
      BY <1>0
    <2> HIDE DEF new, Steps
    <2>3. /\ o \in [step : Steps, session : Nat, next : Nat]
          /\ o.step = "queue" /\ o.session = old /\ o.next = new
      BY <1>0, <2>1, <2>2
    <2> HIDE DEF o
    <2> QED BY <2>3 DEF Steps
  <1> HIDE DEF o, new
  <1>6. TimeoutTypes'
    <2>1. new # 0 /\ old # 0
      BY <1>0, <1>2 DEF new
    <2> QED BY <1>1, <1>2, <1>4, <1>5, <2>1 DEF TimeoutTypes
  <1>7. RoomToOpen'
    <2>1. /\ Opening' \subseteq Opening
          /\ DOMAIN attempts' = DOMAIN attempts \cup {Len(attempts) + 1}
          /\ attempts'[Len(attempts) + 1].retries # 0
      BY <1>1, <1>3, <1>4 DEF Opening, new
    <2> QED BY <1>4, <2>1, RoomStays
  <1>8. (\E root : Replaces(root))'
    <2>1. PICK root : Replaces(root)
      OBVIOUS
    <2>2. PICK next \in [DOMAIN attempts' -> DOMAIN attempts'] :
            /\ next[new] = root[old]
            /\ \A n \in DOMAIN attempts : next[n] = root[n] /\ next[n] \in DOMAIN attempts
      <3> DEFINE f == [n \in DOMAIN attempts' |-> IF n = new THEN root[old] ELSE root[n]]
      <3>1. /\ f \in [DOMAIN attempts' -> DOMAIN attempts'] /\ f[new] = root[old]
            /\ \A n \in DOMAIN attempts : f[n] = root[n] /\ f[n] \in DOMAIN attempts
        BY <1>2, <1>4, <2>1 DEF Replaces
      <3> HIDE DEF f
      <3> QED BY <3>1
    <2>3. \A n \in DOMAIN attempts' : attempts'[next[n]].retries = 0
      BY <1>2, <1>4, <2>1, <2>2 DEF Replaces
    <2>4. /\ \A n \in DOMAIN attempts : attempts[n].retries \in Int /\ attempts'[n].retries = attempts[n].retries
          /\ k = attempts[old].retries + 1
      BY <1>4, RetriesAreNumbers DEF k
    \* Whatever has the root of old is no deeper than it, and so less deep than the new row.
    <2>5. ASSUME NEW m \in DOMAIN attempts, next[m] = next[new]
          PROVE  attempts[m].retries < k /\ attempts[m].status # "PENDING"
      <3>1. root[m] = root[old]
        BY <2>2, <2>5
      <3>2. attempts[m].retries <= attempts[old].retries
        BY <1>1, <2>1, <3>1 DEF Replaces
      <3>3. attempts[m].retries < k
        BY <1>2, <2>4, <3>2
      <3>4. m = old \/ attempts[m].retries < attempts[old].retries
        BY <1>2, <2>1, <2>4, <3>1, <3>2 DEF Replaces
      <3>5. attempts[m].status # "PENDING"
        BY <1>2, <2>1, <3>1, <3>4 DEF Replaces
      <3> QED BY <3>3, <3>5
    <2>6. \A m, n \in DOMAIN attempts' :
            next[m] = next[n] /\ attempts'[m].retries = attempts'[n].retries => m = n
      <3> SUFFICES ASSUME NEW m \in DOMAIN attempts', NEW n \in DOMAIN attempts', next[m] = next[n],
                          attempts'[m].retries = attempts'[n].retries
                   PROVE  m = n
        OBVIOUS
      <3>1. CASE m \in DOMAIN attempts /\ n \in DOMAIN attempts
        BY <1>4, <2>1, <2>2, <3>1 DEF Replaces
      <3>2. k \in Int
        BY <1>3
      <3>3. CASE m = new /\ n \in DOMAIN attempts
        BY <1>4, <2>4, <2>5, <3>2, <3>3
      <3>4. CASE n = new /\ m \in DOMAIN attempts
        BY <1>4, <2>4, <2>5, <3>2, <3>4
      <3> QED BY <1>4, <3>1, <3>3, <3>4
    <2>7. \A m, n \in DOMAIN attempts' :
            next[m] = next[n] /\ attempts'[m].retries < attempts'[n].retries
              => attempts'[m].status # "PENDING"
      <3> SUFFICES ASSUME NEW m \in DOMAIN attempts', NEW n \in DOMAIN attempts', next[m] = next[n],
                          attempts'[m].retries < attempts'[n].retries
                   PROVE  attempts'[m].status # "PENDING"
        OBVIOUS
      <3>1. CASE m \in DOMAIN attempts /\ n \in DOMAIN attempts
        BY <1>4, <2>1, <2>2, <3>1 DEF Replaces
      <3>2. k \in Int
        BY <1>3
      <3>3. CASE m = new /\ n \in DOMAIN attempts
        <4>1. attempts[n].retries < k
          BY <2>5, <3>3
        <4> QED BY <1>4, <2>4, <3>2, <3>3, <4>1
      <3>4. CASE n = new /\ m \in DOMAIN attempts
        BY <1>4, <2>5, <3>4
      <3>5. CASE m = new /\ n = new
        BY <1>4, <3>2, <3>5
      <3> QED BY <1>4, <3>1, <3>3, <3>4, <3>5
    <2>8. timeout'.step \notin {"cancel", "insert"}
      BY <1>1, <1>5
    <2>9. Replaces(next)'
      BY <2>2, <2>3, <2>6, <2>7, <2>8 DEF Replaces
    <2> QED BY <2>9
  <1>9. timers' \subseteq DOMAIN attempts'
    BY <1>0, <1>1, <1>4
  <1> QED BY <1>0, <1>1, <1>4, <1>6, <1>7, <1>8, <1>9, StartersRest, StripeRests, HandlersRest DEF RowsKept

LEMMA VerificationTypesStep ==
  ASSUME V!VerificationAssumption, BonusInv, VerificationTypes, [V!Next]_verification
  PROVE  VerificationTypes'
  <1>1. CASE UNCHANGED verification
    <2>1. UNCHANGED <<attempts, identity, events, deliveries, timers, handler, starter, timeout, faults, overlapped>>
      BY <1>1 DEF verification
    <2>2. attempts' \in Seq(Row) /\ RowsKept
      BY <2>1, RowsRest DEF VerificationTypes
    <2>3. StarterTypes' /\ HandlerTypes' /\ TimeoutTypes'
      BY <2>1, <2>2, StartersRest, HandlersRest, TimeoutRests DEF VerificationTypes
    <2>4. StripeTypes'
      BY <2>1 DEF VerificationTypes, StripeTypes
    <2>5. (\E root : Replaces(root))' /\ RoomToOpen'
      BY <2>1 DEF VerificationTypes, Replaces, RoomToOpen, Opened, Opening
    <2> QED BY <2>2, <2>3, <2>4, <2>5 DEF VerificationTypes
  <1>2. CASE V!TimingOut \/ V!TimeoutStops
    BY <1>2, TypesByTimeout, TypesByReplacement
  <1> QED BY <1>1, <1>2, TypesByStarter, TypesByStripe, TypesByHandler DEF V!Next

LEMMA VerificationTypesInit == ASSUME V!VerificationAssumption, V!Init PROVE VerificationTypes
  <1>1. attempts = << >> /\ DOMAIN attempts = {}
    BY DEF V!Init
  <1>2. StarterTypes
    <2>1. starter = [s \in Starters |-> <<"idle", 0>>] /\ <<"idle", 0>> \in {"idle", "session", "queue"} \X Nat
      BY DEF V!Init
    <2> QED BY <2>1 DEF StarterTypes
  <1>7. StripeTypes
    <2>1. events = {} /\ timers = {} /\ deliveries = 0 /\ faults = 0 /\ overlapped = FALSE
      BY DEF V!Init
    <2>2. 0 \in 0 .. MaxDeliveries /\ 0 \in 0 .. MaxFaults
      BY DEF V!VerificationAssumption
    <2> QED BY <2>1, <2>2 DEF StripeTypes
  <1>3. HandlerTypes
    BY IdleFits DEF HandlerTypes, HandlerFits, V!Init, V!IdentityStatus
  <1>4. TimeoutTypes
    BY IdleTimeout DEF TimeoutTypes, V!Init
  <1>5. Replaces(<< >>)
    BY <1>1, IdleTimeout DEF Replaces, V!Init
  <1>6. RoomToOpen
    <2>1. Opened = {} /\ Opening = {}
      BY <1>1 DEF Opened, Opening, V!Init
    <2> QED BY <2>1, FS_EmptySet DEF RoomToOpen, V!VerificationAssumption
  <1> QED BY <1>1, <1>2, <1>3, <1>4, <1>5, <1>6, <1>7 DEF VerificationTypes

\* Each attempt is known by the session the user opened and by how often it was replaced.
LEMMA RoomForAttempts ==
  ASSUME V!VerificationAssumption, VerificationTypes
  PROVE  Len(attempts) <= V!MaxAttempts
  <1> USE DEF VerificationTypes
  <1> DEFINE Depths == 0 .. MaxRetries
  <1>1. PICK root : Replaces(root)
    OBVIOUS
  <1>2. MaxRetries \in Nat /\ MaxStarts \in Nat
    BY DEF V!VerificationAssumption
  <1>3. IsFiniteSet(Depths) /\ Cardinality(Depths) = MaxRetries + 1
    BY <1>2, FS_Interval
  <1>4. IsFiniteSet(DOMAIN attempts) /\ Cardinality(DOMAIN attempts) = Len(attempts) /\ Len(attempts) \in Nat
    <2>1. DOMAIN attempts = 1 .. Len(attempts) /\ Len(attempts) \in Nat
      OBVIOUS
    <2>2. IsFiniteSet(1 .. Len(attempts)) /\ Cardinality(1 .. Len(attempts)) = Len(attempts)
      BY <2>1, FS_Interval
    <2> QED BY <2>1, <2>2
  <1> HIDE DEF Depths
  <1>5. /\ IsFiniteSet(Opened \X Depths)
        /\ Cardinality(Opened \X Depths) = Cardinality(Opened) * (MaxRetries + 1)
    BY <1>3, OpenedAreFinite, FS_Product
  <1> DEFINE f == [n \in DOMAIN attempts |-> <<root[n], attempts[n].retries>>]
  <1>6. f \in [DOMAIN attempts -> Opened \X Depths]
    <2> SUFFICES ASSUME NEW n \in DOMAIN attempts PROVE root[n] \in Opened /\ attempts[n].retries \in Depths
      OBVIOUS
    <2>1. attempts[n] \in Row
      OBVIOUS
    <2> QED BY <1>1, <2>1 DEF Replaces, Opened, Row, Depths
  <1>7. \A m, n \in DOMAIN attempts : f[m] = f[n] => m = n
    BY <1>1 DEF Replaces
  <1> HIDE DEF f
  <1>8. Cardinality(DOMAIN attempts) <= Cardinality(Opened \X Depths)
    <2>1. Cardinality(Opened \X Depths) \in Nat
      BY <1>5, FS_CardinalityType
    <2> SUFFICES ASSUME Cardinality(Opened \X Depths) < Cardinality(DOMAIN attempts) PROVE FALSE
      BY <1>4, <2>1
    <2> QED BY <1>4, <1>5, <1>6, <1>7, FS_PigeonHole
  <1>9. Cardinality(Opened) \in Nat /\ Cardinality(Opened) <= MaxStarts
    BY <1>2, OpenedAreFinite DEF RoomToOpen
  <1>10. \A a, b, c \in Nat : a <= b => a * c <= b * c
    OBVIOUS
  <1>11. Cardinality(Opened) * (MaxRetries + 1) <= MaxStarts * (MaxRetries + 1)
    BY <1>2, <1>9, <1>10
  <1>12. Cardinality(Opened) * (MaxRetries + 1) \in Nat /\ MaxStarts * (MaxRetries + 1) \in Nat
    BY <1>2, <1>9
  <1> QED BY <1>4, <1>5, <1>8, <1>11, <1>12 DEF V!MaxAttempts

LEMMA VerificationIsTyped ==
  ASSUME V!VerificationAssumption, BonusInv, VerificationTypes
  PROVE  V!TypeOK
  <1> USE DEF VerificationTypes
  <1>1. DOMAIN attempts = 1 .. Len(attempts) /\ Len(attempts) \in Nat
    OBVIOUS
  <1>2. V!MaxAttempts \in Nat
    BY DEF V!MaxAttempts, V!VerificationAssumption
  <1>3. DOMAIN attempts \subseteq V!Sessions /\ {0} \cup DOMAIN attempts \subseteq 0 .. V!MaxAttempts
    BY <1>1, <1>2, RoomForAttempts DEF V!Sessions
  <1>4. events \subseteq V!Sessions \X V!EventKind /\ timers \subseteq V!Sessions
    BY <1>3 DEF StripeTypes
  <1>5. handler \in [Handlers -> [step : {"idle", "attempt", "profile", "identity", "bonus"},
                                  session : 0 .. V!MaxAttempts, status : V!VerificationStatus,
                                  prev : V!IdentityStatus]]
    <2>1. \A h \in Handlers : handler[h].session \in 0 .. V!MaxAttempts /\ handler[h].prev \in V!IdentityStatus
      BY <1>3 DEF HandlerTypes
    <2>2. handler \in [Handlers -> WebhookState]
      BY DEF BonusInv
    <2> QED BY <2>1, <2>2 DEF WebhookState
  <1>6. starter \in [Starters -> {"idle", "session", "queue"} \X (0 .. V!MaxAttempts)]
    <2>1. starter \in [Starters -> {"idle", "session", "queue"} \X Nat]
      BY DEF StarterTypes
    <2>2. \A s \in Starters : starter[s][2] \in 0 .. V!MaxAttempts
      BY <1>3 DEF StarterTypes
    <2> QED BY <2>1, <2>2
  <1>7. timeout \in [step : {"idle", "escalate", "cancel", "insert", "queue"},
                     session : 0 .. V!MaxAttempts, next : 0 .. V!MaxAttempts]
    BY <1>3 DEF TimeoutTypes
  <1>8. attempts \in Seq([status : V!VerificationStatus, retries : 0 .. MaxRetries])
    BY DEF Row
  <1> QED BY <1>4, <1>5, <1>6, <1>7, <1>8, RoomForAttempts
          DEF V!TypeOK, StripeTypes, HandlerTypes, BonusInv

-----------------------------------------------------------------------------

\* Every record the five components keep is of its type and within its bound, for any number of
\* users, requests and workers: a score sums to at most 1000 points, no decision and no session
\* is beyond those there is room for, and no counter passes its limit.
THEOREM TrustIsTyped == TrustSpec => []TrustTypeOK
  <1> DEFINE Typed == /\ FraudInv /\ FraudTypes /\ BonusInv /\ VerificationTypes
                      /\ ReputationTypes /\ OutcomeInv /\ LinkTypes /\ A!TypeOK
  <1>1. TrustInit => Typed
    <2> SUFFICES ASSUME TrustInit PROVE Typed
      OBVIOUS
    <2>1. Init /\ V!Init /\ R!Init /\ O!Init /\ A!Init
      BY BeginApart
    <2>2. FraudInv /\ FraudTypes
      BY <2>1, TrustAssumption, InitFraudInv, FraudTypesInit
    <2>3. BonusInv
      BY <2>1, BonusInit
    <2>4. VerificationTypes /\ ReputationTypes
      BY <2>1, TrustAssumption, VerificationTypesInit, ReputationTypesInit
    <2>5. OutcomeInv /\ LinkTypes
      BY <2>1, TrustAssumption, OutcomeInit, LinkTypesInit
    <2>6. A!TypeOK
      <3>1. /\ agreement = A!NoText /\ snapshot = A!NoText
            /\ accepted \subseteq A!Party /\ drafting \in {"none", "draft", "snapshot", "done"}
        BY <2>1 DEF A!Init
      <3>2. A!NoText \in A!Texts
        BY DEF A!Texts
      <3> QED BY <3>1, <3>2 DEF A!TypeOK
    <2> QED BY <2>2, <2>3, <2>4, <2>5, <2>6
  <1>2. Typed /\ [TrustNext]_trust => Typed'
    <2> SUFFICES ASSUME Typed, [TrustNext]_trust PROVE Typed'
      OBVIOUS
    <2>1. /\ [Next]_vars /\ [V!Next]_verification /\ [R!Next]_reputation
          /\ [O!Next]_outcome /\ [A!Next]_consent
      BY StepsApart
    <2>2. FraudInv' /\ FraudTypes'
      BY <2>1, TrustAssumption, NextFraudInv, FraudTypesStep
    <2>3. BonusInv' /\ VerificationTypes'
      BY <2>1, TrustAssumption, BonusStep, VerificationTypesStep
    <2>4. ReputationTypes'
      BY <2>1, TrustAssumption, ReputationTypesStep
    <2>5. OutcomeInv' /\ LinkTypes'
      BY <2>1, TrustAssumption, OutcomeStep, LinkTypesStep
    <2>6. A!TypeOK'
      BY <2>1, ConsentTypes
    <2> QED BY <2>2, <2>3, <2>4, <2>5, <2>6
  <1>3. Typed => TrustTypeOK
    BY TrustAssumption, FraudIsTyped, VerificationIsTyped, ReputationIsTyped, OutcomeIsTyped
       DEF TrustTypeOK
  <1> QED BY <1>1, <1>2, <1>3, PTL DEF TrustSpec

=============================================================================
