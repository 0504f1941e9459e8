------------------------------- MODULE Outcome -------------------------------
(***************************************************************************)
(* The learning loop for one transaction: the log of agent decisions       *)
(* (package agent/decision), the jobs that judge them 48 hours after the   *)
(* return and after a dispute is resolved (package outcome), and the       *)
(* calibration that is kept in Redis.  Time is left out: decisions are     *)
(* judged and reviewed within the 90 days that a calibration looks back.   *)
(***************************************************************************)
EXTENDS Naturals, Sequences, FiniteSets, FiniteSetsExt

CONSTANTS
  Workers,      \* River workers
  MaxDecisions, \* bound on the log
  MaxJobs,      \* bound on the jobs ever scheduled; CheckOut and a resolution make two
  MaxFaults     \* bound on failures

OutcomeAssumption == MaxDecisions \in Nat /\ MaxJobs \in Nat /\ MaxFaults \in Nat

VARIABLES
  log,         \* agent_decisions of the transaction by created_at
  dispute,     \* the dispute: none, waiting for a human, or resolved
  late,        \* status of the late return
  jobs,        \* queued outcome_link jobs
  scheduled,   \* jobs scheduled so far
  worker,      \* worker[w]: a job under way
  calibration, \* Redis: what is stored for each agent
  faults,
  disturbed    \* history: two jobs overlapped, or a failure

vars == <<log, dispute, late, jobs, scheduled, worker, calibration, faults, disturbed>>

None == "none"
\* Three of the agents.  Decisions on agreements, identities, appraisals and fraud are judged
\* by the same steps, each with another question to the database, and are left out.
AgentType == {"DISPUTE", "LATE_RETURN", "RISK"}
LogType == AgentType \cup {"HUMAN_OVERRIDE"}
Idle == [step |-> "idle", todo |-> {}, at |-> 0, outcome |-> None, types |-> {},
         type |-> "DISPUTE", stats |-> <<0, 0>>]

\* Confidences from 0.5 up to but not including 1.0 are calibrated; the rules of the risk
\* agent are always 1.0.
InBucket(d) == d.type # "RISK"

Decision(type, of, action) == [type |-> type, of |-> of, action |-> action, outcome |-> None]

TypeOK ==
  /\ Len(log) <= MaxDecisions
  /\ \A i \in DOMAIN log :
       /\ log[i].type \in LogType /\ log[i].of \in 0 .. MaxDecisions
       /\ log[i].action \in {None, "APPROVE", "OVERRIDE"}
       /\ log[i].outcome \in {None, "correct", "incorrect"}
  /\ dispute \in {None, "HUMAN_REVIEW", "RESOLVED"}
  /\ late \in {None, "MONITORING", "RESOLVED", "ESCALATED_TO_DISPUTE"}
  /\ jobs \in 0 .. MaxJobs /\ scheduled \in 0 .. MaxJobs
  /\ \A w \in Workers : worker[w].step \in {"idle", "evaluate", "link", "stats", "store"}
  /\ calibration \in [AgentType -> (0 .. MaxDecisions) \X (0 .. MaxDecisions)]
  /\ faults \in 0 .. MaxFaults /\ disturbed \in BOOLEAN

Init ==
  /\ log = << >> /\ dispute = None /\ late = None
  /\ jobs = 0 /\ scheduled = 0
  /\ worker = [w \in Workers |-> Idle]
  /\ calibration = [t \in AgentType |-> <<0, 0>>]
  /\ faults = 0 /\ disturbed = FALSE

-----------------------------------------------------------------------------
(* Who writes decisions and schedules jobs.                                *)

RecordDecision(d) == Len(log) < MaxDecisions /\ log' = Append(log, d)

ScheduleOutcomeLink == scheduled < MaxJobs /\ scheduled' = scheduled + 1 /\ jobs' = jobs + 1

\* The dispute agent decides, and the dispute waits for a human or is resolved at once.
DisputeDecided(waits) ==
  /\ dispute = None
  /\ RecordDecision(Decision("DISPUTE", 0, None))
  /\ IF waits THEN UNCHANGED <<jobs, scheduled>> ELSE ScheduleOutcomeLink
  /\ dispute' = IF waits THEN "HUMAN_REVIEW" ELSE "RESOLVED"
  /\ UNCHANGED <<late, worker, calibration, faults, disturbed>>

\* Approving what the agent proposes is recorded the same way as overriding it.
ResolveByHuman(action) ==
  /\ dispute = "HUMAN_REVIEW" /\ dispute' = "RESOLVED"
  /\ \E i \in DOMAIN log : /\ log[i].type = "DISPUTE"
                           /\ RecordDecision(Decision("HUMAN_OVERRIDE", i, action))
  /\ ScheduleOutcomeLink
  /\ UNCHANGED <<late, worker, calibration, faults, disturbed>>

LateReturnDecided(escalates) ==
  /\ late \in {None, "MONITORING"}
  /\ RecordDecision(Decision("LATE_RETURN", 0, None))
  /\ late' = IF escalates THEN "ESCALATED_TO_DISPUTE" ELSE "MONITORING"
  /\ UNCHANGED <<dispute, jobs, scheduled, worker, calibration, faults, disturbed>>

\* The backfill scores the risk of old transactions.
RiskScored ==
  /\ RecordDecision(Decision("RISK", 0, None))
  /\ UNCHANGED <<dispute, late, jobs, scheduled, worker, calibration, faults, disturbed>>

\* The return ends the monitoring and schedules a job, best-effort.
CheckOut ==
  /\ late # "RESOLVED"
  /\ ScheduleOutcomeLink
  /\ late' = IF late = "MONITORING" THEN "RESOLVED" ELSE late
  /\ UNCHANGED <<log, dispute, worker, calibration, faults, disturbed>>

-----------------------------------------------------------------------------
(* LinkOutcomes.                                                           *)

HasHumanOverride(i) == \E j \in DOMAIN log : log[j].type = "HUMAN_OVERRIDE" /\ log[j].of = i

HasDisputeForTransaction == dispute # None

WasLateReturnEscalationWarranted == late = "ESCALATED_TO_DISPUTE"

\* Without a record of a late return there was grace enough.
DidRenterReturnWithinGrace == late \in {None, "RESOLVED"}

evaluateDispute(i) == ~ HasHumanOverride(i)
evaluateLateReturn == WasLateReturnEscalationWarranted \/ ~ DidRenterReturnWithinGrace
\* The risk agent never escalates, so a dispute is a miss.
evaluateRisk == ~ HasDisputeForTransaction

isCorrect(i) ==
  CASE log[i].type = "DISPUTE" -> evaluateDispute(i)
    [] log[i].type = "LATE_RETURN" -> evaluateLateReturn
    [] log[i].type = "RISK" -> evaluateRisk

evaluateDecision(i) == IF isCorrect(i) THEN "correct" ELSE "incorrect"

Busy(w) == worker[w].step # "idle"

\* What is linked already and what a human wrote is skipped.
Linkable == {i \in DOMAIN log : log[i].outcome = None /\ log[i].type # "HUMAN_OVERRIDE"}

Continue(w, step, record) ==
  worker' = [worker EXCEPT ![w] = [record EXCEPT !.step = step]]

\* Slip: linked decisions are judged again.
FindDecisionsLinkedToo(w) ==
  LET all == {i \in DOMAIN log : log[i].type # "HUMAN_OVERRIDE"} IN
  /\ ~ Busy(w) /\ jobs > 0
  /\ jobs' = jobs - 1
  /\ IF all = {} THEN UNCHANGED worker
     ELSE Continue(w, "evaluate", [Idle EXCEPT !.todo = all])
  /\ disturbed' = (disturbed \/ \E v \in Workers : Busy(v))
  /\ UNCHANGED <<log, dispute, late, scheduled, calibration, faults>>

FindDecisionsByTransaction(w) ==
  /\ ~ Busy(w) /\ jobs > 0
  /\ jobs' = jobs - 1
  /\ IF Linkable = {} THEN UNCHANGED worker
     ELSE Continue(w, "evaluate", [Idle EXCEPT !.todo = Linkable])
  /\ disturbed' = (disturbed \/ \E v \in Workers : Busy(v))
  /\ UNCHANGED <<log, dispute, late, scheduled, calibration, faults>>

Evaluate(w) ==
  /\ worker[w].step = "evaluate" /\ worker[w].todo # {}
  /\ LET i == Min(worker[w].todo) IN
       Continue(w, "link", [worker[w] EXCEPT !.todo = @ \ {i}, !.at = i,
                                             !.outcome = evaluateDecision(i)])
  /\ UNCHANGED <<log, dispute, late, jobs, scheduled, calibration, faults, disturbed>>

\* Slip: the agent is not remembered.
UpdateOutcomeOnly(w) ==
  /\ worker[w].step = "link"
  /\ log' = [log EXCEPT ![worker[w].at].outcome = worker[w].outcome]
  /\ Continue(w, "evaluate", worker[w])
  /\ UNCHANGED <<dispute, late, jobs, scheduled, calibration, faults, disturbed>>

\* The row is updated whatever it says by now.
UpdateOutcome(w) ==
  /\ worker[w].step = "link"
  /\ log' = [log EXCEPT ![worker[w].at].outcome = worker[w].outcome]
  /\ Continue(w, "evaluate", [worker[w] EXCEPT !.types = @ \cup {log[worker[w].at].type}])
  /\ UNCHANGED <<dispute, late, jobs, scheduled, calibration, faults, disturbed>>

\* A decision that cannot be judged or linked is passed over.
LinkFails(w) ==
  /\ worker[w].step = "link" /\ faults < MaxFaults
  /\ faults' = faults + 1 /\ disturbed' = TRUE
  /\ Continue(w, "evaluate", worker[w])
  /\ UNCHANGED <<log, dispute, late, jobs, scheduled, calibration>>

\* UpdateCalibrationMetrics for each agent that was encountered.
Stats(t) ==
  LET judged == {i \in DOMAIN log : log[i].type = t /\ InBucket(log[i]) /\ log[i].outcome # None}
  IN <<Cardinality(judged), Cardinality({i \in judged : log[i].outcome = "correct"})>>

GetCalibrationStats(w, t) ==
  /\ worker[w].step = "evaluate" /\ worker[w].todo = {} /\ t \in worker[w].types
  /\ Continue(w, "store", [worker[w] EXCEPT !.type = t, !.types = @ \ {t}, !.stats = Stats(t)])
  /\ UNCHANGED <<log, dispute, late, jobs, scheduled, calibration, faults, disturbed>>

StoreCalibrationBucket(w) ==
  /\ worker[w].step = "store"
  /\ calibration' = [calibration EXCEPT ![worker[w].type] = worker[w].stats]
  /\ Continue(w, "evaluate", worker[w])
  /\ UNCHANGED <<log, dispute, late, jobs, scheduled, faults, disturbed>>

Finish(w) ==
  /\ worker[w].step = "evaluate" /\ worker[w].todo = {} /\ worker[w].types = {}
  /\ worker' = [worker EXCEPT ![w] = Idle]
  /\ UNCHANGED <<log, dispute, late, jobs, scheduled, calibration, faults, disturbed>>

\* The worker dies: River runs the job again, from the start.
WorkerStops(w) ==
  /\ Busy(w) /\ faults < MaxFaults
  /\ faults' = faults + 1 /\ disturbed' = TRUE
  /\ jobs' = jobs + 1 /\ worker' = [worker EXCEPT ![w] = Idle]
  /\ UNCHANGED <<log, dispute, late, scheduled, calibration>>

-----------------------------------------------------------------------------

Working(w) ==
  \/ FindDecisionsByTransaction(w) \/ Evaluate(w) \/ UpdateOutcome(w)
  \/ \E t \in AgentType : GetCalibrationStats(w, t)
  \/ StoreCalibrationBucket(w) \/ Finish(w)

Next ==
  \/ \E b \in BOOLEAN : DisputeDecided(b) \/ LateReturnDecided(b)
  \/ \E a \in {"APPROVE", "OVERRIDE"} : ResolveByHuman(a)
  \/ RiskScored \/ CheckOut
  \/ \E w \in Workers : Working(w) \/ LinkFails(w) \/ WorkerStops(w)

Spec == Init /\ [][Next]_vars

-----------------------------------------------------------------------------
(* Properties.                                                             *)

\* Once a decision has been judged, the judgement stands: jobs that follow one another
\* do not judge it again, although what it is judged by goes on changing.
OutcomeStands ==
  [][ ~ disturbed' => \A i \in DOMAIN log : log[i].outcome # None => log'[i].outcome = log[i].outcome ]_vars

\* While no job is under way, Redis has the statistics of the decisions judged so far,
\* unless jobs overlapped or one was cut short: the repeated job finds nothing to link
\* and leaves the calibration as it is.
CalibrationIsCurrent ==
  (\A w \in Workers : ~ Busy(w)) /\ ~ disturbed =>
    \A t \in AgentType : calibration[t] = Stats(t)

=============================================================================
