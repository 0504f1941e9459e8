----------------------------- MODULE Reputation -----------------------------
(***************************************************************************)
(* users.reputation_score of one user, and its four writers: package       *)
(* reputation recomputes it from the source tables; package risk sums up   *)
(* the log of signals, for every rating bubble from package rating and     *)
(* for every user from an operator's backfill job; and the verification    *)
(* agent adds the KYC bonus to whatever is there.  Each reads and writes   *)
(* in statements of their own.                                             *)
(***************************************************************************)
EXTENDS Integers, FiniteSets, FiniteSetsExt

CONSTANTS
  Ratings,    \* rating requests, each for another transaction of the user
  MaxBubbles, \* bound on the bubbles of one rating
  Workers,    \* River workers
  MaxEvents,  \* bound on what happens beside the ratings
  MaxFaults,  \* bound on failures
  MaxJobs     \* bound on the queued jobs

ReputationAssumption ==
  /\ IsFiniteSet(Ratings)
  /\ MaxBubbles \in Nat /\ MaxEvents \in Nat /\ MaxFaults \in Nat /\ MaxJobs \in Nat

VARIABLES
  facts,   \* what the source tables say of the user
  signals, \* positive_rating signals in the log
  score,   \* users.reputation_score
  jobs,    \* queued recalculations of the user
  request, \* request[r]: a SubmitRating under way, or done
  worker,  \* worker[w]: a recalculation under way
  kyc,     \* the verification agent, between the identity and the bonus
  backfill, \* the backfill job: the sum it has read for the user, or None
  events, \* how much happened beside the ratings
  faults,  \* failures so far
  seen,    \* history: the bubbles in a score from the source tables; None, Backfilled in a sum
  clash    \* history: which kinds of overlap or loss there have been

history == <<seen, clash>>
vars == <<facts, signals, score, jobs, request, worker, kyc, backfill, events, faults, history>>

None == -1
Backfilled == -2
NoFacts == [rentals |-> 0, bubbles |-> 0, verified |-> FALSE, disputes |-> 0, old |-> 0]
IdleRequest == [step |-> "new", left |-> 0, sum |-> 0]
IdleWorker == [step |-> "idle", read |-> NoFacts, score |-> 0]

TypeOK ==
  /\ facts \in [rentals : 0 .. MaxEvents, bubbles : Nat, verified : BOOLEAN,
                disputes : 0 .. MaxEvents, old : 0 .. MaxEvents]
  /\ signals \in 0 .. facts.bubbles
  /\ score \in 0 .. 1000
  /\ jobs \in 0 .. MaxJobs + MaxFaults
  /\ request \in [Ratings -> [step : {"new", "signal", "read", "set", "enqueue", "done"},
                              left : 0 .. MaxBubbles, sum : 0 .. 1000]]
  /\ \A w \in Workers : worker[w].step \in {"idle", "set"} /\ worker[w].score \in 0 .. 1000
  /\ kyc \in {"idle", "bonus", "done"}
  /\ backfill \in {None} \cup (0 .. 1000)
  /\ events \in 0 .. MaxEvents /\ faults \in 0 .. MaxFaults
  /\ clash \subseteq {"workers", "lost"}

Init ==
  /\ facts = NoFacts /\ signals = 0 /\ score = 0
  /\ jobs = 0
  /\ request = [r \in Ratings |-> IdleRequest]
  /\ worker = [w \in Workers |-> IdleWorker]
  /\ kyc = "idle" /\ backfill = None /\ events = 0 /\ faults = 0
  /\ seen = 0 /\ clash = {}

-----------------------------------------------------------------------------
(* The scores.                                                             *)

\* Slip: nothing keeps the points from below.
clampAbove(lo, hi, v) == IF v > hi THEN hi ELSE v

clamp(lo, hi, v) == IF v < lo THEN lo ELSE IF v > hi THEN hi ELSE v

\* The points of the rules engine for the facts kept here; an event older than 180 days
\* weighs half.
computeScore(f) ==
  clamp(0, 1000, 15 * f.rentals + 5 * f.bubbles + (IF f.verified THEN 50 ELSE 0)
                   - 30 * f.disputes - 15 * f.old)

\* RecalculateReputation knows the signals only, and nobody emits any but these.
SignalSum(n) == clamp(0, 1000, 5 * n)

-----------------------------------------------------------------------------
(* Events in the source tables, by other packages.                         *)

Event == events < MaxEvents /\ events' = events + 1

\* No recalculation follows a completed rental.
CheckOut ==
  /\ Event
  /\ facts' = [facts EXCEPT !.rentals = @ + 1]
  /\ UNCHANGED <<signals, score, jobs, request, worker, kyc, backfill, faults, history>>

\* A dispute against the user; when it is resolved, both parties are recalculated.
DisputeResolved ==
  /\ Event /\ jobs < MaxJobs
  /\ facts' = [facts EXCEPT !.disputes = @ + 1]
  /\ jobs' = jobs + 1
  /\ UNCHANGED <<signals, score, request, worker, kyc, backfill, faults, history>>

\* 180 days pass.
Ages ==
  /\ facts.disputes > 0
  /\ facts' = [facts EXCEPT !.disputes = @ - 1, !.old = @ + 1]
  /\ UNCHANGED <<signals, score, jobs, request, worker, kyc, backfill, events, faults, history>>

\* The verification agent, see Verification: the identity first, then the bonus.
UpdateIdentityStatus ==
  /\ kyc = "idle"
  /\ facts' = [facts EXCEPT !.verified = TRUE] /\ kyc' = "bonus"
  /\ UNCHANGED <<signals, score, jobs, request, worker, backfill, events, faults, history>>

Busy(w) == worker[w].step # "idle"

AddReputationScore ==
  /\ kyc = "bonus"
  /\ score' = clamp(0, 1000, score + 50)
  /\ kyc' = "done"
  /\ UNCHANGED <<facts, signals, jobs, request, worker, backfill, events, faults, history>>

-----------------------------------------------------------------------------
(* SubmitRating.                                                           *)

\* The transaction is COMPLETED, and rated once by the other party.
InsertRating(r, n) ==
  /\ request[r].step = "new"
  /\ facts' = [facts EXCEPT !.bubbles = @ + n]
  /\ request' = [request EXCEPT ![r] = [step |-> "signal", left |-> n, sum |-> 0]]
  /\ UNCHANGED <<signals, score, jobs, worker, kyc, backfill, events, faults, history>>

\* EmitSignal, once per bubble: the signal, the sum of all, the score.
InsertSignal(r) ==
  /\ request[r].step = "signal"
  /\ signals' = signals + 1
  /\ request' = [request EXCEPT ![r].step = "read", ![r].left = @ - 1]
  /\ UNCHANGED <<facts, score, jobs, worker, kyc, backfill, events, faults, history>>

FindSignals(r) ==
  /\ request[r].step = "read"
  /\ request' = [request EXCEPT ![r].step = "set", ![r].sum = SignalSum(signals)]
  /\ UNCHANGED <<facts, signals, score, jobs, worker, kyc, backfill, events, faults, history>>

SetReputationScore(r) ==
  /\ request[r].step = "set"
  /\ score' = request[r].sum /\ seen' = None
  /\ request' = [request EXCEPT ![r].step = IF request[r].left > 0 THEN "signal" ELSE "enqueue"]
  /\ UNCHANGED <<facts, signals, jobs, worker, kyc, backfill, events, faults, clash>>

\* Slip: the service is wired without a River client and queues nothing.
EnqueueRecalcUnwired(r) ==
  /\ request[r].step = "enqueue"
  /\ request' = [request EXCEPT ![r].step = "done"]
  /\ UNCHANGED <<facts, signals, score, jobs, worker, kyc, backfill, events, faults, history>>

EnqueueRecalc(r) ==
  /\ request[r].step = "enqueue" /\ jobs < MaxJobs
  /\ jobs' = jobs + 1
  /\ request' = [request EXCEPT ![r].step = "done"]
  /\ UNCHANGED <<facts, signals, score, worker, kyc, backfill, events, faults, history>>

\* The process dies or a failure is passed over; the rating cannot be submitted again.
SubmitStops(r) ==
  /\ request[r].step \notin {"new", "done"} /\ faults < MaxFaults
  /\ faults' = faults + 1 /\ clash' = clash \cup {"lost"}
  /\ request' = [request EXCEPT ![r].step = "done"]
  /\ UNCHANGED <<facts, signals, score, jobs, worker, kyc, backfill, events, seen>>

-----------------------------------------------------------------------------
(* The recalculations, run by River.                                       *)

Start(w, stats) ==
  /\ ~ Busy(w) /\ jobs > 0
  /\ jobs' = jobs - 1
  /\ worker' = [worker EXCEPT ![w] = [step |-> "set", read |-> stats, score |-> computeScore(stats)]]
  /\ clash' = IF \E v \in Workers : Busy(v) THEN clash \cup {"workers"} ELSE clash
  /\ UNCHANGED <<facts, signals, score, request, kyc, backfill, events, faults, seen>>

\* Slip: the bubbles are taken from the first page of the ratings in the profile.
FetchUserStatsOnePage(w) == Start(w, [facts EXCEPT !.bubbles = clamp(0, 1, @)])

FetchUserStats(w) == Start(w, facts)

SetScore(w) ==
  /\ worker[w].step = "set"
  /\ score' = worker[w].score /\ seen' = worker[w].read.bubbles
  /\ worker' = [worker EXCEPT ![w] = IdleWorker]
  /\ UNCHANGED <<facts, signals, jobs, request, kyc, backfill, events, faults, clash>>

\* A query fails or the worker dies: River repeats the job.
WorkerStops(w) ==
  /\ Busy(w) /\ faults < MaxFaults
  /\ faults' = faults + 1
  /\ jobs' = jobs + 1
  /\ worker' = [worker EXCEPT ![w] = IdleWorker]
  /\ UNCHANGED <<facts, signals, score, request, kyc, backfill, events, history>>

-----------------------------------------------------------------------------
(* BackfillReputationWorker: an operator has the sum of the signals stored  *)
(* for every user.                                                         *)

BackfillFinds ==
  /\ backfill = None /\ Event
  /\ backfill' = SignalSum(signals)
  /\ UNCHANGED <<facts, signals, score, jobs, request, worker, kyc, faults, history>>

\* No recalculation follows.
BackfillSets ==
  /\ backfill # None
  /\ score' = backfill /\ seen' = Backfilled
  /\ backfill' = None
  /\ UNCHANGED <<facts, signals, jobs, request, worker, kyc, events, faults, clash>>

\* The statement fails, which is counted, or the worker dies.
BackfillStops ==
  /\ backfill # None /\ faults < MaxFaults
  /\ faults' = faults + 1
  /\ backfill' = None
  /\ UNCHANGED <<facts, signals, score, jobs, request, worker, kyc, events, history>>

Backfilling == BackfillFinds \/ BackfillSets \/ BackfillStops

-----------------------------------------------------------------------------

Submitting(r) == InsertSignal(r) \/ FindSignals(r) \/ SetReputationScore(r) \/ EnqueueRecalc(r)

Working(w) == FetchUserStats(w) \/ SetScore(w)

Next ==
  \/ CheckOut \/ DisputeResolved \/ Ages \/ UpdateIdentityStatus \/ AddReputationScore
  \/ \E r \in Ratings : Submitting(r) \/ SubmitStops(r) \/ \E n \in 1 .. MaxBubbles : InsertRating(r, n)
  \/ \E w \in Workers : Working(w) \/ WorkerStops(w)
  \/ Backfilling

Spec == Init /\ [][Next]_vars

-----------------------------------------------------------------------------
(* Properties.                                                             *)

Quiet ==
  /\ jobs = 0 /\ kyc # "bonus" /\ backfill = None
  /\ \A r \in Ratings : request[r].step \in {"new", "done"}
  /\ \A w \in Workers : ~ Busy(w)

\* When everything has settled, no recalculation ran beside another and no request was
\* cut short, the score is one computed from the source tables with every rating in them:
\* the sums of the signals that each rating stores on its way never have the last word,
\* whoever else writes between.  The one exception is the sum that a backfill stored: it
\* queues no recalculation, and its score stays until something else does.
RatingsAreCounted ==
  Quiet /\ clash \cap {"workers", "lost"} = {} =>
    seen \in {facts.bubbles, Backfilled}

=============================================================================
