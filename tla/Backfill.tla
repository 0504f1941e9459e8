------------------------------ MODULE Backfill ------------------------------
(***************************************************************************)
(* Package backfill: an administrator queues a job that goes through all   *)
(* listings without an appraisal, all users with transactions, or all      *)
(* transactions without a risk score, and asks how far it has come.  The   *)
(* three kinds share nothing, so a behaviour is about one of them.         *)
(*                                                                         *)
(* The jobs of a kind share three counters in the memory of the process.   *)
(* Each counter is atomic, the three together are not, and nothing keeps   *)
(* two jobs of a kind apart.                                               *)
(***************************************************************************)
EXTENDS Integers, FiniteSets

CONSTANTS
  Items,     \* listings, users or transactions
  Runners,   \* River workers
  MaxQueued  \* bound on the queued jobs

BackfillAssumption ==
  /\ IsFiniteSet(Items) /\ IsFiniteSet(Runners)
  /\ MaxQueued \in Nat

VARIABLES
  kind,      \* which of the three backfills this is
  needs,     \* what the query of the backfill finds
  queued,    \* queued jobs
  run,       \* run[w]: where the job of worker w is, and what it has not come to yet
  progress,  \* JobProgress, of this kind
  apart      \* the latest job found no other job of the kind at work when it started

vars == <<kind, needs, queued, run, progress, apart>>

Kinds == {"appraisal", "reputation", "risk"}
Idle == [at |-> "idle", batch |-> {}]
NewJobProgress == [total |-> 0, done |-> 0, errors |-> 0]

TypeOK ==
  /\ kind \in Kinds
  /\ needs \subseteq Items
  /\ queued \in 0 .. MaxQueued
  /\ run \in [Runners -> [at : {"idle", "total", "done", "errors", "loop", "count"},
                          batch : SUBSET Items]]
  /\ progress \in [total : Nat, done : Nat, errors : Nat]
  /\ apart \in BOOLEAN

Init ==
  /\ kind \in Kinds
  /\ needs \in SUBSET Items
  /\ queued = 0
  /\ run = [w \in Runners |-> Idle]
  /\ progress = NewJobProgress
  /\ apart = TRUE

At(w, step) == run[w].at = step
Goto(w, step) == run' = [run EXCEPT ![w].at = step]

-----------------------------------------------------------------------------
(* What the platform and the administrator do meanwhile.                   *)

\* A listing is created, a user takes part in a rental, a booking goes unscored.
Appear(i) ==
  /\ needs' = needs \cup {i}
  /\ UNCHANGED <<kind, queued, run, progress, apart>>

\* A new job, whether there is one at work or not.
Post ==
  /\ queued < MaxQueued
  /\ queued' = queued + 1
  /\ UNCHANGED <<kind, needs, run, progress, apart>>

-----------------------------------------------------------------------------
(* The job.                                                                *)

\* FindListingsNeedingAppraisal, FindUsersWithTransactions and
\* FindTransactionsWithoutRiskScore.
Find == needs

Begin(w) ==
  /\ At(w, "idle") /\ queued > 0
  /\ queued' = queued - 1
  /\ run' = [run EXCEPT ![w] = [at |-> "total", batch |-> Find]]
  /\ apart' = \A v \in Runners : At(v, "idle")
  /\ UNCHANGED <<kind, needs, progress>>

StoreTotal(w) ==
  /\ At(w, "total")
  /\ progress' = [progress EXCEPT !.total = Cardinality(run[w].batch)]
  /\ Goto(w, "done")
  /\ UNCHANGED <<kind, needs, queued, apart>>

\* Slip: the second job counts on from where the first one stopped.
KeepDone(w) ==
  /\ At(w, "done")
  /\ Goto(w, "errors")
  /\ UNCHANGED <<kind, needs, queued, progress, apart>>

ResetDone(w) ==
  /\ At(w, "done")
  /\ progress' = [progress EXCEPT !.done = 0]
  /\ Goto(w, "errors")
  /\ UNCHANGED <<kind, needs, queued, apart>>

ResetErrors(w) ==
  /\ At(w, "errors")
  /\ progress' = [progress EXCEPT !.errors = 0]
  /\ Goto(w, "loop")
  /\ UNCHANGED <<kind, needs, queued, apart>>

\* The job comes to i, with this outcome.  An error is counted, and the job goes on: also
\* when its time is over, and all that is left fails for that reason.
ComeTo(w, i, of, outcome) ==
  /\ kind = of
  /\ At(w, "loop") /\ i \in run[w].batch
  /\ run' = [run EXCEPT ![w] = [at |-> "count", batch |-> @.batch \ {i}]]
  /\ progress' = IF outcome = "error" THEN [progress EXCEPT !.errors = @ + 1] ELSE progress
  /\ UNCHANGED <<kind, queued, apart>>

\* An appraisal that came without tags or value leaves the listing as it was.
Appraise(w, i, outcome) ==
  /\ ComeTo(w, i, "appraisal", outcome)
  /\ needs' = IF outcome = "ok" THEN needs \ {i} ELSE needs

\* The user still has transactions, and the next job will find the user again.
RecalculateReputation(w, i, outcome) ==
  /\ ComeTo(w, i, "reputation", outcome)
  /\ UNCHANGED needs

\* A score that could not be stored is only logged.
ComputeRiskScore(w, i, outcome) ==
  /\ ComeTo(w, i, "risk", outcome)
  /\ needs' = IF outcome = "ok" THEN needs \ {i} ELSE needs

Count(w) ==
  /\ At(w, "count")
  /\ progress' = [progress EXCEPT !.done = @ + 1]
  /\ Goto(w, "loop")
  /\ UNCHANGED <<kind, needs, queued, apart>>

Finish(w) ==
  /\ At(w, "loop") /\ run[w].batch = {}
  /\ run' = [run EXCEPT ![w] = Idle]
  /\ UNCHANGED <<kind, needs, queued, progress, apart>>

\* The process dies: the counters are gone, and River runs the jobs again.
Crash ==
  /\ \E w \in Runners : ~ At(w, "idle")
  /\ queued' = queued + Cardinality({w \in Runners : ~ At(w, "idle")})
  /\ queued' <= MaxQueued
  /\ run' = [w \in Runners |-> Idle]
  /\ progress' = NewJobProgress
  /\ apart' = TRUE
  /\ UNCHANGED <<kind, needs>>

-----------------------------------------------------------------------------

Outcomes == {"ok", "nothing", "error"}

Working(w) ==
  \/ Begin(w) \/ StoreTotal(w) \/ ResetDone(w) \/ ResetErrors(w)
  \/ \E i \in Items, outcome \in Outcomes :
       Appraise(w, i, outcome) \/ RecalculateReputation(w, i, outcome) \/ ComputeRiskScore(w, i, outcome)
  \/ Count(w) \/ Finish(w)

Next ==
  \/ Post \/ Crash
  \/ \E i \in Items : Appear(i)
  \/ \E w \in Runners : Working(w)

Spec == Init /\ [][Next]_vars

-----------------------------------------------------------------------------
(* Properties.                                                             *)

\* Between two items and after the last one, the status tells how much is left to do, and no
\* more errors than items: as long as jobs of a kind do not overlap, over any number of jobs
\* and restarts, whatever is added meanwhile and whatever fails.
StatusIsTrue ==
  apart =>
    /\ (\A w \in Runners : At(w, "idle")) =>
         progress.errors <= progress.done /\ progress.done = progress.total
    /\ \A w \in Runners : At(w, "loop") =>
         /\ progress.errors <= progress.done
         /\ progress.total - progress.done = Cardinality(run[w].batch)

=============================================================================
