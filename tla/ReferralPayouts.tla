--------------------------- MODULE ReferralPayouts ---------------------------
(***************************************************************************)
(* Package referral for the referees of one referrer: the checkout hook    *)
(* advances a referral, an evaluation job writes a payout row for either   *)
(* party and queues a transfer job for each row, and the transfer job      *)
(* moves the money.  Every statement is a database transaction of its own, *)
(* and River runs a job again from the start when it fails.                *)
(*                                                                         *)
(* app.New starts the workers with a service that has no River client and  *)
(* puts the client in later: until then an evaluation queues nothing.      *)
(***************************************************************************)
EXTENDS Naturals, Sequences, FiniteSets

CONSTANTS
  Referees,    \* users who signed up with the referrer's code
  Checkouts,   \* rentals of a referee that may be completed
  Workers,     \* River workers
  Limit,       \* paid payouts of a referrer beyond which nothing more is paid (5)
  MaxPayouts,  \* bound on the payout rows
  MaxPaid,     \* bound on the transfers to one party of a referral
  MaxEvents,   \* bound on the kinds of disturbances in one behaviour
  Features     \* which disturbances may happen

ReferralAssumption ==
  /\ {Limit, MaxPayouts, MaxPaid, MaxEvents} \subseteq Nat
  /\ Features \subseteq {"twice", "crash", "stripe", "lost", "queue", "database", "startup",
                   "fraud"}

VARIABLES
  referral,   \* referrals.status of each referee, "none" before the sign-up
  hook,       \* hook[r][c]: how far the hook of checkout c has come
  payouts,    \* referral_payouts, oldest first
  jobs,       \* queued jobs
  worker,     \* worker[w]: the job it runs, and the rows it has inserted
  wired,      \* whether the workers' service has its River client
  transfers,  \* money that Stripe has moved, per referral and party
  events      \* which disturbances have happened

vars == <<referral, hook, payouts, jobs, worker, wired, transfers, events>>

Party == {"referrer", "referee"}
ReferralStatus == {"SIGNED_UP", "FIRST_RENTAL_COMPLETED", "PAID", "FRAUDULENT"}
PayoutStatus == {"PENDING", "PROCESSING", "PAID", "FAILED"}
\* `no` is the checkout that queued an evaluation, or the row that is to be paid.
Job == [kind : {"evaluate", "transfer"}, of : Referees, no : Nat \cup Checkouts]
NoJob == [kind |-> "none"]
Idle == [step |-> "idle", job |-> NoJob, rows |-> {}]

TypeOK ==
  /\ referral \in [Referees -> ReferralStatus \cup {"none"}]
  /\ hook \in [Referees -> [Checkouts -> {"new", "advance", "enqueue", "done"}]]
  /\ \A i \in DOMAIN payouts :
       payouts[i] \in [of : Referees, party : Party, status : PayoutStatus]
  /\ jobs \subseteq Job
  /\ worker \in [Workers ->
       [step : {"idle", "judge", "insert", "paid", "queue", "mark", "pay", "record"},
        job : Job \cup {NoJob}, rows : SUBSET (1 .. Len(payouts))]]
  /\ wired \in BOOLEAN
  /\ transfers \in [Referees \X Party -> Nat]
  /\ events \subseteq Features

Init ==
  /\ referral = [r \in Referees |-> "none"]
  /\ hook = [r \in Referees |-> [c \in Checkouts |-> "new"]]
  /\ payouts = <<>>
  /\ jobs = {}
  /\ worker = [w \in Workers |-> Idle]
  /\ wired = TRUE
  /\ transfers = [rp \in Referees \X Party |-> 0]
  /\ events = {}

Event(kind) ==
  /\ kind \in Features
  /\ events' = events \cup {kind}
  /\ Cardinality(events') <= MaxEvents

Is(w, step) == worker[w].step = step
Goto(w, step) == worker' = [worker EXCEPT ![w].step = step]
Stop(w) == worker' = [worker EXCEPT ![w] = Idle]

\* The job ends with an error, and River will run it again from the start.
Retry(w) == jobs' = jobs \cup {worker[w].job} /\ Stop(w)

-----------------------------------------------------------------------------
(* Requests: the server answers them only once everything is wired.        *)

\* referee_id is unique.
InsertReferral(r) ==
  /\ referral[r] = "none"
  /\ referral' = [referral EXCEPT ![r] = "SIGNED_UP"]

\* No condition on the status it replaces.
UpdateReferralStatus(r, to) == referral' = [referral EXCEPT ![r] = to]

\* ApplyReferralCode at registration.
Apply(r) ==
  /\ wired
  /\ InsertReferral(r)
  /\ UNCHANGED <<hook, payouts, jobs, worker, wired, transfers, events>>

\* OnFirstRentalCompleted, after the commit of CheckOut.  The hooks of two rentals that
\* end at the same time may both find SIGNED_UP.
HookReads(r, c) ==
  /\ wired
  /\ hook[r][c] = "new" /\ referral[r] # "none"
  /\ hook' = [hook EXCEPT ![r][c] = IF referral[r] = "SIGNED_UP" THEN "advance" ELSE "done"]
  /\ IF referral[r] = "SIGNED_UP" /\ \E d \in Checkouts : hook[r][d] = "advance"
     THEN Event("twice") ELSE UNCHANGED events
  /\ UNCHANGED <<referral, payouts, jobs, worker, wired, transfers>>

HookAdvances(r, c) ==
  /\ hook[r][c] = "advance"
  /\ \/ /\ UpdateReferralStatus(r, "FIRST_RENTAL_COMPLETED")
        /\ hook' = [hook EXCEPT ![r][c] = "enqueue"]
        /\ UNCHANGED events
     \/ /\ Event("database")
        /\ hook' = [hook EXCEPT ![r][c] = "done"]
        /\ UNCHANGED referral
  /\ UNCHANGED <<payouts, jobs, worker, wired, transfers>>

\* A failure of the queue is only logged.
HookEnqueues(r, c) ==
  /\ hook[r][c] = "enqueue"
  /\ hook' = [hook EXCEPT ![r][c] = "done"]
  /\ \/ jobs' = jobs \cup {[kind |-> "evaluate", of |-> r, no |-> c]} /\ UNCHANGED events
     \/ Event("queue") /\ UNCHANGED jobs
  /\ UNCHANGED <<referral, payouts, worker, wired, transfers>>

-----------------------------------------------------------------------------
(* EvaluateAndPayout.                                                      *)

Take(w, job, kind) ==
  /\ Is(w, "idle")
  /\ job \in jobs /\ job.kind = kind
  /\ jobs' = jobs \ {job}

Run(w, job, step) == worker' = [worker EXCEPT ![w] = [Idle EXCEPT !.step = step, !.job = job]]

EvaluateReads(w, job) ==
  /\ Take(w, job, "evaluate")
  /\ IF referral[job.of] \in {"PAID", "FRAUDULENT"} THEN UNCHANGED worker
     ELSE Run(w, job, "judge")
  /\ UNCHANGED <<referral, hook, payouts, wired, transfers, events>>

\* The two users have the fingerprint of a device in common; a common WiFi network is only logged.
SharedDeviceMayBeFound == "fraud" \in Features

\* A shared device: the referral is fraudulent.  The answer of the database may be lost.
FindsFraud(w) ==
  /\ Is(w, "judge")
  /\ SharedDeviceMayBeFound
  /\ UpdateReferralStatus(worker[w].job.of, "FRAUDULENT")
  /\ \/ Stop(w) /\ UNCHANGED <<jobs, events>>
     \/ Event("crash") /\ Retry(w)
  /\ UNCHANGED <<hook, payouts, wired, transfers>>

\* The referrer's, over the last 30 days.
CountRecentPayouts ==
  Cardinality({i \in DOMAIN payouts : payouts[i].party = "referrer" /\ payouts[i].status = "PAID"})

\* No shared device, or the check failed: what counts then is what the referrer was paid,
\* and nothing if that cannot be read.
FindsClean(w) ==
  /\ Is(w, "judge")
  /\ \/ /\ IF CountRecentPayouts > Limit THEN Stop(w) ELSE Goto(w, "insert")
        /\ UNCHANGED events
     \/ Event("database") /\ Goto(w, "insert")
  /\ UNCHANGED <<referral, hook, payouts, jobs, wired, transfers>>

InsertReferralPayout(of, party) ==
  payouts' = Append(payouts, [of |-> of, party |-> party, status |-> "PENDING"])

\* One row per statement, the referrer's first.
InsertPayout(w) ==
  LET o == worker[w]
      party == IF o.rows = {} THEN "referrer" ELSE "referee"
      new == Len(payouts) + 1 IN
  /\ Is(w, "insert") /\ new <= MaxPayouts
  /\ InsertReferralPayout(o.job.of, party)
  /\ worker' = [worker EXCEPT ![w].rows = @ \cup {new},
                              ![w].step = IF party = "referee" THEN "paid" ELSE "insert"]
  /\ UNCHANGED <<referral, hook, jobs, wired, transfers, events>>

MarkPaid(w) ==
  /\ Is(w, "paid")
  /\ UpdateReferralStatus(worker[w].job.of, "PAID")
  /\ Goto(w, "queue")
  /\ UNCHANGED <<hook, payouts, jobs, wired, transfers, events>>

\* A transfer job per row.  A failure of the queue is only logged, and without a River
\* client nothing is queued.
QueueTransfers(w) ==
  LET o == worker[w]
      new == {[kind |-> "transfer", of |-> o.job.of, no |-> i] : i \in o.rows} IN
  /\ Is(w, "queue")
  /\ \/ wired /\ jobs' = jobs \cup new /\ UNCHANGED events
     \/ wired /\ Event("queue") /\ jobs' \in {jobs \cup kept : kept \in SUBSET new}
     \/ ~ wired /\ UNCHANGED <<jobs, events>>
  /\ Stop(w)
  /\ UNCHANGED <<referral, hook, payouts, wired, transfers>>

-----------------------------------------------------------------------------
(* ProcessPayout.                                                          *)

TransferReads(w, job) ==
  /\ Take(w, job, "transfer")
  /\ IF payouts[job.no].status = "PAID" THEN UNCHANGED worker ELSE Run(w, job, "mark")
  /\ UNCHANGED <<referral, hook, payouts, wired, transfers, events>>

SetPayout(w, status) == payouts' = [payouts EXCEPT ![worker[w].job.no].status = status]

\* Slip: the row is not marked before the money moves.
MarkProcessingForgotten(w) ==
  /\ Is(w, "mark")
  /\ Goto(w, "pay")
  /\ UNCHANGED <<referral, hook, payouts, jobs, wired, transfers, events>>

MarkProcessing(w) ==
  /\ Is(w, "mark")
  /\ SetPayout(w, "PROCESSING")
  /\ Goto(w, "pay")
  /\ UNCHANGED <<referral, hook, jobs, wired, transfers, events>>

Pay(w) ==
  LET p == payouts[worker[w].job.no] IN
  /\ Is(w, "pay") /\ transfers[<<p.of, p.party>>] < MaxPaid
  /\ transfers' = [transfers EXCEPT ![<<p.of, p.party>>] = @ + 1]
  /\ Goto(w, "record")
  /\ UNCHANGED <<referral, hook, payouts, jobs, wired, events>>

\* The party has no account, Stripe refuses, or the answer to a transfer is lost: FAILED, if
\* that can be written.
PayFails(w) ==
  LET p == payouts[worker[w].job.no] IN
  /\ Is(w, "pay")
  /\ \/ Event("stripe") /\ UNCHANGED transfers
     \/ /\ Event("lost") /\ transfers[<<p.of, p.party>>] < MaxPaid
        /\ transfers' = [transfers EXCEPT ![<<p.of, p.party>>] = @ + 1]
  /\ SetPayout(w, "FAILED") \/ UNCHANGED payouts
  /\ Retry(w)
  /\ UNCHANGED <<referral, hook, wired>>

\* Slip: a transfer that could not be recorded is an error of the job.
RecordPaidOrErr(w) ==
  /\ Is(w, "record")
  /\ \/ SetPayout(w, "PAID") /\ Stop(w) /\ UNCHANGED <<jobs, events>>
     \/ Event("database") /\ UNCHANGED payouts /\ Retry(w)
  /\ UNCHANGED <<referral, hook, wired, transfers>>

\* A transfer that could not be recorded is only logged.
RecordPaid(w) ==
  /\ Is(w, "record")
  /\ \/ SetPayout(w, "PAID") /\ UNCHANGED events
     \/ Event("database") /\ UNCHANGED payouts
  /\ Stop(w)
  /\ UNCHANGED <<referral, hook, jobs, wired, transfers>>

-----------------------------------------------------------------------------
(* The process.                                                            *)

\* It dies in the middle of a job, or a statement fails.
Crash(w) ==
  /\ ~ Is(w, "idle")
  /\ Event("crash")
  /\ Retry(w)
  /\ UNCHANGED <<referral, hook, payouts, wired, transfers>>

\* An orderly restart: requests and jobs are finished first, then the workers are started
\* before the service is complete.
Restart ==
  /\ Event("startup") /\ "startup" \notin events
  /\ \A w \in Workers : Is(w, "idle")
  /\ \A r \in Referees, c \in Checkouts : hook[r][c] \in {"new", "done"}
  /\ wired' = FALSE
  /\ UNCHANGED <<referral, hook, payouts, jobs, worker, transfers>>

Wire ==
  /\ ~ wired
  /\ wired' = TRUE
  /\ UNCHANGED <<referral, hook, payouts, jobs, worker, transfers, events>>

Hooks(r, c) == HookReads(r, c) \/ HookAdvances(r, c) \/ HookEnqueues(r, c)

Work(w) ==
  \/ \E job \in jobs : EvaluateReads(w, job) \/ TransferReads(w, job)
  \/ FindsFraud(w) \/ FindsClean(w) \/ InsertPayout(w) \/ MarkPaid(w) \/ QueueTransfers(w)
  \/ MarkProcessing(w) \/ Pay(w) \/ PayFails(w) \/ RecordPaid(w)

Next ==
  \/ \E r \in Referees : Apply(r) \/ \E c \in Checkouts : Hooks(r, c)
  \/ \E w \in Workers : Work(w) \/ Crash(w)
  \/ Restart \/ Wire

Spec == Init /\ [][Next]_vars

\* The workers go on, and the start-up comes to its end; nobody has to rent anything.
Fairness == WF_vars(Wire) /\ \A w \in Workers : WF_vars(Work(w))

FairSpec == Spec /\ Fairness

-----------------------------------------------------------------------------
(* Properties.                                                             *)

\* However often Stripe refuses, the queue fails, transfers go unrecorded and the server
\* restarts, nobody is paid twice for one referral, unless a job died half way, the answer to
\* a transfer was lost, or two checkouts of one renter ran at once.
PaidOnce ==
  events \cap {"crash", "lost", "twice"} = {} =>
    \A rp \in Referees \X Party : transfers[rp] <= 1

\* Money that Stripe moved always shows in the payouts: some row of the party has left
\* PENDING, wherever the job that paid was cut off.
MoneyLeavesATrace ==
  \A rp \in Referees \X Party :
    transfers[rp] > 0 =>
      \E i \in DOMAIN payouts :
        <<payouts[i].of, payouts[i].party>> = rp /\ payouts[i].status # "PENDING"

\* Both parties receive their credit once the referral is PAID ("when a referee completes
\* their first rental both parties receive a $20 platform credit via Stripe transfer").
PaidInTheEnd ==
  \A r \in Referees, party \in Party :
    referral[r] = "PAID" ~> transfers[<<r, party>>] > 0

=============================================================================
