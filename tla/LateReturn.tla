----------------------------- MODULE LateReturn -----------------------------
(***************************************************************************)
(* Package latereturn on one rental: the check job that booking.Accept     *)
(* schedules for scheduled_end captures late fees from the security hold,  *)
(* queues the next check one interval later and, past a threshold, asks    *)
(* the escalation job to decide what is to be done about the renter.       *)
(*                                                                         *)
(* What a job reads (the rental, the hold, the late-return row) it uses    *)
(* several calls later, and the capture, the row and the next job are      *)
(* three separate writes.  Captures are indivisible here (AtomicHold);     *)
(* module HoldLedger says when they are.                                   *)
(***************************************************************************)
EXTENDS Naturals, Sequences, FiniteSets

CONSTANTS
  Workers,     \* River workers
  Authorized,  \* the hold
  Cap,         \* maxLateFeeCap: the hold less the damage reserve
  Rate,        \* late fee per re-check interval, doubled by a conflicting booking
  Threshold,   \* intervals overdue before escalation is evaluated
  MaxTime,     \* bound on the intervals overdue
  Features     \* which parts of the environment are present; "logged": a query, a capture or a
               \* write of the status that fails and is only logged

LateAssumption ==
  /\ {Authorized, Cap, Rate, Threshold, MaxTime} \subseteq Nat
  /\ Cap <= Authorized
  /\ Features \subseteq {"overlap", "crash", "queue", "logged", "conflict", "damage"}

VARIABLES
  rental,    \* transactions.status, from ACTIVE on
  time,      \* intervals since scheduled_end, 0 during the first minute
  conflict,  \* HasConflictingBooking
  hold,      \* transactions.hold_allocation
  rows,      \* late_returns of the rental, oldest first
  jobs,      \* queued jobs <<kind, due>>
  worker,    \* worker[w]: the job it runs and what that has read
  events     \* which failures and other disturbances have happened

vars == <<rental, time, conflict, hold, rows, jobs, worker, events>>

H == INSTANCE AtomicHold WITH alloc <- hold

Status == {"MONITORING", "CHARGING", "ESCALATED_TO_DISPUTE", "FLAGGED_FOR_REVIEW", "RESOLVED"}
EscalationLevel == {"CHARGING", "WARNING", "ESCALATED_TO_DISPUTE", "FLAGGED_FOR_REVIEW"}
Job == {"check", "escalation"} \X (0 .. MaxTime + 1)
NoJob == <<"check", 0>>
Idle == [step |-> "idle", job |-> NoJob, now |-> 0, total |-> 0, left |-> 0,
         row |-> 0, fee |-> 0, amount |-> 0]

TypeOK ==
  /\ rental \in {"ACTIVE", "COMPLETED", "DISPUTED"}
  /\ time \in 0 .. MaxTime
  /\ conflict \in BOOLEAN
  /\ hold \in H!Allocation
  /\ \A i \in DOMAIN rows : rows[i] \in [status : Status, fee : Nat]
  /\ jobs \subseteq Job
  /\ worker \in [Workers ->
       [step : {"idle", "price", "find", "insert", "capture", "record", "schedule", "decide", "seize",
                "mark"},
        job : Job, now : 0 .. MaxTime, total : Nat, left : Nat, row : Nat, fee : Nat, amount : Nat]]
  /\ events \subseteq Features

Init ==
  /\ rental = "ACTIVE"
  /\ time = 0
  /\ conflict = FALSE
  /\ hold = H!InitAlloc
  /\ rows = <<>>
  /\ jobs = {<<"check", 0>>}
  /\ worker = [w \in Workers |-> Idle]
  /\ events = {}

Event(kind) == kind \in Features /\ events' = events \cup {kind}

Is(w, step) == worker[w].step = step
Set(w, record) == worker' = [worker EXCEPT ![w] = record]
Goto(w, step) == worker' = [worker EXCEPT ![w].step = step]
Stop(w) == Set(w, Idle)

-----------------------------------------------------------------------------
(* The environment.                                                        *)

Tick ==
  /\ time < MaxTime
  /\ time' = time + 1
  /\ UNCHANGED <<rental, conflict, hold, rows, jobs, worker, events>>

\* CheckOut, from ACTIVE or from DISPUTED.
ItemReturned ==
  /\ rental # "COMPLETED"
  /\ rental' = "COMPLETED"
  /\ UNCHANGED <<time, conflict, hold, rows, jobs, worker, events>>

\* Another booking of the listing starts, or ends.
ConflictChanges ==
  /\ Event("conflict")
  /\ conflict' = ~ conflict
  /\ UNCHANGED <<rental, time, hold, rows, jobs, worker>>

\* A dispute about the rental is settled meanwhile.
DamageCharged ==
  /\ Event("damage")
  /\ \E amount \in 1 .. hold.remaining : hold' = H!AfterCapture(hold, amount, "damage")
  /\ UNCHANGED <<rental, time, conflict, rows, jobs, worker>>

-----------------------------------------------------------------------------
(* CheckAndCharge.                                                         *)

\* A worker takes a job that is due.
Take(w, job) ==
  /\ Is(w, "idle")
  /\ job \in jobs /\ job[2] <= time
  /\ jobs' = jobs \ {job}
  /\ IF \A v \in Workers : Is(v, "idle") THEN UNCHANGED events ELSE Event("overlap")

\* Slip: the fee is not held below the cap.
FeeAtUncapped(rate, t) == rate * t

\* The fee for being t intervals late, held below the cap.
FeeAt(rate, t) == IF rate * t > Cap THEN Cap ELSE rate * t
LateFee(t) == FeeAt(IF conflict THEN 2 * Rate ELSE Rate, t)

\* The check goes on only for an ACTIVE rental that is at least a minute late.
CheckReads(w, job) ==
  /\ job[1] = "check"
  /\ Take(w, job)
  /\ IF rental = "ACTIVE" /\ time > 0
     THEN Set(w, [Idle EXCEPT !.step = "price", !.job = job, !.now = time,
                              !.left = hold.remaining])
     ELSE UNCHANGED worker
  /\ UNCHANGED <<rental, time, conflict, hold, rows>>

\* HasConflictingBooking is a query of its own.  That it fails is only logged, and the rate
\* is not doubled then.
Price(w) ==
  /\ Is(w, "price")
  /\ \/ /\ Set(w, [worker[w] EXCEPT !.step = "find", !.total = LateFee(worker[w].now)])
        /\ UNCHANGED events
     \/ /\ Set(w, [worker[w] EXCEPT !.step = "find", !.total = FeeAt(Rate, worker[w].now)])
        /\ Event("logged")
  /\ UNCHANGED <<rental, time, conflict, hold, rows, jobs>>

\* What is still to be charged when `previous` was charged before: at most what the hold
\* had left; when there is nothing, the row is updated and the check is over.
AfterFind(o, row, previous) ==
  LET due == IF o.total > previous THEN o.total - previous ELSE 0
      amount == IF due > o.left THEN o.left ELSE due
  IN  [o EXCEPT !.step = IF amount > 0 THEN "capture" ELSE "record", !.row = row,
                !.amount = amount,
                !.fee = IF due = 0 THEN o.total ELSE previous]

FindRow(w) ==
  /\ Is(w, "find")
  /\ IF rows = <<>> THEN Goto(w, "insert")
     ELSE Set(w, AfterFind(worker[w], Len(rows), rows[Len(rows)].fee))
  /\ UNCHANGED <<rental, time, conflict, hold, rows, jobs, events>>

InsertRow(w) ==
  /\ Is(w, "insert")
  /\ rows' = Append(rows, [status |-> "MONITORING", fee |-> 0])
  /\ Set(w, AfterFind(worker[w], Len(rows) + 1, 0))
  /\ UNCHANGED <<rental, time, conflict, hold, jobs, events>>

\* Slip: the whole fee is taken for charged, also when the hold had less.
CaptureCountsTotal(w) ==
  /\ Is(w, "capture")
  /\ worker[w].amount <= hold.remaining
  /\ hold' = H!AfterCapture(hold, worker[w].amount, "late_fee")
  /\ worker' = [worker EXCEPT ![w].step = "record", ![w].fee = worker[w].total]
  /\ UNCHANGED <<rental, time, conflict, rows, jobs, events>>

Capture(w) ==
  /\ Is(w, "capture")
  /\ worker[w].amount <= hold.remaining
  /\ hold' = H!AfterCapture(hold, worker[w].amount, "late_fee")
  /\ worker' = [worker EXCEPT ![w].step = "record", ![w].fee = @ + worker[w].amount]
  /\ UNCHANGED <<rental, time, conflict, rows, jobs, events>>

\* RecordCharge: the status is CHARGING again, whatever it was.
RecordCharge(w) ==
  LET o == worker[w] IN
  /\ Is(w, "record")
  /\ rows' = [rows EXCEPT ![o.row] = [status |-> "CHARGING", fee |-> o.fee]]
  /\ IF o.amount > 0 THEN Goto(w, "schedule") ELSE Stop(w)
  /\ UNCHANGED <<rental, time, conflict, hold, jobs, events>>

\* Slip: the next check is queued only while the threshold is not reached.
ScheduleBelowThreshold(w) ==
  LET now == worker[w].now
      next == IF now < Threshold THEN {<<"check", now + 1>>} ELSE {<<"escalation", now>>} IN
  /\ Is(w, "schedule")
  /\ jobs' = jobs \cup next
  /\ Stop(w)
  /\ UNCHANGED <<rental, time, conflict, hold, rows, events>>

\* The next check and, past the threshold, an escalation; a failure of the queue is only
\* logged.
Schedule(w) ==
  LET now == worker[w].now
      next == {<<"check", now + 1>>} \cup
              (IF now >= Threshold THEN {<<"escalation", now>>} ELSE {}) IN
  /\ Is(w, "schedule")
  /\ \/ jobs' = jobs \cup next /\ UNCHANGED events
     \/ Event("queue") /\ jobs' \in {jobs \cup kept : kept \in SUBSET next}
  /\ Stop(w)
  /\ UNCHANGED <<rental, time, conflict, hold, rows>>

-----------------------------------------------------------------------------
(* EvaluateEscalation.                                                     *)

\* Without a row the job fails, and is run again until there is one.
EscalationReads(w, job) ==
  /\ job[1] = "escalation"
  /\ rental = "ACTIVE" => rows # <<>>
  /\ Take(w, job)
  /\ IF /\ rental = "ACTIVE"
        /\ rows[Len(rows)].status \in {"MONITORING", "CHARGING"}
     THEN Set(w, [Idle EXCEPT !.step = "decide", !.job = job, !.row = Len(rows),
                              !.fee = rows[Len(rows)].fee])
     ELSE UNCHANGED worker
  /\ UNCHANGED <<rental, time, conflict, hold, rows>>

\* statusFromEscalation.
StatusOf(level) ==
  IF level \in {"ESCALATED_TO_DISPUTE", "FLAGGED_FOR_REVIEW"} THEN level ELSE "CHARGING"

\* The agent answers (WARNING when it fails); below an escalation it is asked again one
\* interval later.
Decide(w, level) ==
  /\ Is(w, "decide")
  /\ rows' = [rows EXCEPT ![worker[w].row].status = StatusOf(level)]
  /\ IF level = "ESCALATED_TO_DISPUTE" THEN Goto(w, "seize") ELSE Stop(w)
  /\ IF level \in {"CHARGING", "WARNING"}
     THEN \/ jobs' = jobs \cup {<<"escalation", time + 1>>} /\ UNCHANGED events
          \/ Event("queue") /\ UNCHANGED jobs
     ELSE UNCHANGED <<jobs, events>>
  /\ UNCHANGED <<rental, time, conflict, hold>>

\* escalateToDispute: the rest of the cap, by the fee the row showed; a capture that is
\* refused, by what is left of the hold or by Stripe, is only logged.
Seize(w) ==
  LET amount == IF Cap > worker[w].fee THEN Cap - worker[w].fee ELSE 0 IN
  /\ Is(w, "seize")
  /\ \/ /\ hold' = IF amount <= hold.remaining THEN H!AfterCapture(hold, amount, "late_fee")
                    ELSE hold
        /\ UNCHANGED events
     \/ amount > 0 /\ Event("logged") /\ UNCHANGED hold
  /\ Goto(w, "mark")
  /\ UNCHANGED <<rental, time, conflict, rows, jobs>>

\* The rental is DISPUTED, whatever it was; a failure is only logged.
MarkDisputed(w) ==
  /\ Is(w, "mark")
  /\ \/ rental' = "DISPUTED" /\ UNCHANGED events
     \/ Event("logged") /\ UNCHANGED rental
  /\ Stop(w)
  /\ UNCHANGED <<time, conflict, hold, rows, jobs>>

-----------------------------------------------------------------------------

\* The job ends with an error, and River will run it again from the start.
Retry(w) ==
  /\ jobs' = jobs \cup {worker[w].job}
  /\ Stop(w)
  /\ UNCHANGED <<rental, time, conflict, hold, rows>>

\* The hold has less by now than the check read.
Refused(w) ==
  /\ Is(w, "capture") /\ worker[w].amount > hold.remaining
  /\ Retry(w)
  /\ UNCHANGED events

\* The process dies, or the database or Stripe fails, at any step.
Crash(w) ==
  /\ ~ Is(w, "idle")
  /\ Event("crash")
  /\ Retry(w)

Check(w) ==
  \/ \E job \in jobs : CheckReads(w, job)
  \/ Price(w) \/ FindRow(w) \/ InsertRow(w) \/ Capture(w) \/ Refused(w) \/ RecordCharge(w) \/ Schedule(w)

Escalation(w) ==
  \/ \E job \in jobs : EscalationReads(w, job)
  \/ \E level \in EscalationLevel : Decide(w, level)
  \/ Seize(w) \/ MarkDisputed(w)

Next ==
  \/ Tick \/ ItemReturned \/ ConflictChanges \/ DamageCharged
  \/ \E w \in Workers : Check(w) \/ Escalation(w) \/ Crash(w)

Spec == Init /\ [][Next]_vars

\* Time passes, and a worker goes on with due jobs; nobody has to return the item.
Fairness == WF_vars(Tick) /\ \A w \in Workers : WF_vars(Check(w) \/ Escalation(w))

FairSpec == Spec /\ Fairness

-----------------------------------------------------------------------------
(* Properties.                                                             *)

\* Late fees never eat into the damage reserve, over all checks and escalations together
\* ("Late fee captures are capped at holdAmount * (1 - damageReserveRate)").  Unless a
\* worker died, two jobs ran at once, a conflicting booking came or went, or a call failed
\* whose failure is only logged: the rental is not marked then, and goes on being charged.
ReserveKept ==
  events \cap {"crash", "overlap", "conflict", "logged"} = {} => hold.late <= Cap

\* However jobs overlap, die and are repeated, no late-return row shows a fee that was
\* not captured from the hold.
FeeWasCaptured == \A i \in DOMAIN rows : rows[i].fee <= hold.late

\* Once charging has begun it goes on: while the rental is ACTIVE and neither the cap nor
\* the hold is used up, a check is queued or running, whatever jobs run at once and
\* whatever else draws on the hold.  Not when a worker dies between RecordCharge and
\* Schedule: the repeated check finds nothing due and ends.
MonitoringGoesOn ==
  /\ events \cap {"queue", "conflict", "crash"} = {}
  /\ rental = "ACTIVE" /\ hold.remaining > 0
  /\ rows # <<>> /\ rows[Len(rows)].fee \in 1 .. Cap - 1
  => \/ \E job \in jobs : job[1] = "check"
     \/ \E w \in Workers : ~ Is(w, "idle") /\ worker[w].job[1] = "check"

\* A rental that stays out is charged in the end ("if the rental is still ACTIVE at that
\* point, LateReturnAgent will begin charging late fees").
LateIsCharged == rental = "ACTIVE" ~> hold.late > 0 \/ rental # "ACTIVE"

=============================================================================
