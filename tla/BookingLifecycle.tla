-------------------------- MODULE BookingLifecycle --------------------------
(***************************************************************************)
(* The life of the bookings of one listing: the CreateBooking pipeline of  *)
(* booking.Service and payment.Service, the host's and renter's handlers,  *)
(* the auto-decline job, and the two other packages that write             *)
(* transactions.status without asking the state machine (dispute and       *)
(* latereturn, through payment.Service.UpdateTransactionStatus).           *)
(*                                                                         *)
(* Handlers of booking.Service lock the row, validate the transition and   *)
(* write it in one database transaction; what they read before the lock    *)
(* (the handoff proofs, the job's first look at the status) can be stale.  *)
(***************************************************************************)
EXTENDS Naturals, FiniteSets

CONSTANTS
  Bookings,    \* booking requests for one listing
  Overlapping, \* Overlapping[b]: the requests whose dates overlap those of b
  Faults,      \* the kinds of failure that may happen
  MaxFaults    \* how many failures may happen in all

ASSUME BookingAssumption ==
  /\ Overlapping \in [Bookings -> SUBSET Bookings]
  /\ \A a, b \in Bookings : a \in Overlapping[b] <=> b \in Overlapping[a]
  /\ Faults \subseteq {"stripe", "release", "database", "queue", "job"}
  /\ MaxFaults \in Nat

VARIABLES
  status,     \* transactions.status, "none" before the row exists
  creator,    \* creator[b]: how far CreateBooking has come for request b
  stripe,     \* stripe[b]: the security hold and whether the rental fee was charged
  job,        \* job[b]: the auto-decline job of the River queue
  handoff,    \* handoff[b]: a CheckIn or CheckOut handler past CheckHandoffComplete
  dispute,    \* dispute[b]: the dispute of package dispute about this booking
  late,       \* late[b]: the late-return check of package latereturn
  faults,     \* failures so far
  raced       \* history: pairs of requests that were both under way past their checks

vars == <<status, creator, stripe, job, handoff, dispute, late, faults, raced>>

Promise == INSTANCE BookingPromise

Status == Promise!Status
HandoffType == {"CHECK_IN", "CHECK_OUT"}
StepOf == [CHECK_IN |-> "ACTIVE", CHECK_OUT |-> "COMPLETED"]

TypeOK ==
  /\ status \in [Bookings -> Status \cup {"none"}]
  /\ creator \in [Bookings -> {"new", "checked", "authorized", "charged", "inserted",
                               "done", "failed"}]
  /\ stripe \in [Bookings -> [hold : {"none", "held", "released"}, charged : BOOLEAN]]
  /\ job \in [Bookings -> {"none", "scheduled", "running"}]
  /\ handoff \in [Bookings -> HandoffType \cup {"none"}]
  /\ dispute \in [Bookings -> {"none", "filed", "open"}]
  /\ late \in [Bookings -> {"none", "scheduled", "escalating"}]
  /\ faults \in 0 .. MaxFaults
  /\ raced \subseteq SUBSET Bookings

Init ==
  /\ status = [b \in Bookings |-> "none"]
  /\ creator = [b \in Bookings |-> "new"]
  /\ stripe = [b \in Bookings |-> [hold |-> "none", charged |-> FALSE]]
  /\ job = [b \in Bookings |-> "none"]
  /\ handoff = [b \in Bookings |-> "none"]
  /\ dispute = [b \in Bookings |-> "none"]
  /\ late = [b \in Bookings |-> "none"]
  /\ faults = 0
  /\ raced = {}

\* A failure of this kind happens now.
Fault(kind) ==
  /\ kind \in Faults
  /\ faults < MaxFaults
  /\ faults' = faults + 1

-----------------------------------------------------------------------------
(* CreateBooking.                                                          *)

At(b, step) == creator[b] = step
Goto(b, step) == creator' = [creator EXCEPT ![b] = step]

\* Requests that have found the dates free and have not inserted their row.
UnderWay == {"checked", "authorized", "charged"}

\* The history is that of the last attempt: a repeated request races with those that are
\* under way now.
RacesNow(b) ==
  raced' = {p \in raced : b \notin p} \cup {{b, o} : o \in {o \in Bookings : creator[o] \in UnderWay}}

\* Slip: a booking that was not yet accepted does not keep its dates.
CheckAvailabilityIgnoresRequested(b) ==
  /\ At(b, "new")
  /\ \A o \in Overlapping[b] \ {b} : status[o] \notin {"ACCEPTED", "ACTIVE"}
  /\ Goto(b, "checked")
  /\ RacesNow(b)
  /\ UNCHANGED <<status, stripe, job, handoff, dispute, late, faults>>

\* IsListingAvailable: one query, no lock, nothing reserved.
CheckAvailability(b) ==
  /\ At(b, "new")
  /\ Promise!IsListingAvailable(b)
  /\ Goto(b, "checked")
  /\ RacesNow(b)
  /\ UNCHANGED <<status, stripe, job, handoff, dispute, late, faults>>

\* Fraud velocity, the risk score, a missing payment method or a declined card: nothing is
\* left, and the request may be repeated.
Refuse(b) ==
  /\ At(b, "checked")
  /\ Goto(b, "new")
  /\ UNCHANGED <<status, stripe, job, handoff, dispute, late, faults, raced>>

AuthorizeHold(b) ==
  /\ At(b, "checked")
  /\ Goto(b, "authorized")
  /\ stripe' = [stripe EXCEPT ![b].hold = "held"]
  /\ UNCHANGED <<status, job, handoff, dispute, late, faults, raced>>

\* Stripe has made the hold and its answer is lost: nobody has the id to release it by.
AuthorizeAnswerLost(b) ==
  /\ At(b, "checked")
  /\ Fault("stripe")
  /\ Goto(b, "failed")
  /\ stripe' = [stripe EXCEPT ![b].hold = "held"]
  /\ UNCHANGED <<status, job, handoff, dispute, late, raced>>

ChargeRentalFee(b) ==
  /\ At(b, "authorized")
  /\ Goto(b, "charged")
  /\ stripe' = [stripe EXCEPT ![b] = [hold |-> @.hold, charged |-> TRUE]]
  /\ UNCHANGED <<status, job, handoff, dispute, late, faults, raced>>

\* The charge is refused, or made although its answer is lost.  "Best-effort: release the
\* hold to avoid leaving an orphaned authorization": the release may fail as well.
ChargeFails(b) ==
  /\ At(b, "authorized")
  /\ Fault("stripe")
  /\ Goto(b, "failed")
  /\ \E made \in BOOLEAN, left \in {"released"} \cup (IF "release" \in Faults THEN {"held"} ELSE {}) :
        stripe' = [stripe EXCEPT ![b] = [hold |-> left, charged |-> made]]
  /\ UNCHANGED <<status, job, handoff, dispute, late, raced>>

\* Slip: the row is inserted before the rental fee has been charged.
InsertRowUncharged(b) ==
  /\ creator[b] \in {"authorized", "charged"}
  /\ Goto(b, "inserted")
  /\ status' = [status EXCEPT ![b] = "REQUESTED"]
  /\ UNCHANGED <<stripe, job, handoff, dispute, late, faults, raced>>

\* The transaction row and the guarantee fund contribution, in one commit.
InsertRow(b) ==
  /\ At(b, "charged")
  /\ Goto(b, "inserted")
  /\ status' = [status EXCEPT ![b] = "REQUESTED"]
  /\ UNCHANGED <<stripe, job, handoff, dispute, late, faults, raced>>

\* The commit fails or the process dies: hold and charge stay at Stripe.
InsertFails(b) ==
  /\ At(b, "charged")
  /\ Fault("database")
  /\ Goto(b, "failed")
  /\ UNCHANGED <<status, stripe, job, handoff, dispute, late, raced>>

\* scheduleAutoDecline, once the row is committed.
ScheduleAutoDecline(b) ==
  /\ At(b, "inserted")
  /\ Goto(b, "done")
  /\ job' = [job EXCEPT ![b] = "scheduled"]
  /\ UNCHANGED <<status, stripe, handoff, dispute, late, faults, raced>>

\* "Log and continue: auto-decline failure is not booking-critical."
ScheduleFails(b) ==
  /\ At(b, "inserted")
  /\ Fault("queue")
  /\ Goto(b, "done")
  /\ UNCHANGED <<status, stripe, job, handoff, dispute, late, raced>>

-----------------------------------------------------------------------------
(* The handlers of booking.Service.                                        *)

\* Slip: the transition is not validated.
CommitUnchecked(b, to) ==
  /\ status[b] # "none"
  /\ status' = [status EXCEPT ![b] = to]

\* UpdateStatus and UpdateCancellation: lock the row, validate, write.
Commit(b, to) ==
  /\ Promise!CanTransition(status[b], to)
  /\ status' = [status EXCEPT ![b] = to]

\* After the commit the late-return check is scheduled, best-effort.
Accept(b) ==
  /\ Commit(b, "ACCEPTED")
  /\ late' \in {late, [late EXCEPT ![b] = "scheduled"]}
  /\ UNCHANGED <<creator, stripe, job, handoff, dispute, faults, raced>>

Decline(b) ==
  /\ Commit(b, "DECLINED")
  /\ UNCHANGED <<creator, stripe, job, handoff, dispute, late, faults, raced>>

\* By the renter or by the host, from REQUESTED as well as from ACCEPTED.
Cancel(b) ==
  /\ Commit(b, "CANCELLED")
  /\ UNCHANGED <<creator, stripe, job, handoff, dispute, late, faults, raced>>

\* CheckIn and CheckOut up to CheckHandoffComplete, which has just answered TRUE; one of them
\* at a time for one booking (Handoff has both at once).
BeginHandoff(b, type) ==
  /\ status[b] # "none" /\ handoff[b] = "none"
  /\ handoff' = [handoff EXCEPT ![b] = type]
  /\ UNCHANGED <<status, creator, stripe, job, dispute, late, faults, raced>>

CommitHandoff(b, type) ==
  /\ handoff[b] = type
  /\ Commit(b, StepOf[type])
  /\ handoff' = [handoff EXCEPT ![b] = "none"]
  /\ UNCHANGED <<creator, stripe, job, dispute, late, faults, raced>>

\* ErrInvalidTransition, or the database fails and rolls back.
HandoffFails(b, type) ==
  /\ handoff[b] = type
  /\ handoff' = [handoff EXCEPT ![b] = "none"]
  /\ UNCHANGED <<status, creator, stripe, job, dispute, late, faults, raced>>

-----------------------------------------------------------------------------
(* AutoDeclineJobWorker.                                                   *)

DeclineJobReads(b) ==
  /\ job[b] = "scheduled"
  /\ job' = [job EXCEPT ![b] = IF status[b] = "REQUESTED" THEN "running" ELSE "none"]
  /\ UNCHANGED <<status, creator, stripe, handoff, dispute, late, faults, raced>>

DeclineJobCommits(b) ==
  /\ job[b] = "running"
  /\ Commit(b, "AUTO_DECLINED")
  /\ job' = [job EXCEPT ![b] = "none"]
  /\ UNCHANGED <<creator, stripe, handoff, dispute, late, faults, raced>>

\* The row has moved on since the first read: the job errs and River retries it.
DeclineJobRefused(b) ==
  /\ job[b] = "running"
  /\ ~ Promise!CanTransition(status[b], "AUTO_DECLINED")
  /\ job' = [job EXCEPT ![b] = "scheduled"]
  /\ UNCHANGED <<status, creator, stripe, handoff, dispute, late, faults, raced>>

\* Slip: a failed attempt counts as done.
DeclineJobGivesUp(b) ==
  /\ job[b] = "running"
  /\ Fault("job")
  /\ status' = status
  /\ job' = [job EXCEPT ![b] = "none"]
  /\ UNCHANGED <<creator, stripe, handoff, dispute, late, raced>>

\* The attempt fails before its commit, or dies after it: River runs it again.
DeclineJobFails(b) ==
  /\ job[b] = "running"
  /\ Fault("job")
  /\ status' = status \/ Commit(b, "AUTO_DECLINED")
  /\ job' = [job EXCEPT ![b] = "scheduled"]
  /\ UNCHANGED <<creator, stripe, handoff, dispute, late, raced>>

-----------------------------------------------------------------------------
(* The unguarded writers: UpdateTransactionStatus(id, "DISPUTED").         *)

\* FileDispute looks for an open dispute only, not at the booking's status.
FileDispute(b) ==
  /\ status[b] # "none"
  /\ dispute[b] = "none"
  /\ dispute' = [dispute EXCEPT ![b] = "filed"]
  /\ UNCHANGED <<status, creator, stripe, job, handoff, late, faults, raced>>

\* The dispute row is committed; now the status is overwritten.
DisputeMarks(b) ==
  /\ dispute[b] = "filed"
  /\ dispute' = [dispute EXCEPT ![b] = "open"]
  /\ status' = [status EXCEPT ![b] = "DISPUTED"]
  /\ UNCHANGED <<creator, stripe, job, handoff, late, faults, raced>>

\* A decision is executed (DisputeResolution); the status of the booking is left alone.
ResolveDispute(b) ==
  /\ dispute[b] = "open"
  /\ dispute' = [dispute EXCEPT ![b] = "none"]
  /\ UNCHANGED <<status, creator, stripe, job, handoff, late, faults, raced>>

\* The late-return check: it goes on only for an ACTIVE booking, and may escalate.
LateCheckReads(b) ==
  /\ late[b] = "scheduled"
  /\ late' = [late EXCEPT ![b] = IF status[b] = "ACTIVE" THEN "escalating" ELSE "none"]
  /\ UNCHANGED <<status, creator, stripe, job, handoff, dispute, faults, raced>>

LateCheckEscalates(b) ==
  /\ late[b] = "escalating"
  /\ late' = [late EXCEPT ![b] = "none"]
  /\ status' = [status EXCEPT ![b] = "DISPUTED"]
  /\ UNCHANGED <<creator, stripe, job, handoff, dispute, faults, raced>>

-----------------------------------------------------------------------------

Creation(b) ==
  \/ CheckAvailability(b) \/ Refuse(b) \/ AuthorizeHold(b) \/ AuthorizeAnswerLost(b)
  \/ ChargeRentalFee(b) \/ ChargeFails(b) \/ InsertRow(b) \/ InsertFails(b)
  \/ ScheduleAutoDecline(b) \/ ScheduleFails(b)

Handling(b) ==
  \/ Accept(b) \/ Decline(b) \/ Cancel(b)
  \/ \E type \in HandoffType :
        BeginHandoff(b, type) \/ CommitHandoff(b, type) \/ HandoffFails(b, type)

DeclineJob(b) ==
  \/ DeclineJobReads(b) \/ DeclineJobCommits(b) \/ DeclineJobRefused(b) \/ DeclineJobFails(b)

Unguarded(b) ==
  \/ FileDispute(b) \/ DisputeMarks(b) \/ ResolveDispute(b)
  \/ LateCheckReads(b) \/ LateCheckEscalates(b)

Next == \E b \in Bookings : Creation(b) \/ Handling(b) \/ DeclineJob(b) \/ Unguarded(b)

Spec == Init /\ [][Next]_vars

\* River runs the job that is queued, again when an attempt has failed.  Nobody is obliged to
\* send or to answer a request, and no failure is obliged to happen.
Fairness ==
  \A b \in Bookings : WF_vars(DeclineJobReads(b) \/ DeclineJobCommits(b) \/ DeclineJobRefused(b))

FairSpec == Spec /\ Fairness

-----------------------------------------------------------------------------
(* Properties.                                                             *)

\* No two live bookings of the listing overlap ("no overlapping active bookings").
NoDoubleBooking ==
  \A a, b \in Bookings :
    a # b /\ a \in Overlapping[b] =>
      status[a] \notin Promise!Blocking \/ status[b] \notin Promise!Blocking

\* Nothing but the gap between the availability query and the insertion leads to a double
\* booking: two live bookings overlap only if their requests were under way at one time,
\* whatever the handlers, the jobs and the other packages do to their status, and whatever
\* fails.
OnlyRacesDoubleBook ==
  \A a, b \in Bookings :
    /\ a # b /\ a \in Overlapping[b]
    /\ status[a] \in Promise!Blocking /\ status[b] \in Promise!Blocking
    => {a, b} \in raced

\* The row of a request that has raced with one whose booking is live by now.
RacedRequest(b) ==
  /\ status[b] = "none"
  /\ \E o \in Overlapping[b] : {b, o} \in raced /\ status[o] \in Promise!Blocking
  /\ status' = [status EXCEPT ![b] = "REQUESTED"]

\* Another package overwrites the status of a booking that has a row.
BreaksIn(b) ==
  /\ dispute[b] = "filed" \/ late[b] = "escalating"
  /\ status[b] # "none"
  /\ status' = [status EXCEPT ![b] = "DISPUTED"]

\* Handlers and jobs that race for one booking, each with a stale first read, still keep
\* the promise about its status at every step but two: the row of a request that has raced
\* with another, and a dispute or an escalation that writes DISPUTED past the machine.
KeepsPromise ==
  /\ Promise!Init
  /\ [][Promise!Next \/ \E b \in Bookings : RacedRequest(b) \/ BreaksIn(b)]_status

\* A booking row exists only for a charged rental fee, and its hold was authorized:
\* nobody is asked to accept an unpaid booking.
PaidBeforeRow ==
  \A b \in Bookings :
    status[b] # "none" => stripe[b].charged /\ stripe[b].hold # "none"

\* A running auto-decline job never undoes an answer of the host or a cancellation:
\* what is answered stays answered, whatever the job read before.
AnswersStand ==
  [][\A b \in Bookings :
       status'[b] = "AUTO_DECLINED" => status[b] \in {"REQUESTED", "AUTO_DECLINED"}]_vars

\* A request whose auto-decline job was queued does not wait for ever.
DeclinedInTheEnd ==
  \A b \in Bookings : job[b] = "scheduled" ~> status[b] # "REQUESTED"

=============================================================================
