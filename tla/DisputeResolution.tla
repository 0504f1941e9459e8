-------------------------- MODULE DisputeResolution --------------------------
(***************************************************************************)
(* Package dispute on one booking: disputes are filed, a River job runs    *)
(* ProcessDispute (gather, analyze, decide, settle), human reviewers       *)
(* resolve what was routed to them or ask for more evidence, and a         *)
(* re-prompt job picks the dispute up again two hours later.  A settlement *)
(* draws on the hold, then the renter's card, then the guarantee fund,     *)
(* then collections (CaptureAndEscalate).                                  *)
(*                                                                         *)
(* Every statement on the disputes table stands alone: nothing locks a     *)
(* dispute while it is processed, and no step of a settlement remembers    *)
(* that it was done.  Operations of the hold are indivisible here          *)
(* (AtomicHold); module HoldLedger says when they are.                     *)
(***************************************************************************)
EXTENDS Integers, FiniteSets

CONSTANTS
  Disputes,    \* FileDispute requests for the booking
  Actors,      \* what may be under way at once: workers' jobs and reviewers' requests
  Authorized,  \* the hold
  FundStarts,  \* what the guarantee fund may hold to begin with
  Charges,     \* what a decision may charge
  AuditAbove,  \* a charge above this is auto-resolved with an audit ($200)
  HumanAbove,  \* a charge above this goes to a human ($1,000)
  Features,    \* which parts of the environment are present
  MaxEvents    \* bound on failures and evidence requests, each kind at most once

ASSUME DisputeAssumption ==
  /\ "none" \notin Disputes
  /\ {Authorized, AuditAbove, HumanAbove, MaxEvents} \subseteq Nat
  /\ Charges \subseteq Nat /\ FundStarts \subseteq Nat
  /\ AuditAbove <= HumanAbove
  /\ Features \subseteq {"race", "evidence", "approve", "model", "stripe", "queue", "crash"}

VARIABLES
  status,   \* disputes.status, "none" before the row exists
  charge,   \* disputes.charge_amount
  jobs,     \* queued jobs: <<kind, dispute>>, at most one of a kind per dispute
  hold,     \* transactions.hold_allocation
  fund,     \* balance of the guarantee fund
  taken,    \* what the card and the fund have paid, and what was referred to collections
  drawn,    \* history: what has been drawn for each dispute, whatever it was drawn from
  actor,    \* actor[a]: what worker (with a job) or reviewer (without) a is doing
  events,   \* the kinds of failures and requests that have happened
  disturbed \* history: disputes whose settlement was crossed, see Disturb

money == <<hold, fund, taken, drawn>>
vars == <<status, charge, jobs, money, actor, events, disturbed>>

H == INSTANCE AtomicHold WITH alloc <- hold

Status == {"PENDING", "GATHERING", "ANALYZING", "AUTO_RESOLVED", "AUDIT_QUEUED",
           "HUMAN_REVIEW", "RESOLVED", "INCONCLUSIVE"}
Closed == {"AUTO_RESOLVED", "AUDIT_QUEUED", "RESOLVED"}   \* FindOpenByTransactionID
Route == {"AUTO_RESOLVE", "AUTO_RESOLVE_AUDIT", "HUMAN_REVIEW"}
Kinds == {"resolution", "reprompt"}
Idle == [step |-> "idle", d |-> "none", job |-> "none", route |-> "none", amount |-> 0, over |-> 0,
         sent |-> {}]
SettlementSteps == {"settle", "capture", "card", "fund", "refer", "mark", "audit"}

TypeOK ==
  /\ status \in [Disputes -> Status \cup {"none", "filing"}]
  /\ charge \in [Disputes -> Nat]
  /\ jobs \subseteq Kinds \X Disputes
  /\ hold \in H!Allocation
  /\ fund \in Nat
  /\ taken \in [card : Nat, fund : Nat, collections : Nat]
  /\ drawn \in [Disputes -> Nat]
  /\ actor \in [Actors -> [step : {"idle", "reprompted", "gathering", "analyzing"} \cup SettlementSteps,
                           d : Disputes \cup {"none"}, job : Kinds \cup {"none"},
                           route : Route \cup {"none"}, amount : Nat, over : Nat,
                           sent : SUBSET Nat]]
  /\ events \subseteq Features
  /\ disturbed \subseteq Disputes

Init ==
  /\ status = [d \in Disputes |-> "none"]
  /\ charge = [d \in Disputes |-> 0]
  /\ jobs = {}
  /\ hold = H!InitAlloc
  /\ fund \in FundStarts
  /\ taken = [card |-> 0, fund |-> 0, collections |-> 0]
  /\ drawn = [d \in Disputes |-> 0]
  /\ actor = [a \in Actors |-> Idle]
  /\ events = {}
  /\ disturbed = {}

\* An optional event of the environment: a failure, or a request for more evidence.
Event(kind) ==
  /\ kind \in Features \ events
  /\ Cardinality(events) < MaxEvents
  /\ events' = events \cup {kind}

Is(a, step) == actor[a].step = step
Goto(a, step) == actor' = [actor EXCEPT ![a].step = step]
Stop(a) == actor' = [actor EXCEPT ![a] = Idle]
Mark(d, s) == status' = [status EXCEPT ![d] = s]
Draw(a, amount) == drawn' = [drawn EXCEPT ![actor[a].d] = @ + amount]

\* The history of what crosses the work on one dispute: a second operation on it, a request
\* for evidence before the agent is done or after money was drawn, an operation that ends with
\* an error after it has drawn something, a charge that was made although its answer was
\* lost, an APPROVE with another amount than the agent's.
Disturb(d, crossed) == disturbed' = IF crossed THEN disturbed \cup {d} ELSE disturbed
Busy(d) == {a \in Actors : actor[a].d = d}
ByAgent(a) == actor[a].job # "none"

-----------------------------------------------------------------------------
(* Filing.                                                                 *)

\* FindOpenByTransactionID: nothing is open, as far as this request can see.
FileReads(d) ==
  /\ status[d] = "none"
  /\ \A e \in Disputes : status[e] \in Closed \cup {"none", "filing"}
  /\ "race" \in Features \/ \A e \in Disputes : status[e] # "filing"
  /\ Mark(d, "filing")
  /\ UNCHANGED <<charge, jobs, money, actor, events, disturbed>>

\* The row is inserted and the resolution job enqueued; a failure of the queue is only
\* logged.
FileInserts(d) ==
  /\ status[d] = "filing"
  /\ Mark(d, "PENDING")
  /\ \/ jobs' = jobs \cup {<<"resolution", d>>} /\ UNCHANGED events
     \/ Event("queue") /\ UNCHANGED jobs
  /\ UNCHANGED <<charge, money, actor, disturbed>>

-----------------------------------------------------------------------------
(* ProcessDispute, up to the decision.                                     *)

\* The job starts: GATHERING, whatever the status was.
TakeResolution(a, d) ==
  /\ Is(a, "idle")
  /\ <<"resolution", d>> \in jobs
  /\ jobs' = jobs \ {<<"resolution", d>>}
  /\ actor' = [actor EXCEPT ![a] = [Idle EXCEPT !.step = "gathering", !.d = d, !.job = "resolution"]]
  /\ Mark(d, "GATHERING")
  /\ UNCHANGED <<charge, money, events, disturbed>>

\* The re-prompt job: a no-op unless it reads INCONCLUSIVE.
TakeReprompt(a, d) ==
  /\ Is(a, "idle")
  /\ <<"reprompt", d>> \in jobs
  /\ jobs' = jobs \ {<<"reprompt", d>>}
  /\ IF status[d] = "INCONCLUSIVE"
     THEN actor' = [actor EXCEPT ![a] = [Idle EXCEPT !.step = "reprompted", !.d = d,
                                                     !.job = "reprompt"]]
     ELSE UNCHANGED actor
  /\ UNCHANGED <<status, charge, money, events, disturbed>>

\* Nothing gives a photo the id of a booking, so that none is found for this one.
RepromptEscalates(a) ==
  /\ Is(a, "reprompted")
  /\ Mark(actor[a].d, "HUMAN_REVIEW")
  /\ Stop(a)
  /\ UNCHANGED <<charge, jobs, money, events, disturbed>>

Analyze(a) ==
  /\ Is(a, "gathering")
  /\ Mark(actor[a].d, "ANALYZING")
  /\ Goto(a, "analyzing")
  /\ UNCHANGED <<charge, jobs, money, events, disturbed>>

\* Slip: a failed call of the agent is only logged.
AgentFailsSilently(a) ==
  /\ Is(a, "analyzing")
  /\ Event("model")
  /\ Stop(a)
  /\ UNCHANGED <<status, charge, jobs, money, disturbed>>

\* RunDisputeAgent fails: "escalating to human review".
AgentFails(a) ==
  /\ Is(a, "analyzing")
  /\ Event("model")
  /\ Mark(actor[a].d, "HUMAN_REVIEW")
  /\ Stop(a)
  /\ UNCHANGED <<charge, jobs, money, disturbed>>

\* RouteDecision: fraud flags, inconclusive photos and low confidence (any amount) go to
\* a human, and otherwise the amount decides.
RouteDecision(amount) ==
  {"HUMAN_REVIEW"} \cup
  {IF amount > HumanAbove THEN "HUMAN_REVIEW"
   ELSE IF amount > AuditAbove THEN "AUTO_RESOLVE_AUDIT" ELSE "AUTO_RESOLVE"}

\* Slip: the decision is executed and only then queued for the human.
DecideAndSettle(a, amount, route) ==
  /\ Is(a, "analyzing")
  /\ route \in RouteDecision(amount)
  /\ charge' = [charge EXCEPT ![actor[a].d] = amount]
  /\ actor' = [actor EXCEPT ![a].step = "settle", ![a].amount = amount, ![a].route = route]
  /\ IF route = "HUMAN_REVIEW" THEN Mark(actor[a].d, "HUMAN_REVIEW") ELSE UNCHANGED status
  /\ UNCHANGED <<jobs, money, events, disturbed>>

\* RecordDecision and UpdateDecision; the status follows in a statement of its own.
Decide(a, amount, route) ==
  /\ Is(a, "analyzing")
  /\ route \in RouteDecision(amount)
  /\ charge' = [charge EXCEPT ![actor[a].d] = amount]
  /\ IF route = "HUMAN_REVIEW"
     THEN Mark(actor[a].d, "HUMAN_REVIEW") /\ Stop(a)
     ELSE /\ actor' = [actor EXCEPT ![a].step = "settle", ![a].amount = amount, ![a].route = route]
          /\ UNCHANGED status
  /\ UNCHANGED <<jobs, money, events, disturbed>>

-----------------------------------------------------------------------------
(* The human reviewer.                                                     *)

\* ResolveByHuman: OVERRIDE charges the amount sent, if any; APPROVE the agent's amount,
\* whatever was sent.
Resolve(a, d, action, sent) ==
  /\ Is(a, "idle")
  /\ status[d] = "HUMAN_REVIEW"
  /\ IF action = "APPROVE" /\ sent # {} THEN Event("approve") ELSE UNCHANGED events
  /\ \E amount \in IF action = "OVERRIDE" /\ sent # {} THEN sent ELSE {charge[d]} :
       actor' = [actor EXCEPT ![a] = [Idle EXCEPT !.step = "settle", !.d = d, !.amount = amount,
                                                 !.sent = sent]]
  /\ Disturb(d, Busy(d) # {} \/ (action = "APPROVE" /\ sent \notin {{}, {charge[d]}}))
  /\ UNCHANGED <<status, charge, jobs, money>>

\* handleRequestEvidence asks for no particular status; the re-prompt job is best-effort.
RequestEvidence(d) ==
  /\ Event("evidence")
  /\ status[d] \in Status
  /\ Mark(d, "INCONCLUSIVE")
  /\ \/ jobs' = jobs \cup {<<"reprompt", d>>}
     \/ "queue" \in Features /\ UNCHANGED jobs
  /\ Disturb(d, Busy(d) # {} \/ <<"resolution", d>> \in jobs \/ drawn[d] > 0)
  /\ UNCHANGED <<charge, money, actor>>

-----------------------------------------------------------------------------
(* Settlement: executeDecision and ResolveByHuman take the same path.      *)

\* Nothing to charge: the hold is released, and a failure of that only logged.
SettleNothing(a) ==
  /\ Is(a, "settle") /\ actor[a].amount = 0
  /\ Goto(a, "mark")
  /\ \/ hold.released = 0 /\ hold' = H!AfterRelease(hold) /\ UNCHANGED events
     \/ hold.released > 0 /\ UNCHANGED <<hold, events>>   \* already cancelled at Stripe
     \/ Event("stripe") /\ UNCHANGED hold
  /\ UNCHANGED <<status, charge, jobs, fund, taken, drawn, disturbed>>

\* Slip: the whole amount goes on to the card as well.
SettleReadsFull(a) ==
  LET o == actor[a]
      fromHold == IF o.amount <= hold.remaining THEN o.amount ELSE hold.remaining IN
  /\ Is(a, "settle") /\ o.amount > 0
  /\ actor' = [actor EXCEPT ![a].step = IF fromHold > 0 THEN "capture" ELSE "card",
                            ![a].amount = fromHold, ![a].over = o.amount]
  /\ UNCHANGED <<status, charge, jobs, money, events, disturbed>>

\* Slip: a hold that cannot cover everything is passed over.
SettleReadsAllOrCard(a) ==
  LET o == actor[a] IN
  /\ Is(a, "settle") /\ o.amount > 0
  /\ actor' = [actor EXCEPT ![a].step = IF o.amount <= hold.remaining THEN "capture" ELSE "card",
                            ![a].over = IF o.amount <= hold.remaining THEN 0 ELSE o.amount]
  /\ UNCHANGED <<status, charge, jobs, money, events, disturbed>>

\* The hold is read: what it cannot cover is left for the card.
SettleReads(a) ==
  LET o == actor[a]
      fromHold == IF o.amount <= hold.remaining THEN o.amount ELSE hold.remaining IN
  /\ Is(a, "settle") /\ o.amount > 0
  /\ actor' = [actor EXCEPT ![a].step = IF fromHold > 0 THEN "capture" ELSE "card",
                            ![a].amount = fromHold, ![a].over = o.amount - fromHold]
  /\ UNCHANGED <<status, charge, jobs, money, events, disturbed>>

\* CaptureFromHold, which compares the amount with what remains by now.
Capture(a) ==
  /\ Is(a, "capture")
  /\ actor[a].amount <= hold.remaining
  /\ hold' = H!AfterCapture(hold, actor[a].amount, "damage")
  /\ Draw(a, actor[a].amount)
  /\ Goto(a, IF actor[a].over > 0 THEN "card" ELSE "mark")
  /\ UNCHANGED <<status, charge, jobs, fund, taken, events, disturbed>>

ChargeCard(a) ==
  /\ Is(a, "card")
  /\ taken' = [taken EXCEPT !.card = @ + actor[a].over]
  /\ Draw(a, actor[a].over)
  /\ Goto(a, "mark")
  /\ UNCHANGED <<status, charge, jobs, hold, fund, events, disturbed>>

\* The charge is refused, or was made although its answer is lost.
CardFails(a) ==
  /\ Is(a, "card")
  /\ Event("stripe")
  /\ \E made \in {0, actor[a].over} :
       /\ taken' = [taken EXCEPT !.card = @ + made]
       /\ Draw(a, made)
       /\ Disturb(actor[a].d, made > 0)
  /\ Goto(a, "fund")
  /\ UNCHANGED <<status, charge, jobs, hold, fund>>

\* Claim: the fund pays what it has; an empty fund is an error, see GiveUp.
ClaimFund(a) ==
  LET claimed == IF actor[a].over > fund THEN fund ELSE actor[a].over IN
  /\ Is(a, "fund")
  /\ fund > 0
  /\ fund' = fund - claimed
  /\ taken' = [taken EXCEPT !.fund = @ + claimed]
  /\ Draw(a, claimed)
  /\ actor' = [actor EXCEPT ![a].step = IF actor[a].over > claimed THEN "refer" ELSE "mark",
                            ![a].over = @ - claimed]
  /\ UNCHANGED <<status, charge, jobs, hold, events, disturbed>>

\* RecordCollectionsReferral, for what the fund could not cover.
Refer(a) ==
  /\ Is(a, "refer")
  /\ taken' = [taken EXCEPT !.collections = @ + actor[a].over]
  /\ Draw(a, actor[a].over)
  /\ Goto(a, "mark")
  /\ UNCHANGED <<status, charge, jobs, hold, fund, events, disturbed>>

\* The settlement is done: AUTO_RESOLVED by the agent, RESOLVED by the reviewer, and
\* UpdateReview stores the amount the reviewer sent.
MarkSettled(a) ==
  LET o == actor[a] IN
  /\ Is(a, "mark")
  /\ Mark(o.d, IF ByAgent(a) THEN "AUTO_RESOLVED" ELSE "RESOLVED")
  /\ IF o.route = "AUTO_RESOLVE_AUDIT" THEN Goto(a, "audit") ELSE Stop(a)
  /\ charge' = [charge EXCEPT ![o.d] = IF o.sent = {} THEN @ ELSE CHOOSE c \in o.sent : TRUE]
  /\ UNCHANGED <<jobs, money, events, disturbed>>

MarkAudited(a) ==
  /\ Is(a, "audit")
  /\ Mark(actor[a].d, "AUDIT_QUEUED")
  /\ Stop(a)
  /\ UNCHANGED <<charge, jobs, money, events, disturbed>>

\* The operation ends with an error: River will run the job again from the start, the
\* reviewer's request is over and may be repeated.
GiveUp(a) ==
  /\ jobs' = IF ByAgent(a) THEN jobs \cup {<<actor[a].job, actor[a].d>>} ELSE jobs
  /\ Stop(a)
  /\ Disturb(actor[a].d, drawn[actor[a].d] > 0)
  /\ UNCHANGED <<status, charge, money>>

\* What the hold is asked for is no longer there, or the fund is empty.
Refused(a) ==
  /\ \/ Is(a, "capture") /\ actor[a].amount > hold.remaining
     \/ Is(a, "fund") /\ fund = 0
  /\ GiveUp(a)
  /\ UNCHANGED events

\* The process dies, or the database or Stripe fails, at any step.
Crash(a) ==
  /\ ~ Is(a, "idle")
  /\ Event("crash")
  /\ GiveUp(a)

-----------------------------------------------------------------------------

Work(a) ==
  \/ \E d \in Disputes : TakeResolution(a, d) \/ TakeReprompt(a, d)
  \/ RepromptEscalates(a) \/ Analyze(a)
  \/ \E amount \in Charges, route \in Route : Decide(a, amount, route)

Settle(a) ==
  \/ SettleNothing(a) \/ SettleReads(a) \/ Capture(a) \/ ChargeCard(a)
  \/ ClaimFund(a) \/ Refer(a) \/ MarkSettled(a) \/ MarkAudited(a) \/ Refused(a)

Next ==
  \/ \E d \in Disputes : FileReads(d) \/ FileInserts(d) \/ RequestEvidence(d)
  \/ \E a \in Actors :
       \/ Work(a) \/ Settle(a) \/ AgentFails(a) \/ CardFails(a) \/ Crash(a)
       \/ \E d \in Disputes, action \in {"APPROVE", "OVERRIDE"},
             sent \in {{}} \cup {{c} : c \in Charges} : Resolve(a, d, action, sent)

Spec == Init /\ [][Next]_vars

\* Requests that were started and jobs that were queued go on; nobody has to file or
\* review anything.
Fairness ==
  /\ \A d \in Disputes : WF_vars(FileInserts(d))
  /\ \A a \in Actors : WF_vars(Work(a)) /\ WF_vars(Settle(a))

FairSpec == Spec /\ Fairness

-----------------------------------------------------------------------------
(* Properties.                                                             *)

Settled(d) == status[d] \in Closed

\* When nobody is at work on a dispute, exactly what was decided has been drawn for it if it
\* is settled, over hold, card, fund and collections together, and nothing if it is not:
\* nothing is charged twice, and no part of a decision is lost on the way, whatever the other
\* dispute of the booking takes meanwhile.  Not for a dispute that was disturbed: no step of
\* a settlement remembers that it was done, and nothing keeps two from running.
ChargedAsDecided ==
  \A d \in Disputes \ disturbed :
    Busy(d) = {} => drawn[d] = IF Settled(d) THEN charge[d] ELSE 0

\* "Idempotency keys on all payment operations": a job or a request that is repeated after it
\* has drawn money does not draw it again.
ChargedOnce == \A d \in Disputes : Busy(d) = {} /\ Settled(d) => drawn[d] <= charge[d]

\* However many settlements run at once, the card, the fund and collections are drawn on
\* only once nothing is left of the hold, and collections only once the fund is empty
\* ("capture full remaining hold + charge difference to card").
DrawnInOrder ==
  /\ taken.card + taken.fund + taken.collections > 0 => hold.remaining = 0
  /\ taken.collections > 0 => fund = 0

\* While a dispute waits for a human, no agent moves money for it ("Queue for human
\* review before execution").  Not if it was disturbed: evidence that is asked for while an
\* agent has the dispute in hand brings it before a human behind that agent's back.
HumanDecidesFirst ==
  [][\A a \in Actors, d \in Disputes \ disturbed :
       status[d] = "HUMAN_REVIEW" /\ actor[a].d = d /\ ByAgent(a) => UNCHANGED money]_vars

\* A filed dispute whose job was queued is settled or comes before a human.
ProcessedInTheEnd ==
  \A d \in Disputes :
    <<"resolution", d>> \in jobs ~> status[d] \in Closed \cup {"HUMAN_REVIEW", "INCONCLUSIVE"}

=============================================================================
