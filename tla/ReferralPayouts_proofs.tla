----------------------- MODULE ReferralPayouts_proofs -----------------------
(***************************************************************************)
(* Theorems about ReferralPayouts, for any number of referees, checkouts   *)
(* and workers and any bounds.  Like those of LateReturn_proofs they are   *)
(* stated of MC_Money, in which ReferralPayouts is the instance R.  The    *)
(* last one joins the types of the three components of MC_Money.           *)
(***************************************************************************)
EXTENDS LateReturn_proofs, GuaranteeFund_proofs

PayoutRow == [of : Referees, party : R!Party, status : R!PayoutStatus]
PayerSteps == {"idle", "judge", "insert", "paid", "queue", "mark", "pay", "record"}
EvaluateSteps == {"judge", "insert", "paid", "queue"}
PaySteps == {"mark", "pay", "record"}
Payer == [step : PayerSteps, job : R!Job \cup {R!NoJob}, rows : SUBSET Nat]

\* Types, and what a job refers to: a transfer is of a row that is there.
ReferralTypes ==
  /\ referral \in [Referees -> R!ReferralStatus \cup {"none"}]
  /\ hook \in [Referees -> [Checkouts -> {"new", "advance", "enqueue", "done"}]]
  /\ payouts \in Seq(PayoutRow)
  /\ queue \subseteq R!Job
  /\ payer \in [Workers -> Payer]
  /\ wired \in BOOLEAN
  /\ transfers \in [Referees \X R!Party -> Nat]
  /\ incidents \subseteq ReferralFeatures
  /\ \A j \in queue : j.kind = "transfer" => j.no \in DOMAIN payouts
  /\ \A w \in Workers :
       /\ payer[w].rows \subseteq DOMAIN payouts
       /\ payer[w].step \in EvaluateSteps =>
            payer[w].job \in R!Job /\ payer[w].job.kind = "evaluate"
       /\ payer[w].step \in PaySteps =>
            /\ payer[w].job \in R!Job /\ payer[w].job.kind = "transfer"
            /\ payer[w].job.no \in DOMAIN payouts

-----------------------------------------------------------------------------
(* What the operators do.                                                  *)

LEMMA PayerFields ==
  ASSUME NEW o \in Payer
  PROVE  /\ \A s \in PayerSteps : [o EXCEPT !.step = s] \in Payer
         /\ \A j \in R!Job \cup {R!NoJob} : [o EXCEPT !.job = j] \in Payer
         /\ \A rs \in SUBSET Nat : [o EXCEPT !.rows = rs] \in Payer
  BY DEF Payer

LEMMA PayerIdle == R!Idle \in Payer /\ R!Idle.step = "idle" /\ R!Idle.rows = {}
  BY DEF R!Idle, Payer, PayerSteps

LEMMA PayerWrite ==
  ASSUME payer \in [Workers -> Payer], NEW w \in Workers, NEW o \in Payer,
         payer' = [payer EXCEPT ![w] = o]
  PROVE  /\ payer' \in [Workers -> Payer] /\ payer'[w] = o
         /\ \A v \in Workers : v # w => payer'[v] = payer[v]
  OBVIOUS

LEMMA PayerGoing ==
  ASSUME payer \in [Workers -> Payer], NEW w \in Workers, NEW s \in PayerSteps, R!Goto(w, s)
  PROVE  /\ payer' \in [Workers -> Payer]
         /\ payer'[w].step = s /\ payer'[w].job = payer[w].job /\ payer'[w].rows = payer[w].rows
         /\ \A v \in Workers : v # w => payer'[v] = payer[v]
  <1>1. payer' = [payer EXCEPT ![w] = [payer[w] EXCEPT !.step = s]]
    BY Zenon DEF R!Goto
  <1>2. payer[w] \in Payer
    OBVIOUS
  <1>3. [payer[w] EXCEPT !.step = s] \in Payer
    BY <1>2, PayerFields
  <1> QED BY <1>1, <1>2, <1>3, PayerWrite DEF Payer

LEMMA PayerStopping ==
  ASSUME payer \in [Workers -> Payer], NEW w \in Workers, R!Stop(w)
  PROVE  /\ payer' \in [Workers -> Payer]
         /\ payer'[w].step = "idle" /\ payer'[w].rows = {}
         /\ \A v \in Workers : v # w => payer'[v] = payer[v]
  BY PayerIdle, PayerWrite DEF R!Stop

LEMMA PayerRunning ==
  ASSUME payer \in [Workers -> Payer], NEW w \in Workers, NEW s \in PayerSteps,
         NEW job \in R!Job, R!Run(w, job, s)
  PROVE  /\ payer' \in [Workers -> Payer]
         /\ payer'[w].step = s /\ payer'[w].job = job /\ payer'[w].rows = {}
         /\ \A v \in Workers : v # w => payer'[v] = payer[v]
  <1>1. PICK p : p = [R!Idle EXCEPT !.step = s]
    OBVIOUS
  <1>2. PICK q : q = [p EXCEPT !.job = job]
    OBVIOUS
  <1>3. payer' = [payer EXCEPT ![w] = q]
    BY <1>1, <1>2 DEF R!Run
  <1>4. p \in Payer /\ p.step = s /\ p.rows = {}
    BY <1>1, PayerIdle, PayerFields DEF Payer
  <1>5. q \in Payer /\ q.step = s /\ q.rows = {} /\ q.job = job
    BY <1>2, <1>4, PayerFields DEF Payer
  <1> QED BY <1>3, <1>5, PayerWrite

LEMMA EventFacts ==
  ASSUME NEW kind, R!Event(kind), incidents \subseteq ReferralFeatures
  PROVE  incidents' = incidents \cup {kind} /\ incidents' \subseteq ReferralFeatures
  BY DEF R!Event

LEMMA PayoutFacts ==
  ASSUME ReferralTypes
  PROVE  /\ Len(payouts) \in Nat /\ DOMAIN payouts = 1 .. Len(payouts)
         /\ \A i \in DOMAIN payouts :
              /\ payouts[i] \in PayoutRow /\ payouts[i].of \in Referees
              /\ payouts[i].party \in R!Party
              /\ <<payouts[i].of, payouts[i].party>> \in Referees \X R!Party
  <1>1. payouts \in Seq(PayoutRow)
    BY DEF ReferralTypes
  <1>2. Len(payouts) \in Nat /\ DOMAIN payouts = 1 .. Len(payouts)
    BY <1>1
  <1>3. \A i \in DOMAIN payouts : payouts[i] \in PayoutRow
    BY <1>1
  <1> QED BY <1>2, <1>3 DEF PayoutRow

\* Setting the status of a row leaves what the row is for.
LEMMA SetPayoutFacts ==
  ASSUME ReferralTypes, NEW w \in Workers, payer[w].step \in PaySteps,
         NEW status \in R!PayoutStatus, R!SetPayout(w, status)
  PROVE  /\ payouts' \in Seq(PayoutRow) /\ Len(payouts') = Len(payouts)
         /\ DOMAIN payouts' = DOMAIN payouts
         /\ \A i \in DOMAIN payouts :
              /\ payouts'[i].of = payouts[i].of /\ payouts'[i].party = payouts[i].party
              /\ payouts'[i].status = IF i = payer[w].job.no THEN status ELSE payouts[i].status
  <1> DEFINE i == payer[w].job.no  r == [payouts[i] EXCEPT !.status = status]
  <1>1. payouts \in Seq(PayoutRow) /\ i \in 1 .. Len(payouts) /\ payouts[i] \in PayoutRow
    BY PayoutFacts DEF ReferralTypes
  <1>2. r \in PayoutRow /\ r.of = payouts[i].of /\ r.party = payouts[i].party /\ r.status = status
    BY <1>1 DEF PayoutRow
  <1>3. payouts' = [payouts EXCEPT ![i] = r]
    BY Zenon DEF R!SetPayout
  <1> HIDE DEF r, i
  <1>4. /\ payouts' \in Seq(PayoutRow) /\ Len(payouts') = Len(payouts)
        /\ \A k \in 1 .. Len(payouts) : payouts'[k] = IF k = i THEN r ELSE payouts[k]
    BY <1>1, <1>2, <1>3, ExceptSeq
  <1>5. DOMAIN payouts' = DOMAIN payouts /\ DOMAIN payouts = 1 .. Len(payouts)
    BY <1>1, <1>4
  <1> QED BY <1>2, <1>4, <1>5 DEF i

-----------------------------------------------------------------------------
(* What the actions do.                                                    *)

PayerOnly(w) ==
  payer' \in [Workers -> Payer] /\ \A v \in Workers : v # w => payer'[v] = payer[v]

LEMMA JobTaken ==
  ASSUME ReferralTypes, NEW w \in Workers, NEW job, NEW kind, R!Take(w, job, kind)
  PROVE  /\ payer[w].step = "idle" /\ job \in queue /\ job \in R!Job /\ job.kind = kind
         /\ job.of \in Referees /\ queue' = queue \ {job} /\ queue' \subseteq R!Job
  BY DEF R!Take, R!Is, R!Job, ReferralTypes

LEMMA EvaluateReadsFacts ==
  ASSUME ReferralTypes, NEW w \in Workers, NEW job \in queue, R!EvaluateReads(w, job)
  PROVE  /\ R!Take(w, job, "evaluate")
         /\ UNCHANGED <<referral, hook, payouts, wired, transfers, incidents>>
         /\ PayerOnly(w)
         /\ \/ payer' = payer
            \/ payer'[w].step = "judge" /\ payer'[w].job = job /\ payer'[w].rows = {}
  <1>1. /\ payer \in [Workers -> Payer] /\ job \in R!Job /\ "judge" \in PayerSteps
        /\ R!Take(w, job, "evaluate")
        /\ UNCHANGED <<referral, hook, payouts, wired, transfers, incidents>>
        /\ UNCHANGED payer \/ R!Run(w, job, "judge")
    BY DEF ReferralTypes, R!EvaluateReads, PayerSteps
  <1>2. CASE UNCHANGED payer
    BY <1>1, <1>2 DEF PayerOnly
  <1>3. CASE R!Run(w, job, "judge")
    BY <1>1, <1>3, PayerRunning DEF PayerOnly
  <1> QED BY <1>1, <1>2, <1>3

LEMMA TransferReadsFacts ==
  ASSUME ReferralTypes, NEW w \in Workers, NEW job \in queue, R!TransferReads(w, job)
  PROVE  /\ R!Take(w, job, "transfer")
         /\ UNCHANGED <<referral, hook, payouts, wired, transfers, incidents>>
         /\ PayerOnly(w)
         /\ \/ payer' = payer
            \/ payer'[w].step = "mark" /\ payer'[w].job = job /\ payer'[w].rows = {}
  <1>1. /\ payer \in [Workers -> Payer] /\ job \in R!Job /\ "mark" \in PayerSteps
        /\ R!Take(w, job, "transfer")
        /\ UNCHANGED <<referral, hook, payouts, wired, transfers, incidents>>
        /\ UNCHANGED payer \/ R!Run(w, job, "mark")
    BY DEF ReferralTypes, R!TransferReads, PayerSteps
  <1>2. CASE UNCHANGED payer
    BY <1>1, <1>2 DEF PayerOnly
  <1>3. CASE R!Run(w, job, "mark")
    BY <1>1, <1>3, PayerRunning DEF PayerOnly
  <1> QED BY <1>1, <1>2, <1>3

\* A job that gives up is queued again.
LEMMA JobRetried ==
  ASSUME ReferralTypes, NEW w \in Workers, payer[w].step # "idle", R!Retry(w)
  PROVE  /\ PayerOnly(w) /\ payer'[w].step = "idle" /\ payer'[w].rows = {}
         /\ queue' = queue \cup {payer[w].job} /\ payer[w].job \in R!Job /\ queue' \subseteq R!Job
  <1>1. payer \in [Workers -> Payer] /\ payer[w] \in Payer /\ queue \subseteq R!Job
    BY DEF ReferralTypes
  <1>2. payer[w].step \in EvaluateSteps \cup PaySteps
    BY <1>1 DEF Payer, PayerSteps, EvaluateSteps, PaySteps
  <1>3. payer[w].job \in R!Job
    BY <1>2 DEF ReferralTypes
  <1> QED BY <1>1, <1>3, PayerStopping DEF R!Retry, PayerOnly

LEMMA FindsFraudFacts ==
  ASSUME ReferralTypes, NEW w \in Workers, R!FindsFraud(w)
  PROVE  /\ payer[w].step = "judge" /\ UNCHANGED <<hook, payouts, wired, transfers>>
         /\ referral' = [referral EXCEPT ![payer[w].job.of] = "FRAUDULENT"]
         /\ PayerOnly(w) /\ payer'[w].step = "idle" /\ payer'[w].rows = {}
         /\ incidents \subseteq incidents' /\ incidents' \subseteq ReferralFeatures
         /\ queue' = queue \/ ("crash" \in incidents' /\ queue' = queue \cup {payer[w].job})
  <1>1. payer \in [Workers -> Payer] /\ incidents \subseteq ReferralFeatures
    BY DEF ReferralTypes
  <1>2. /\ payer[w].step = "judge" /\ UNCHANGED <<hook, payouts, wired, transfers>>
        /\ referral' = [referral EXCEPT ![payer[w].job.of] = "FRAUDULENT"]
        /\ \/ R!Stop(w) /\ UNCHANGED <<queue, incidents>>
           \/ R!Event("crash") /\ R!Retry(w)
    BY DEF R!FindsFraud, R!Is, R!UpdateReferralStatus
  <1>3. CASE R!Stop(w) /\ UNCHANGED <<queue, incidents>>
    BY <1>1, <1>2, <1>3, PayerStopping DEF PayerOnly
  <1>4. CASE R!Event("crash") /\ R!Retry(w)
    BY <1>1, <1>2, <1>4, JobRetried, EventFacts
  <1> QED BY <1>2, <1>3, <1>4

LEMMA FindsCleanFacts ==
  ASSUME ReferralTypes, NEW w \in Workers, R!FindsClean(w)
  PROVE  /\ payer[w].step = "judge"
         /\ UNCHANGED <<referral, hook, payouts, queue, wired, transfers>>
         /\ incidents \subseteq incidents' /\ incidents' \subseteq ReferralFeatures
         /\ PayerOnly(w)
         /\ \/ payer'[w].step = "idle" /\ payer'[w].rows = {}
            \/ /\ payer'[w].step = "insert" /\ payer'[w].job = payer[w].job
               /\ payer'[w].rows = payer[w].rows
  <1>1. /\ payer \in [Workers -> Payer] /\ "insert" \in PayerSteps /\ payer[w].step = "judge"
        /\ UNCHANGED <<referral, hook, payouts, queue, wired, transfers>>
        /\ R!Stop(w) \/ R!Goto(w, "insert")
        /\ R!Event("database") \/ UNCHANGED incidents
        /\ incidents \subseteq ReferralFeatures
    BY DEF ReferralTypes, R!FindsClean, R!Is, PayerSteps
  <1>2. incidents \subseteq incidents' /\ incidents' \subseteq ReferralFeatures
    BY <1>1, EventFacts
  <1>3. CASE R!Stop(w)
    BY <1>1, <1>3, <1>2, PayerStopping DEF PayerOnly
  <1>4. CASE R!Goto(w, "insert")
    BY <1>1, <1>4, <1>2, PayerGoing DEF PayerOnly
  <1> QED BY <1>1, <1>3, <1>4

LEMMA InsertPayoutFacts ==
  ASSUME ReferralTypes, NEW w \in Workers, R!InsertPayout(w)
  PROVE  LET new == Len(payouts) + 1
             party == IF payer[w].rows = {} THEN "referrer" ELSE "referee" IN
         /\ payer[w].step = "insert"
         /\ UNCHANGED <<referral, hook, queue, wired, transfers, incidents>>
         /\ payouts' \in Seq(PayoutRow)
         /\ DOMAIN payouts' = DOMAIN payouts \cup {new} /\ new \notin DOMAIN payouts
         /\ \A i \in DOMAIN payouts : payouts'[i] = payouts[i]
         /\ payouts'[new].of = payer[w].job.of /\ payouts'[new].party = party
         /\ PayerOnly(w)
         /\ payer'[w].step = (IF party = "referee" THEN "paid" ELSE "insert")
         /\ payer'[w].job = payer[w].job /\ payer'[w].rows = payer[w].rows \cup {new}
  <1> DEFINE o == payer[w]
             new == Len(payouts) + 1
             party == IF o.rows = {} THEN "referrer" ELSE "referee"
             step == IF party = "referee" THEN "paid" ELSE "insert"
             row == [of |-> o.job.of, party |-> party, status |-> "PENDING"]
  <1>1. /\ payer \in [Workers -> Payer] /\ o \in Payer /\ payouts \in Seq(PayoutRow)
        /\ Len(payouts) \in Nat
    BY PayoutFacts DEF ReferralTypes
  <1>2. /\ o.step = "insert" /\ UNCHANGED <<referral, hook, queue, wired, transfers, incidents>>
        /\ payouts' = Append(payouts, row)
    BY DEF R!InsertPayout, R!Is, R!InsertReferralPayout
  <1>3. o.job \in R!Job
    BY <1>2 DEF ReferralTypes, EvaluateSteps
  <1>4. row \in PayoutRow /\ row.of = o.job.of /\ row.party = party
    BY <1>3 DEF PayoutRow, R!Party, R!PayoutStatus, R!Job
  <1>5. payer' = [payer EXCEPT ![w] = [[o EXCEPT !.rows = o.rows \cup {new}] EXCEPT !.step = step]]
    BY Zenon DEF R!InsertPayout
  <1>6. step \in PayerSteps /\ o.rows \in SUBSET Nat /\ o.rows \cup {new} \in SUBSET Nat
    BY <1>1 DEF PayerSteps, Payer
  <1> HIDE DEF step, row, party
  <1>7. PICK p : p = [o EXCEPT !.rows = o.rows \cup {new}]
    OBVIOUS
  <1>8. PICK q : q = [p EXCEPT !.step = step]
    OBVIOUS
  <1>9. p \in Payer /\ p.rows = o.rows \cup {new} /\ p.job = o.job
    BY <1>1, <1>6, <1>7, PayerFields DEF Payer
  <1>10. q \in Payer /\ q.rows = o.rows \cup {new} /\ q.job = o.job /\ q.step = step
    BY <1>6, <1>8, <1>9, PayerFields DEF Payer
  <1>11. payer' = [payer EXCEPT ![w] = q]
    BY <1>5, <1>7, <1>8
  <1>12. /\ PayerOnly(w) /\ payer'[w].rows = o.rows \cup {new} /\ payer'[w].job = o.job
         /\ payer'[w].step = step
    BY <1>1, <1>10, <1>11, PayerWrite DEF PayerOnly
  <1>13. /\ payouts' \in Seq(PayoutRow)
         /\ DOMAIN payouts' = DOMAIN payouts \cup {new} /\ new \notin DOMAIN payouts
         /\ \A i \in DOMAIN payouts : payouts'[i] = payouts[i]
         /\ payouts'[new] = row
    BY <1>1, <1>2, <1>4, AppendProperties
  <1> QED BY <1>2, <1>4, <1>12, <1>13 DEF step, party

LEMMA MarkPaidFacts ==
  ASSUME ReferralTypes, NEW w \in Workers, R!MarkPaid(w)
  PROVE  /\ payer[w].step = "paid"
         /\ UNCHANGED <<hook, payouts, queue, wired, transfers, incidents>>
         /\ referral' = [referral EXCEPT ![payer[w].job.of] = "PAID"]
         /\ PayerOnly(w) /\ payer'[w].step = "queue" /\ payer'[w].job = payer[w].job
         /\ payer'[w].rows = payer[w].rows
  <1>1. payer \in [Workers -> Payer] /\ "queue" \in PayerSteps
    BY DEF ReferralTypes, PayerSteps
  <1> QED BY <1>1, PayerGoing DEF R!MarkPaid, R!Is, R!UpdateReferralStatus, PayerOnly

LEMMA QueueTransfersFacts ==
  ASSUME ReferralTypes, NEW w \in Workers, R!QueueTransfers(w)
  PROVE  LET new == {[kind |-> "transfer", of |-> payer[w].job.of, no |-> i] : i \in payer[w].rows} IN
         /\ payer[w].step = "queue"
         /\ UNCHANGED <<referral, hook, payouts, wired, transfers>>
         /\ PayerOnly(w) /\ payer'[w].step = "idle" /\ payer'[w].rows = {}
         /\ queue \subseteq queue' /\ queue' \subseteq queue \cup new /\ queue' \subseteq R!Job
         /\ incidents \subseteq incidents' /\ incidents' \subseteq ReferralFeatures
  <1> DEFINE new == {[kind |-> "transfer", of |-> payer[w].job.of, no |-> i] : i \in payer[w].rows}
  <1>1. /\ payer \in [Workers -> Payer] /\ payer[w] \in Payer /\ queue \subseteq R!Job
        /\ incidents \subseteq ReferralFeatures
    BY DEF ReferralTypes
  <1>2. /\ payer[w].step = "queue" /\ R!Stop(w)
        /\ UNCHANGED <<referral, hook, payouts, wired, transfers>>
        /\ \/ queue' = queue \cup new /\ UNCHANGED incidents
           \/ R!Event("queue") /\ queue' \in {queue \cup kept : kept \in SUBSET new}
           \/ UNCHANGED <<queue, incidents>>
    BY DEF R!QueueTransfers, R!Is
  <1>3. new \subseteq R!Job
    <2>1. payer[w].job \in R!Job /\ payer[w].rows \subseteq Nat
      BY <1>1, <1>2 DEF ReferralTypes, EvaluateSteps, Payer
    <2> QED BY <2>1 DEF R!Job
  <1> HIDE DEF new
  <1>4. queue \subseteq queue' /\ queue' \subseteq queue \cup new
    BY <1>2
  <1>5. incidents \subseteq incidents' /\ incidents' \subseteq ReferralFeatures
    BY <1>1, <1>2, EventFacts
  <1>6. PayerOnly(w) /\ payer'[w].step = "idle" /\ payer'[w].rows = {}
    BY <1>1, <1>2, PayerStopping DEF PayerOnly
  <1> QED BY <1>1, <1>2, <1>3, <1>4, <1>5, <1>6 DEF new

LEMMA MarkProcessingFacts ==
  ASSUME ReferralTypes, NEW w \in Workers, R!MarkProcessing(w)
  PROVE  /\ payer[w].step = "mark"
         /\ UNCHANGED <<referral, hook, queue, wired, transfers, incidents>>
         /\ R!SetPayout(w, "PROCESSING") /\ "PROCESSING" \in R!PayoutStatus
         /\ PayerOnly(w) /\ payer'[w].step = "pay" /\ payer'[w].job = payer[w].job
         /\ payer'[w].rows = payer[w].rows
  <1>1. payer \in [Workers -> Payer] /\ "pay" \in PayerSteps /\ "PROCESSING" \in R!PayoutStatus
    BY DEF ReferralTypes, PayerSteps, R!PayoutStatus
  <1> QED BY <1>1, PayerGoing DEF R!MarkProcessing, R!Is, PayerOnly

LEMMA PayFacts ==
  ASSUME ReferralTypes, NEW w \in Workers, R!Pay(w)
  PROVE  LET p == payouts[payer[w].job.no]  rp == <<p.of, p.party>> IN
         /\ payer[w].step = "pay"
         /\ UNCHANGED <<referral, hook, payouts, queue, wired, incidents>>
         /\ rp \in Referees \X R!Party
         /\ transfers' \in [Referees \X R!Party -> Nat] /\ transfers'[rp] = transfers[rp] + 1
         /\ \A q \in Referees \X R!Party : q # rp => transfers'[q] = transfers[q]
         /\ PayerOnly(w) /\ payer'[w].step = "record" /\ payer'[w].job = payer[w].job
         /\ payer'[w].rows = payer[w].rows
  <1> DEFINE p == payouts[payer[w].job.no]  rp == <<p.of, p.party>>
  <1>1. /\ payer \in [Workers -> Payer] /\ "record" \in PayerSteps
        /\ transfers \in [Referees \X R!Party -> Nat]
    BY DEF ReferralTypes, PayerSteps
  <1>2. /\ payer[w].step = "pay" /\ R!Goto(w, "record")
        /\ UNCHANGED <<referral, hook, payouts, queue, wired, incidents>>
        /\ transfers' = [transfers EXCEPT ![rp] = transfers[rp] + 1]
    BY DEF R!Pay, R!Is
  <1>3. payer[w].job.no \in DOMAIN payouts
    BY <1>2 DEF ReferralTypes, PaySteps
  <1>4. rp \in Referees \X R!Party
    BY <1>3, PayoutFacts
  <1> HIDE DEF rp, p
  <1>5. /\ transfers' \in [Referees \X R!Party -> Nat] /\ transfers'[rp] = transfers[rp] + 1
        /\ \A q \in Referees \X R!Party : q # rp => transfers'[q] = transfers[q]
    BY <1>1, <1>2, <1>4
  <1>6. /\ PayerOnly(w) /\ payer'[w].step = "record" /\ payer'[w].job = payer[w].job
        /\ payer'[w].rows = payer[w].rows
    BY <1>1, <1>2, PayerGoing DEF PayerOnly
  <1> QED BY <1>2, <1>4, <1>5, <1>6 DEF rp, p

LEMMA PayFailsFacts ==
  ASSUME ReferralTypes, NEW w \in Workers, R!PayFails(w)
  PROVE  LET p == payouts[payer[w].job.no]  rp == <<p.of, p.party>> IN
         /\ payer[w].step = "pay" /\ UNCHANGED <<referral, hook, wired>>
         /\ transfers' \in [Referees \X R!Party -> Nat]
         /\ \A q \in Referees \X R!Party : q # rp => transfers'[q] = transfers[q]
         /\ transfers' = transfers \/ "lost" \in incidents'
         /\ R!SetPayout(w, "FAILED") \/ UNCHANGED payouts
         /\ "FAILED" \in R!PayoutStatus
         /\ PayerOnly(w) /\ payer'[w].step = "idle" /\ payer'[w].rows = {}
         /\ queue' = queue \cup {payer[w].job} /\ payer[w].job \in R!Job /\ queue' \subseteq R!Job
         /\ incidents \subseteq incidents' /\ incidents' \subseteq ReferralFeatures
  <1> DEFINE p == payouts[payer[w].job.no]  rp == <<p.of, p.party>>
  <1>1. /\ payer[w].step = "pay" /\ UNCHANGED <<referral, hook, wired>>
        /\ R!SetPayout(w, "FAILED") \/ UNCHANGED payouts
        /\ \/ R!Event("stripe") /\ transfers' = transfers
           \/ R!Event("lost") /\ transfers' = [transfers EXCEPT ![rp] = transfers[rp] + 1]
        /\ R!Retry(w) /\ incidents \subseteq ReferralFeatures
        /\ transfers \in [Referees \X R!Party -> Nat]
    BY DEF R!PayFails, R!Is, ReferralTypes
  <1>2. /\ incidents \subseteq incidents' /\ incidents' \subseteq ReferralFeatures
        /\ transfers' = transfers \/ "lost" \in incidents'
    BY <1>1, EventFacts
  <1>3. "FAILED" \in R!PayoutStatus
    BY DEF R!PayoutStatus
  <1>4. payer[w].job.no \in DOMAIN payouts
    BY <1>1 DEF ReferralTypes, PaySteps
  <1>5. rp \in Referees \X R!Party
    BY <1>4, PayoutFacts
  <1> HIDE DEF rp, p
  <1>6. /\ transfers' \in [Referees \X R!Party -> Nat]
        /\ \A q \in Referees \X R!Party : q # rp => transfers'[q] = transfers[q]
    BY <1>1, <1>5
  <1>7. /\ PayerOnly(w) /\ payer'[w].step = "idle" /\ payer'[w].rows = {}
        /\ queue' = queue \cup {payer[w].job} /\ payer[w].job \in R!Job /\ queue' \subseteq R!Job
    BY <1>1, JobRetried
  <1> QED BY <1>1, <1>2, <1>3, <1>6, <1>7 DEF rp, p

LEMMA RecordPaidFacts ==
  ASSUME ReferralTypes, NEW w \in Workers, R!RecordPaid(w)
  PROVE  /\ payer[w].step = "record" /\ UNCHANGED <<referral, hook, queue, wired, transfers>>
         /\ R!SetPayout(w, "PAID") \/ UNCHANGED payouts
         /\ "PAID" \in R!PayoutStatus
         /\ PayerOnly(w) /\ payer'[w].step = "idle" /\ payer'[w].rows = {}
         /\ incidents \subseteq incidents' /\ incidents' \subseteq ReferralFeatures
  <1>1. /\ payer[w].step = "record" /\ UNCHANGED <<referral, hook, queue, wired, transfers>>
        /\ R!SetPayout(w, "PAID") \/ UNCHANGED payouts
        /\ R!Event("database") \/ UNCHANGED incidents
        /\ R!Stop(w) /\ incidents \subseteq ReferralFeatures /\ payer \in [Workers -> Payer]
    BY DEF R!RecordPaid, R!Is, ReferralTypes
  <1>2. incidents \subseteq incidents' /\ incidents' \subseteq ReferralFeatures
    BY <1>1, EventFacts
  <1>3. "PAID" \in R!PayoutStatus
    BY DEF R!PayoutStatus
  <1> QED BY <1>1, <1>2, <1>3, PayerStopping DEF PayerOnly

LEMMA CrashFacts ==
  ASSUME ReferralTypes, NEW w \in Workers, R!Crash(w)
  PROVE  /\ UNCHANGED <<referral, hook, payouts, wired, transfers>>
         /\ payer[w].step # "idle"
         /\ PayerOnly(w) /\ payer'[w].step = "idle" /\ payer'[w].rows = {}
         /\ queue' = queue \cup {payer[w].job} /\ payer[w].job \in R!Job /\ queue' \subseteq R!Job
         /\ "crash" \in incidents' /\ incidents' \subseteq ReferralFeatures
  <1>1. /\ payer[w].step # "idle" /\ UNCHANGED <<referral, hook, payouts, wired, transfers>>
        /\ R!Event("crash") /\ R!Retry(w) /\ incidents \subseteq ReferralFeatures
    BY DEF R!Crash, R!Is, ReferralTypes
  <1>2. "crash" \in incidents' /\ incidents' \subseteq ReferralFeatures
    BY <1>1, EventFacts
  <1> QED BY <1>1, <1>2, JobRetried

-----------------------------------------------------------------------------
(* Types.                                                                  *)

PayerRefs(w) ==
  /\ payer[w].rows \subseteq DOMAIN payouts
  /\ payer[w].step \in EvaluateSteps =>
       payer[w].job \in R!Job /\ payer[w].job.kind = "evaluate"
  /\ payer[w].step \in PaySteps =>
       /\ payer[w].job \in R!Job /\ payer[w].job.kind = "transfer"
       /\ payer[w].job.no \in DOMAIN payouts

QueueRefs == \A j \in queue : j.kind = "transfer" => j.no \in DOMAIN payouts

\* A job step that keeps the rows there are: what has to be said of the worker itself.
LEMMA ReferralTypesBy ==
  ASSUME ReferralTypes, NEW w \in Workers, PayerOnly(w), PayerRefs(w)',
         referral' \in [Referees -> R!ReferralStatus \cup {"none"}],
         hook' = hook, wired' = wired, payouts' \in Seq(PayoutRow),
         DOMAIN payouts \subseteq DOMAIN payouts',
         queue' \subseteq R!Job, QueueRefs',
         transfers' \in [Referees \X R!Party -> Nat], incidents' \subseteq ReferralFeatures
  PROVE  ReferralTypes'
  <1>1. \A v \in Workers : PayerRefs(v)'
    <2> SUFFICES ASSUME NEW v \in Workers, v # w PROVE PayerRefs(v)'
      OBVIOUS
    <2>1. PayerRefs(v) /\ payer'[v] = payer[v]
      BY DEF ReferralTypes, PayerRefs, PayerOnly
    <2> QED BY <2>1 DEF PayerRefs
  <1> QED BY <1>1 DEF ReferralTypes, PayerRefs, QueueRefs, PayerOnly

LEMMA ReferralStatusWritten ==
  ASSUME ReferralTypes, NEW r, NEW to \in R!ReferralStatus, R!UpdateReferralStatus(r, to)
  PROVE  /\ referral' \in [Referees -> R!ReferralStatus \cup {"none"}]
         /\ r \in Referees => referral'[r] = to
         /\ \A q \in Referees : q # r => referral'[q] = referral[q]
  BY DEF R!UpdateReferralStatus, ReferralTypes

LEMMA EvaluateTypes ==
  ASSUME ReferralTypes, NEW w \in Workers,
         \/ \E job \in queue : R!EvaluateReads(w, job)
         \/ R!FindsFraud(w) \/ R!FindsClean(w) \/ R!InsertPayout(w) \/ R!MarkPaid(w)
         \/ R!QueueTransfers(w)
  PROVE  ReferralTypes'
  <1> USE DEF EvaluateSteps, PaySteps
  <1>0. /\ referral \in [Referees -> R!ReferralStatus \cup {"none"}]
        /\ payouts \in Seq(PayoutRow) /\ queue \subseteq R!Job /\ QueueRefs
        /\ transfers \in [Referees \X R!Party -> Nat] /\ incidents \subseteq ReferralFeatures
        /\ PayerRefs(w)
    BY DEF ReferralTypes, PayerRefs, QueueRefs
  <1>1. ASSUME NEW job \in queue, R!EvaluateReads(w, job) PROVE ReferralTypes'
    <2>1. /\ UNCHANGED <<referral, hook, payouts, wired, transfers, incidents>> /\ PayerOnly(w)
          /\ job \in R!Job /\ job.kind = "evaluate" /\ queue' \subseteq queue
          /\ \/ payer' = payer
             \/ payer'[w].step = "judge" /\ payer'[w].job = job /\ payer'[w].rows = {}
      BY <1>1, EvaluateReadsFacts, JobTaken
    <2>2. PayerRefs(w)' /\ QueueRefs'
      BY <1>0, <2>1 DEF PayerRefs, QueueRefs
    <2> QED BY <1>0, <2>1, <2>2, ReferralTypesBy
  <1>2. CASE R!FindsFraud(w)
    <2>1. /\ UNCHANGED <<hook, payouts, wired, transfers>> /\ PayerOnly(w)
          /\ payer'[w].step = "idle" /\ payer'[w].rows = {} /\ payer[w].step = "judge"
          /\ incidents' \subseteq ReferralFeatures
          /\ queue' \subseteq queue \cup {payer[w].job}
          /\ R!UpdateReferralStatus(payer[w].job.of, "FRAUDULENT")
      BY <1>2, FindsFraudFacts DEF R!UpdateReferralStatus
    <2>2. PayerRefs(w)' /\ QueueRefs' /\ queue' \subseteq R!Job
      BY <1>0, <2>1 DEF PayerRefs, QueueRefs
    <2>3. "FRAUDULENT" \in R!ReferralStatus
      BY DEF R!ReferralStatus
    <2>4. referral' \in [Referees -> R!ReferralStatus \cup {"none"}]
      BY <2>1, <2>3, ReferralStatusWritten
    <2> QED BY <1>0, <2>1, <2>2, <2>4, ReferralTypesBy
  <1>3. CASE R!FindsClean(w)
    <2>1. /\ UNCHANGED <<referral, hook, payouts, queue, wired, transfers>>
          /\ incidents' \subseteq ReferralFeatures
          /\ PayerOnly(w) /\ payer[w].step = "judge"
          /\ \/ payer'[w].step = "idle" /\ payer'[w].rows = {}
             \/ /\ payer'[w].step = "insert" /\ payer'[w].job = payer[w].job
                /\ payer'[w].rows = payer[w].rows
      BY <1>3, FindsCleanFacts
    <2>2. PayerRefs(w)' /\ QueueRefs'
      BY <1>0, <2>1 DEF PayerRefs, QueueRefs
    <2> QED BY <1>0, <2>1, <2>2, ReferralTypesBy
  <1>4. CASE R!InsertPayout(w)
    <2> DEFINE new == Len(payouts) + 1
    <2>1. /\ UNCHANGED <<referral, hook, queue, wired, transfers, incidents>>
          /\ PayerOnly(w) /\ payer[w].step = "insert" /\ payouts' \in Seq(PayoutRow)
          /\ DOMAIN payouts' = DOMAIN payouts \cup {new}
          /\ payer'[w].step \in {"paid", "insert"}
          /\ payer'[w].job = payer[w].job /\ payer'[w].rows = payer[w].rows \cup {new}
      BY <1>4, InsertPayoutFacts
    <2> HIDE DEF new
    <2>2. PayerRefs(w)' /\ QueueRefs'
      BY <1>0, <2>1 DEF PayerRefs, QueueRefs
    <2> QED BY <1>0, <2>1, <2>2, ReferralTypesBy
  <1>5. CASE R!MarkPaid(w)
    <2>1. /\ UNCHANGED <<hook, payouts, queue, wired, transfers, incidents>>
          /\ PayerOnly(w) /\ payer[w].step = "paid" /\ payer'[w].step = "queue"
          /\ payer'[w].job = payer[w].job /\ payer'[w].rows = payer[w].rows
          /\ R!UpdateReferralStatus(payer[w].job.of, "PAID")
      BY <1>5, MarkPaidFacts DEF R!UpdateReferralStatus
    <2>2. PayerRefs(w)' /\ QueueRefs'
      BY <1>0, <2>1 DEF PayerRefs, QueueRefs
    <2>3. "PAID" \in R!ReferralStatus
      BY DEF R!ReferralStatus
    <2>4. referral' \in [Referees -> R!ReferralStatus \cup {"none"}]
      BY <2>1, <2>3, ReferralStatusWritten
    <2> QED BY <1>0, <2>1, <2>2, <2>4, ReferralTypesBy
  <1>6. CASE R!QueueTransfers(w)
    <2> DEFINE new == {[kind |-> "transfer", of |-> payer[w].job.of, no |-> i] : i \in payer[w].rows}
    <2>1. /\ UNCHANGED <<referral, hook, payouts, wired, transfers>>
          /\ PayerOnly(w) /\ payer'[w].step = "idle" /\ payer'[w].rows = {}
          /\ queue' \subseteq queue \cup new /\ queue' \subseteq R!Job
          /\ incidents' \subseteq ReferralFeatures
      BY <1>6, QueueTransfersFacts
    <2>2. \A j \in new : j.no \in DOMAIN payouts
      BY <1>0 DEF PayerRefs
    <2> HIDE DEF new
    <2>3. PayerRefs(w)' /\ QueueRefs'
      BY <1>0, <2>1, <2>2 DEF PayerRefs, QueueRefs
    <2> QED BY <1>0, <2>1, <2>3, ReferralTypesBy
  <1> QED BY <1>1, <1>2, <1>3, <1>4, <1>5, <1>6

LEMMA PayTypes ==
  ASSUME ReferralTypes, NEW w \in Workers,
         \/ \E job \in queue : R!TransferReads(w, job)
         \/ R!MarkProcessing(w) \/ R!Pay(w) \/ R!PayFails(w) \/ R!RecordPaid(w) \/ R!Crash(w)
  PROVE  ReferralTypes'
  <1> USE DEF EvaluateSteps, PaySteps
  <1>0. /\ referral \in [Referees -> R!ReferralStatus \cup {"none"}]
        /\ payouts \in Seq(PayoutRow) /\ queue \subseteq R!Job /\ QueueRefs
        /\ transfers \in [Referees \X R!Party -> Nat] /\ incidents \subseteq ReferralFeatures
        /\ PayerRefs(w)
    BY DEF ReferralTypes, PayerRefs, QueueRefs
  <1>1. ASSUME NEW job \in queue, R!TransferReads(w, job) PROVE ReferralTypes'
    <2>1. /\ UNCHANGED <<referral, hook, payouts, wired, transfers, incidents>> /\ PayerOnly(w)
          /\ job \in R!Job /\ job.kind = "transfer" /\ job \in queue /\ queue' \subseteq queue
          /\ \/ payer' = payer
             \/ payer'[w].step = "mark" /\ payer'[w].job = job /\ payer'[w].rows = {}
      BY <1>1, TransferReadsFacts, JobTaken
    <2>2. PayerRefs(w)' /\ QueueRefs'
      BY <1>0, <2>1 DEF PayerRefs, QueueRefs
    <2> QED BY <1>0, <2>1, <2>2, ReferralTypesBy
  <1>2. CASE R!MarkProcessing(w)
    <2>1. /\ UNCHANGED <<referral, hook, queue, wired, transfers, incidents>> /\ PayerOnly(w)
          /\ payer[w].step = "mark" /\ payer'[w].step = "pay" /\ payer'[w].job = payer[w].job
          /\ payer'[w].rows = payer[w].rows
          /\ payouts' \in Seq(PayoutRow) /\ DOMAIN payouts' = DOMAIN payouts
      BY <1>2, MarkProcessingFacts, SetPayoutFacts
    <2>2. PayerRefs(w)' /\ QueueRefs'
      BY <1>0, <2>1 DEF PayerRefs, QueueRefs
    <2> QED BY <1>0, <2>1, <2>2, ReferralTypesBy
  <1>3. CASE R!Pay(w)
    <2>1. /\ UNCHANGED <<referral, hook, payouts, queue, wired, incidents>> /\ PayerOnly(w)
          /\ transfers' \in [Referees \X R!Party -> Nat]
          /\ payer[w].step = "pay" /\ payer'[w].step = "record" /\ payer'[w].job = payer[w].job
          /\ payer'[w].rows = payer[w].rows
      BY <1>3, PayFacts
    <2>2. PayerRefs(w)' /\ QueueRefs'
      BY <1>0, <2>1 DEF PayerRefs, QueueRefs
    <2> QED BY <1>0, <2>1, <2>2, ReferralTypesBy
  <1>4. CASE R!PayFails(w)
    <2>1. /\ UNCHANGED <<referral, hook, wired>> /\ PayerOnly(w)
          /\ transfers' \in [Referees \X R!Party -> Nat]
          /\ payer'[w].step = "idle" /\ payer'[w].rows = {} /\ payer[w].step = "pay"
          /\ payouts' \in Seq(PayoutRow) /\ DOMAIN payouts' = DOMAIN payouts
          /\ queue' = queue \cup {payer[w].job} /\ queue' \subseteq R!Job
          /\ incidents' \subseteq ReferralFeatures
      BY <1>0, <1>4, PayFailsFacts, SetPayoutFacts
    <2>2. PayerRefs(w)' /\ QueueRefs'
      BY <1>0, <2>1 DEF PayerRefs, QueueRefs
    <2> QED BY <1>0, <2>1, <2>2, ReferralTypesBy
  <1>5. CASE R!RecordPaid(w)
    <2>1. /\ UNCHANGED <<referral, hook, queue, wired, transfers>> /\ PayerOnly(w)
          /\ payer'[w].step = "idle" /\ payer'[w].rows = {} /\ payer[w].step = "record"
          /\ payouts' \in Seq(PayoutRow) /\ DOMAIN payouts' = DOMAIN payouts
          /\ incidents' \subseteq ReferralFeatures
      BY <1>0, <1>5, RecordPaidFacts, SetPayoutFacts
    <2>2. PayerRefs(w)' /\ QueueRefs'
      BY <1>0, <2>1 DEF PayerRefs, QueueRefs
    <2> QED BY <1>0, <2>1, <2>2, ReferralTypesBy
  <1>6. CASE R!Crash(w)
    <2>1. /\ UNCHANGED <<referral, hook, payouts, wired, transfers>> /\ PayerOnly(w)
          /\ payer'[w].step = "idle" /\ payer'[w].rows = {}
          /\ queue' = queue \cup {payer[w].job} /\ queue' \subseteq R!Job
          /\ incidents' \subseteq ReferralFeatures
      BY <1>6, CrashFacts
    <2>2. payer[w].step \in EvaluateSteps \cup PaySteps
      BY <1>6, CrashFacts DEF ReferralTypes, Payer, PayerSteps
    <2>3. PayerRefs(w)' /\ QueueRefs'
      BY <1>0, <2>1, <2>2 DEF PayerRefs, QueueRefs
    <2> QED BY <1>0, <2>1, <2>3, ReferralTypesBy
  <1> QED BY <1>1, <1>2, <1>3, <1>4, <1>5, <1>6

LEMMA HookTypes ==
  ASSUME ReferralTypes, NEW r \in Referees, NEW c \in Checkouts, R!Hooks(r, c)
  PROVE  ReferralTypes'
  <1> DEFINE HookSteps == {"new", "advance", "enqueue", "done"}
  <1>0. /\ referral \in [Referees -> R!ReferralStatus \cup {"none"}]
        /\ hook \in [Referees -> [Checkouts -> HookSteps]] /\ incidents \subseteq ReferralFeatures
        /\ queue \subseteq R!Job /\ QueueRefs
    BY DEF ReferralTypes, QueueRefs
  <1>1. /\ UNCHANGED <<payouts, payer, wired, transfers>>
        /\ \E s \in HookSteps : hook' = [hook EXCEPT ![r][c] = s]
        /\ UNCHANGED referral \/ R!UpdateReferralStatus(r, "FIRST_RENTAL_COMPLETED")
        /\ queue' \subseteq queue \cup {[kind |-> "evaluate", of |-> r, no |-> c]}
        /\ UNCHANGED incidents \/ \E kind : R!Event(kind)
    BY DEF R!Hooks, R!HookReads, R!HookAdvances, R!HookEnqueues
  <1>2. hook' \in [Referees -> [Checkouts -> HookSteps]]
    BY <1>0, <1>1
  <1>3. "FIRST_RENTAL_COMPLETED" \in R!ReferralStatus
    BY DEF R!ReferralStatus
  <1>4. referral' \in [Referees -> R!ReferralStatus \cup {"none"}]
    BY <1>0, <1>1, <1>3, ReferralStatusWritten
  <1>5. queue' \subseteq R!Job /\ QueueRefs'
    <2>1. [kind |-> "evaluate", of |-> r, no |-> c] \in R!Job
      BY DEF R!Job
    <2> QED BY <1>0, <1>1, <2>1 DEF QueueRefs
  <1>6. incidents' \subseteq ReferralFeatures
    BY <1>0, <1>1, EventFacts
  <1> QED BY <1>1, <1>2, <1>4, <1>5, <1>6 DEF ReferralTypes, QueueRefs

LEMMA ReferralTypesInit == R!Init => ReferralTypes
  <1> SUFFICES ASSUME R!Init PROVE ReferralTypes
    OBVIOUS
  <1>1. payer \in [Workers -> Payer] /\ \A w \in Workers : PayerRefs(w)
    BY PayerIdle DEF R!Init, PayerRefs, EvaluateSteps, PaySteps
  <1> QED BY <1>1 DEF R!Init, ReferralTypes, PayerRefs, R!ReferralStatus

LEMMA ReferralTypesStep == ASSUME ReferralTypes, [R!Next]_(R!vars) PROVE ReferralTypes'
  <1>1. CASE R!Restart \/ R!Wire
    <2>1. /\ UNCHANGED <<referral, hook, payouts, queue, payer, transfers>>
          /\ wired' \in BOOLEAN /\ incidents' \subseteq ReferralFeatures
      BY <1>1, EventFacts DEF R!Restart, R!Wire, ReferralTypes
    <2> QED BY <2>1 DEF ReferralTypes
  <1>2. CASE UNCHANGED R!vars
    BY <1>2 DEF R!vars, ReferralTypes
  <1>3. ASSUME NEW r \in Referees, R!Apply(r) PROVE ReferralTypes'
    <2>1. /\ UNCHANGED <<hook, payouts, queue, payer, wired, transfers, incidents>>
          /\ referral' = [referral EXCEPT ![r] = "SIGNED_UP"]
      BY <1>3 DEF R!Apply, R!InsertReferral
    <2>2. referral' \in [Referees -> R!ReferralStatus \cup {"none"}]
      BY <2>1 DEF ReferralTypes, R!ReferralStatus
    <2> QED BY <2>1, <2>2 DEF ReferralTypes
  <1>4. ASSUME NEW w \in Workers, R!Work(w) \/ R!Crash(w) PROVE ReferralTypes'
    BY Zenon, <1>4, EvaluateTypes, PayTypes DEF R!Work
  <1> QED BY <1>1, <1>2, <1>3, <1>4, HookTypes DEF R!Next

LEMMA ReferralTypesOK == ReferralTypes => R!TypeOK
  <1> SUFFICES ASSUME ReferralTypes PROVE R!TypeOK
    OBVIOUS
  <1> DEFINE Rows == 1 .. Len(payouts)
  <1>1. DOMAIN payouts = Rows /\ \A i \in DOMAIN payouts : payouts[i] \in PayoutRow
    BY PayoutFacts
  <1>2. payer \in [Workers -> [step : PayerSteps, job : R!Job \cup {R!NoJob}, rows : SUBSET Rows]]
    <2>1. \A w \in Workers : payer[w] \in Payer /\ payer[w].rows \subseteq Rows
      BY <1>1 DEF ReferralTypes
    <2>2. \A w \in Workers :
            payer[w] \in [step : PayerSteps, job : R!Job \cup {R!NoJob}, rows : SUBSET Rows]
      BY <2>1 DEF Payer
    <2> QED BY <2>2 DEF ReferralTypes
  <1> QED BY <1>1, <1>2 DEF R!TypeOK, ReferralTypes, PayoutRow, PayerSteps

LEMMA StepOfReferral == [MoneyNext]_money => [R!Next]_(R!vars)
  BY DEF MoneyNext, money, R!vars, Funding, BeingLate, Referring, referring

-----------------------------------------------------------------------------
(* A transfer shows in the payouts.                                        *)

Left(i) == payouts[i].status # "PENDING"
Traced(rp) == \E i \in DOMAIN payouts : <<payouts[i].of, payouts[i].party>> = rp /\ Left(i)

\* A row is marked before its money is moved, and no row goes back to PENDING.
TraceInv ==
  /\ \A w \in Workers : payer[w].step \in {"pay", "record"} => Left(payer[w].job.no)
  /\ \A rp \in Referees \X R!Party : transfers[rp] > 0 => Traced(rp)

\* What a row is for does not change, and it does not go back to PENDING.
RowsGoOn ==
  /\ DOMAIN payouts \subseteq DOMAIN payouts'
  /\ \A i \in DOMAIN payouts :
       /\ payouts'[i].of = payouts[i].of /\ payouts'[i].party = payouts[i].party
       /\ Left(i) => Left(i)'

LEMMA RowsGoOnBy ==
  ASSUME ReferralTypes, NEW w \in Workers, payer[w].step \in PaySteps,
         NEW status \in R!PayoutStatus \ {"PENDING"}, R!SetPayout(w, status)
  PROVE  RowsGoOn /\ payouts'[payer[w].job.no].status # "PENDING"
  <1>1. payer[w].job.no \in DOMAIN payouts
    BY DEF ReferralTypes
  <1>2. /\ DOMAIN payouts' = DOMAIN payouts
        /\ \A i \in DOMAIN payouts :
             /\ payouts'[i].of = payouts[i].of /\ payouts'[i].party = payouts[i].party
             /\ payouts'[i].status = IF i = payer[w].job.no THEN status ELSE payouts[i].status
    BY SetPayoutFacts
  <1> QED BY <1>1, <1>2 DEF RowsGoOn, Left

LEMMA TraceBy ==
  ASSUME ReferralTypes, TraceInv, NEW w \in Workers, PayerOnly(w), RowsGoOn,
         (payer[w].step \in {"pay", "record"} => Left(payer[w].job.no))',
         \A rp \in Referees \X R!Party : transfers'[rp] > 0 => transfers[rp] > 0 \/ Traced(rp)
  PROVE  TraceInv'
  <1>1. \A v \in Workers : (payer[v].step \in {"pay", "record"} => Left(payer[v].job.no))'
    <2> SUFFICES ASSUME NEW v \in Workers, v # w, payer'[v].step \in {"pay", "record"}
                 PROVE  Left(payer[v].job.no)'
      OBVIOUS
    <2>1. payer'[v] = payer[v]
      BY DEF PayerOnly
    <2>2. payer[v].job.no \in DOMAIN payouts /\ Left(payer[v].job.no)
      BY <2>1 DEF TraceInv, ReferralTypes, PaySteps
    <2> QED BY <2>1, <2>2 DEF RowsGoOn, Left
  <1>2. \A rp \in Referees \X R!Party : transfers'[rp] > 0 => Traced(rp)'
    <2> SUFFICES ASSUME NEW rp \in Referees \X R!Party, Traced(rp) PROVE Traced(rp)'
      BY DEF TraceInv
    <2>1. PICK i \in DOMAIN payouts : <<payouts[i].of, payouts[i].party>> = rp /\ Left(i)
      BY DEF Traced
    <2>2. i \in DOMAIN payouts' /\ <<payouts'[i].of, payouts'[i].party>> = rp /\ Left(i)'
      BY <2>1 DEF RowsGoOn
    <2> QED BY <2>2 DEF Traced
  <1> QED BY <1>1, <1>2 DEF TraceInv

LEMMA TraceEvaluate ==
  ASSUME ReferralTypes, TraceInv, NEW w \in Workers,
         \/ \E job \in queue : R!EvaluateReads(w, job)
         \/ R!FindsFraud(w) \/ R!FindsClean(w) \/ R!InsertPayout(w) \/ R!MarkPaid(w)
         \/ R!QueueTransfers(w)
  PROVE  TraceInv'
  <1>1. PayerOnly(w) /\ transfers' = transfers
    BY EvaluateReadsFacts, FindsFraudFacts, FindsCleanFacts, InsertPayoutFacts, MarkPaidFacts,
       QueueTransfersFacts
  <1>2. RowsGoOn
    <2>1. CASE R!InsertPayout(w)
      BY <2>1, InsertPayoutFacts DEF RowsGoOn, Left
    <2>2. CASE ~ R!InsertPayout(w)
      <3>1. payouts' = payouts
        BY <2>2, EvaluateReadsFacts, FindsFraudFacts, FindsCleanFacts, MarkPaidFacts,
           QueueTransfersFacts
      <3> QED BY <3>1 DEF RowsGoOn, Left
    <2> QED BY <2>1, <2>2
  <1>3. payer'[w].step \notin {"pay", "record"}
    <2>1. ASSUME NEW job \in queue, R!EvaluateReads(w, job) PROVE payer'[w].step \notin {"pay", "record"}
      BY <2>1, EvaluateReadsFacts, JobTaken
    <2>2. CASE R!InsertPayout(w)
      BY <2>2, InsertPayoutFacts
    <2> QED BY <2>1, <2>2, FindsFraudFacts, FindsCleanFacts, MarkPaidFacts, QueueTransfersFacts
  <1> QED BY <1>1, <1>2, <1>3, TraceBy

LEMMA TracePay ==
  ASSUME ReferralTypes, TraceInv, NEW w \in Workers,
         \/ \E job \in queue : R!TransferReads(w, job)
         \/ R!MarkProcessing(w) \/ R!Pay(w) \/ R!PayFails(w) \/ R!RecordPaid(w) \/ R!Crash(w)
  PROVE  TraceInv'
  <1> USE DEF PaySteps
  <1>0. payouts' = payouts => RowsGoOn
    BY DEF RowsGoOn, Left
  <1>1. ASSUME NEW job \in queue, R!TransferReads(w, job) PROVE TraceInv'
    <2>1. PayerOnly(w) /\ UNCHANGED <<payouts, transfers>> /\ payer'[w].step \in {"idle", "mark"}
      BY <1>1, TransferReadsFacts, JobTaken
    <2> QED BY <1>0, <2>1, TraceBy
  <1>2. CASE R!MarkProcessing(w)
    <2>1. /\ PayerOnly(w) /\ transfers' = transfers /\ payer[w].step = "mark"
          /\ R!SetPayout(w, "PROCESSING") /\ "PROCESSING" \in R!PayoutStatus
          /\ payer'[w].job = payer[w].job
      BY <1>2, MarkProcessingFacts
    <2>2. RowsGoOn /\ payouts'[payer[w].job.no].status # "PENDING"
      BY <2>1, RowsGoOnBy
    <2>3. Left(payer[w].job.no)'
      BY <2>1, <2>2 DEF Left
    <2> QED BY <2>1, <2>2, <2>3, TraceBy
  <1>3. CASE R!Pay(w)
    <2> DEFINE i == payer[w].job.no  p == payouts[i]  rp == <<p.of, p.party>>
    <2>1. /\ PayerOnly(w) /\ payouts' = payouts /\ payer[w].step = "pay"
          /\ payer'[w].job = payer[w].job
          /\ \A q \in Referees \X R!Party : q # rp => transfers'[q] = transfers[q]
      BY <1>3, PayFacts
    <2>2. i \in DOMAIN payouts /\ Left(i)
      BY <2>1 DEF ReferralTypes, TraceInv
    <2>3. Traced(rp)
      BY <2>2 DEF Traced
    <2>4. Left(payer[w].job.no)'
      BY <2>1, <2>2 DEF Left
    <2> HIDE DEF rp
    <2> QED BY <1>0, <2>1, <2>3, <2>4, TraceBy
  <1>4. CASE R!PayFails(w)
    <2> DEFINE i == payer[w].job.no  p == payouts[i]  rp == <<p.of, p.party>>
    <2>1. /\ PayerOnly(w) /\ payer[w].step = "pay"
          /\ \A q \in Referees \X R!Party : q # rp => transfers'[q] = transfers[q]
          /\ R!SetPayout(w, "FAILED") \/ UNCHANGED payouts
          /\ "FAILED" \in R!PayoutStatus /\ payer'[w].step = "idle"
      BY <1>4, PayFailsFacts
    <2>2. RowsGoOn
      BY <1>0, <2>1, RowsGoOnBy
    <2>3. i \in DOMAIN payouts /\ Left(i)
      BY <2>1 DEF ReferralTypes, TraceInv
    <2>4. Traced(rp)
      BY <2>3 DEF Traced
    <2> HIDE DEF rp
    <2> QED BY <2>1, <2>2, <2>4, TraceBy
  <1>5. CASE R!RecordPaid(w)
    <2>1. /\ PayerOnly(w) /\ transfers' = transfers /\ payer[w].step = "record"
          /\ R!SetPayout(w, "PAID") \/ UNCHANGED payouts
          /\ "PAID" \in R!PayoutStatus /\ payer'[w].step = "idle"
      BY <1>5, RecordPaidFacts
    <2>2. RowsGoOn
      BY <1>0, <2>1, RowsGoOnBy
    <2> QED BY <2>1, <2>2, TraceBy
  <1>6. CASE R!Crash(w)
    <2>1. PayerOnly(w) /\ UNCHANGED <<payouts, transfers>> /\ payer'[w].step = "idle"
      BY <1>6, CrashFacts
    <2> QED BY <1>0, <2>1, TraceBy
  <1> QED BY <1>1, <1>2, <1>3, <1>4, <1>5, <1>6

LEMMA TraceStep ==
  ASSUME ReferralTypes, TraceInv, [R!Next]_(R!vars)
  PROVE  TraceInv'
  <1>1. CASE UNCHANGED <<payouts, payer, transfers>>
    BY <1>1 DEF TraceInv, Traced, Left
  <1>2. ASSUME NEW w \in Workers, R!Work(w) \/ R!Crash(w) PROVE TraceInv'
    BY Zenon, <1>2, TraceEvaluate, TracePay DEF R!Work
  <1> QED BY <1>1, <1>2 DEF R!Next, R!vars, R!Apply, R!Hooks, R!HookReads, R!HookAdvances,
                            R!HookEnqueues, R!Restart, R!Wire

LEMMA TraceInit == R!Init => TraceInv
  <1> SUFFICES ASSUME R!Init PROVE TraceInv
    OBVIOUS
  <1>1. \A w \in Workers : payer[w].step = "idle"
    BY PayerIdle DEF R!Init
  <1> QED BY <1>1 DEF R!Init, TraceInv

\* Wherever a transfer job is cut off, and however often it runs, money that Stripe moved
\* shows in the payouts.
THEOREM TransfersShow == MoneySpec => []MoneyLeavesATrace
  <1>1. MoneyInit => ReferralTypes /\ TraceInv
    BY ReferralTypesInit, TraceInit DEF MoneyInit
  <1>2. ReferralTypes /\ TraceInv /\ [MoneyNext]_money => (ReferralTypes /\ TraceInv)'
    BY StepOfReferral, ReferralTypesStep, TraceStep
  <1>3. TraceInv => MoneyLeavesATrace
    BY DEF TraceInv, Traced, Left, MoneyLeavesATrace, R!MoneyLeavesATrace
  <1> QED BY <1>1, <1>2, <1>3, PTL DEF MoneySpec

-----------------------------------------------------------------------------
(* Nobody is paid twice.                                                   *)

\* What PaidOnce asks of the environment.
Undoubled == incidents \cap {"crash", "lost", "twice"} = {}

Receiver(i) == <<payouts[i].of, payouts[i].party>>
Evaluating(w, r) == payer[w].step \in EvaluateSteps /\ payer[w].job.of = r
Paying(w, i) == payer[w].step \in PaySteps /\ payer[w].job.no = i

\* Nothing has been evaluated for r, and nothing will be but by its hook.
Untouched(r) ==
  /\ \A j \in queue : ~ (j.kind = "evaluate" /\ j.of = r)
  /\ \A w \in Workers : ~ Evaluating(w, r)
  /\ \A i \in DOMAIN payouts : payouts[i].of # r

NotToBePaid(i) ==
  /\ \A j \in queue : ~ (j.kind = "transfer" /\ j.no = i)
  /\ \A w \in Workers : ~ Paying(w, i)

\* One hook at a time holds a referral, and it is the first to touch it.
OneHook(r) ==
  /\ \A c, d \in Checkouts :
       hook[r][c] \in {"advance", "enqueue"} /\ hook[r][d] \in {"advance", "enqueue"} => c = d
  /\ \A c \in Checkouts : hook[r][c] = "advance" => referral[r] = "SIGNED_UP"
  /\ \A c \in Checkouts : hook[r][c] = "enqueue" => referral[r] \notin {"none", "SIGNED_UP"}
  /\ referral[r] \in {"none", "SIGNED_UP"} => Untouched(r)
  /\ \A c \in Checkouts : hook[r][c] = "enqueue" => Untouched(r)

\* An evaluation that is queued is the only one, and has left nothing behind.
OneQueued ==
  /\ \A j, k \in queue : j.kind = "evaluate" /\ k.kind = "evaluate" /\ j.of = k.of => j = k
  /\ \A j \in queue : j.kind = "evaluate" =>
       /\ \A w \in Workers : ~ Evaluating(w, j.of)
       /\ \A i \in DOMAIN payouts : payouts[i].of # j.of

\* An evaluation that runs is the only one; the rows of the referral are its own, and nobody
\* has been paid for them.
OneEvaluation(w) ==
  \A r \in Referees : Evaluating(w, r) =>
    /\ \A v \in Workers : Evaluating(v, r) => v = w
    /\ \A i \in DOMAIN payouts : payouts[i].of = r <=> i \in payer[w].rows
    /\ payer[w].step = "judge" => payer[w].rows = {}
    /\ payer[w].step = "insert" => \A i \in payer[w].rows : payouts[i].party = "referrer"
    /\ \A i \in payer[w].rows : NotToBePaid(i) /\ transfers[Receiver(i)] = 0

\* A row has one transfer job, and the party has its money only when it is done.
OneTransfer ==
  /\ \A j, k \in queue : j.kind = "transfer" /\ k.kind = "transfer" /\ j.no = k.no => j = k
  /\ \A j \in queue : j.kind = "transfer" =>
       transfers[Receiver(j.no)] = 0 /\ \A w \in Workers : ~ Paying(w, j.no)
  /\ \A v, w \in Workers : v # w /\ payer[w].step \in PaySteps => ~ Paying(v, payer[w].job.no)
  /\ \A w \in Workers : payer[w].step \in {"mark", "pay"} => transfers[Receiver(payer[w].job.no)] = 0

RowsDiffer == \A i, j \in DOMAIN payouts : Receiver(i) = Receiver(j) => i = j
AtMostOnce == \A rp \in Referees \X R!Party : transfers[rp] <= 1

OnceState ==
  /\ \A r \in Referees : OneHook(r)
  /\ OneQueued /\ \A w \in Workers : OneEvaluation(w)
  /\ OneTransfer /\ RowsDiffer /\ AtMostOnce
OnceInv == Undoubled => OnceState

\* The rows are for what they were for.
SameRows ==
  /\ DOMAIN payouts' = DOMAIN payouts
  /\ \A i \in DOMAIN payouts : payouts'[i].of = payouts[i].of /\ payouts'[i].party = payouts[i].party

LEMMA SameRowsFacts ==
  ASSUME SameRows
  PROVE  /\ \A i \in DOMAIN payouts : <<payouts'[i].of, payouts'[i].party>> = Receiver(i)
         /\ RowsDiffer => RowsDiffer'
  BY DEF SameRows, Receiver, RowsDiffer

LEMMA SameRowsBy ==
  ASSUME ReferralTypes
  PROVE  /\ payouts' = payouts => SameRows
         /\ \A w \in Workers, status \in R!PayoutStatus :
              payer[w].step \in PaySteps /\ R!SetPayout(w, status) => SameRows
  <1>1. ASSUME NEW w \in Workers, NEW status \in R!PayoutStatus,
               payer[w].step \in PaySteps, R!SetPayout(w, status)
        PROVE  SameRows
    BY <1>1, SetPayoutFacts DEF SameRows
  <1> QED BY <1>1 DEF SameRows

\* A referral keeps its one hook when nothing new is done for it but by the hook.
LEMMA OneHookBy ==
  ASSUME NEW r \in Referees, OneHook(r), hook' = hook, referral'[r] = referral[r],
         Untouched(r) => Untouched(r)'
  PROVE  OneHook(r)'
  BY Zenon DEF OneHook

LEMMA OnceInit == R!Init => OnceInv
  <1> SUFFICES ASSUME R!Init PROVE OnceState
    BY DEF OnceInv
  <1>1. \A w \in Workers : payer[w].step = "idle"
    BY PayerIdle DEF R!Init
  <1>2. /\ queue = {} /\ payouts = <<>> /\ DOMAIN payouts = {}
        /\ \A r \in Referees : referral[r] = "none" /\ \A c \in Checkouts : hook[r][c] = "new"
        /\ \A rp \in Referees \X R!Party : transfers[rp] = 0
    BY DEF R!Init
  <1>3. \A w \in Workers : \A r, i : ~ Evaluating(w, r) /\ ~ Paying(w, i)
    BY <1>1 DEF Evaluating, Paying, EvaluateSteps, PaySteps
  <1>4. \A r \in Referees : OneHook(r)
    BY <1>2, <1>3 DEF OneHook, Untouched
  <1>5. OneQueued /\ OneTransfer
    BY <1>1, <1>2 DEF OneQueued, OneTransfer, PaySteps
  <1>6. \A w \in Workers : OneEvaluation(w)
    BY <1>3 DEF OneEvaluation
  <1>7. RowsDiffer /\ AtMostOnce
    BY <1>2 DEF RowsDiffer, AtMostOnce
  <1> QED BY <1>4, <1>5, <1>6, <1>7 DEF OnceState

\* The other workers go on with what they do.
LEMMA OthersGoOn ==
  ASSUME ReferralTypes, NEW w \in Workers, PayerOnly(w)
  PROVE  /\ \A v \in Workers : v # w => payer'[v] = payer[v]
         /\ \A v \in Workers : \A r : v # w => (Evaluating(v, r)' <=> Evaluating(v, r))
         /\ \A v \in Workers : \A i : v # w => (Paying(v, i)' <=> Paying(v, i))
  BY DEF PayerOnly, Evaluating, Paying

\* An evaluation is taken from the queue.
LEMMA OnceEvaluateReads ==
  ASSUME ReferralTypes, OnceState, NEW w \in Workers, NEW job \in queue, R!EvaluateReads(w, job)
  PROVE  OnceState'
  <1> DEFINE r0 == job.of
  <1>1. /\ UNCHANGED <<referral, hook, payouts, wired, transfers, incidents>> /\ PayerOnly(w)
        /\ payer[w].step = "idle" /\ job \in queue /\ job.kind = "evaluate" /\ queue' = queue \ {job}
        /\ r0 \in Referees
        /\ \/ payer' = payer
           \/ payer'[w].step = "judge" /\ payer'[w].job = job /\ payer'[w].rows = {}
    BY EvaluateReadsFacts, JobTaken
  <1>2. /\ \A r \in Referees : OneHook(r)
        /\ OneQueued /\ \A v \in Workers : OneEvaluation(v)
        /\ OneTransfer /\ RowsDiffer /\ AtMostOnce
    BY DEF OnceState
  <1>3. /\ \A v \in Workers : v # w => payer'[v] = payer[v]
        /\ \A v \in Workers : \A r : v # w => (Evaluating(v, r)' <=> Evaluating(v, r))
        /\ \A v \in Workers : \A i : v # w => (Paying(v, i)' <=> Paying(v, i))
    BY <1>1, OthersGoOn
  <1>4. /\ \A r : Evaluating(w, r)' => r = r0 /\ payer'[w].step = "judge" /\ payer'[w].rows = {}
        /\ \A i : ~ Paying(w, i) /\ ~ Paying(w, i)'
        /\ \A r : ~ Evaluating(w, r)
    BY <1>1 DEF Evaluating, Paying, EvaluateSteps, PaySteps
  <1>5. /\ \A v \in Workers : ~ Evaluating(v, r0)
        /\ \A i \in DOMAIN payouts : payouts[i].of # r0
        /\ ~ Untouched(r0)
    BY <1>1, <1>2 DEF OneQueued, Untouched
  <1>6. \A r \in Referees : OneHook(r)'
    <2> SUFFICES ASSUME NEW r \in Referees PROVE OneHook(r)'
      OBVIOUS
    <2>1. Untouched(r) => Untouched(r)'
      BY <1>1, <1>3, <1>4, <1>5 DEF Untouched
    <2> QED BY <1>1, <1>2, <2>1, OneHookBy
  <1>7. OneQueued'
    BY <1>1, <1>2, <1>3, <1>4 DEF OneQueued
  <1>8. \A i \in DOMAIN payouts : NotToBePaid(i) => NotToBePaid(i)'
    BY <1>1, <1>3, <1>4 DEF NotToBePaid
  <1>9. ASSUME NEW v \in Workers PROVE OneEvaluation(v)'
    <2> SUFFICES ASSUME NEW r \in Referees, Evaluating(v, r)'
                 PROVE  /\ \A u \in Workers : Evaluating(u, r)' => u = v
                        /\ \A i \in DOMAIN payouts' : payouts'[i].of = r <=> i \in payer'[v].rows
                        /\ payer'[v].step = "judge" => payer'[v].rows = {}
                        /\ payer'[v].step = "insert" => \A i \in payer'[v].rows : payouts'[i].party = "referrer"
                        /\ \A i \in payer'[v].rows : NotToBePaid(i)' /\ transfers'[Receiver(i)'] = 0
      BY DEF OneEvaluation
    <2>1. CASE v = w
      BY <2>1, <1>1, <1>3, <1>4, <1>5
    <2>2. CASE v # w
      <3>1. Evaluating(v, r) /\ payer'[v] = payer[v] /\ r # r0
        BY <2>2, <1>3, <1>5
      <3>2. payer[v].rows \subseteq DOMAIN payouts
        BY DEF ReferralTypes
      <3>3. \A i : Receiver(i)' = Receiver(i)
        BY <1>1 DEF Receiver
      <3> QED BY <3>1, <3>2, <3>3, <1>1, <1>2, <1>3, <1>4, <1>8 DEF OneEvaluation
    <2> QED BY <2>1, <2>2
  <1>10. OneTransfer'
    <2>1. \A i : Receiver(i)' = Receiver(i)
      BY <1>1 DEF Receiver
    <2>2. payer'[w].step \notin PaySteps
      BY <1>1 DEF PaySteps
    <2>3. \A v \in Workers : payer'[v].step \in PaySteps => v # w /\ payer'[v] = payer[v]
      BY <1>3, <2>2
    <2> QED BY <2>1, <2>3, <1>1, <1>2, <1>3, <1>4 DEF OneTransfer, PaySteps
  <1>11. RowsDiffer' /\ AtMostOnce'
    BY <1>1, <1>2 DEF RowsDiffer, AtMostOnce, Receiver
  <1> QED BY <1>6, <1>7, <1>9, <1>10, <1>11 DEF OnceState

\* An evaluation by another worker stands when no row is added for its referral, and nobody
\* starts to pay its rows.
LEMMA OneEvaluationBy ==
  ASSUME ReferralTypes, NEW w \in Workers, NEW v \in Workers, v # w, PayerOnly(w), OneEvaluation(v),
         DOMAIN payouts \subseteq DOMAIN payouts',
         \A i \in DOMAIN payouts :
           payouts'[i].of = payouts[i].of /\ payouts'[i].party = payouts[i].party,
         \A r \in Referees : Evaluating(v, r) =>
           /\ ~ Evaluating(w, r)'
           /\ \A i \in DOMAIN payouts' \ DOMAIN payouts : payouts'[i].of # r
           /\ \A i \in DOMAIN payouts : payouts[i].of = r /\ NotToBePaid(i) =>
                NotToBePaid(i)' /\ transfers'[Receiver(i)] = transfers[Receiver(i)]
  PROVE  OneEvaluation(v)'
  <1> SUFFICES ASSUME NEW r \in Referees, Evaluating(v, r)'
               PROVE  /\ \A u \in Workers : Evaluating(u, r)' => u = v
                      /\ \A i \in DOMAIN payouts' : payouts'[i].of = r <=> i \in payer'[v].rows
                      /\ payer'[v].step = "judge" => payer'[v].rows = {}
                      /\ payer'[v].step = "insert" => \A i \in payer'[v].rows : payouts'[i].party = "referrer"
                      /\ \A i \in payer'[v].rows : NotToBePaid(i)' /\ transfers'[Receiver(i)'] = 0
    BY DEF OneEvaluation
  <1>1. /\ Evaluating(v, r) /\ payer'[v] = payer[v]
        /\ \A u \in Workers : u # w => (Evaluating(u, r)' <=> Evaluating(u, r))
    BY OthersGoOn
  <1>2. payer[v].rows \subseteq DOMAIN payouts
    BY DEF ReferralTypes
  <1>3. \A i \in DOMAIN payouts : Receiver(i)' = Receiver(i)
    BY DEF Receiver
  <1>4. /\ \A u \in Workers : Evaluating(u, r) => u = v
        /\ \A i \in DOMAIN payouts : payouts[i].of = r <=> i \in payer[v].rows
        /\ payer[v].step = "judge" => payer[v].rows = {}
        /\ payer[v].step = "insert" => \A i \in payer[v].rows : payouts[i].party = "referrer"
        /\ \A i \in payer[v].rows : NotToBePaid(i) /\ transfers[Receiver(i)] = 0
    BY <1>1 DEF OneEvaluation
  <1>5. \A u \in Workers : Evaluating(u, r)' => u = v
    BY <1>1, <1>4
  <1>6. \A i \in DOMAIN payouts' : payouts'[i].of = r <=> i \in payer'[v].rows
    BY <1>1, <1>2, <1>4
  <1>7. payer'[v].step = "insert" => \A i \in payer'[v].rows : payouts'[i].party = "referrer"
    BY <1>1, <1>2, <1>4
  <1>8. \A i \in payer'[v].rows : NotToBePaid(i)' /\ transfers'[Receiver(i)'] = 0
    BY <1>1, <1>2, <1>3, <1>4
  <1> QED BY <1>1, <1>4, <1>5, <1>6, <1>7, <1>8

\* An evaluation goes from one step to the next, or ends.
LEMMA OnceEvaluateGoesOn ==
  ASSUME ReferralTypes, OnceState, NEW w \in Workers, PayerOnly(w),
         UNCHANGED <<hook, payouts, queue, transfers>>, payer[w].step \in EvaluateSteps,
         \/ payer'[w].step = "idle"
         \/ /\ payer'[w].step \in EvaluateSteps \ {"judge"}
            /\ payer'[w].job = payer[w].job /\ payer'[w].rows = payer[w].rows
            /\ payer'[w].step = "insert" => payer[w].rows = {},
         referral'[payer[w].job.of] \notin {"none", "SIGNED_UP"},
         \A r \in Referees : r # payer[w].job.of => referral'[r] = referral[r]
  PROVE  OnceState'
  <1>r. PICK r0 : r0 = payer[w].job.of
    OBVIOUS
  <1>1. /\ \A r \in Referees : OneHook(r)
        /\ OneQueued /\ \A v \in Workers : OneEvaluation(v)
        /\ OneTransfer /\ RowsDiffer /\ AtMostOnce
    BY DEF OnceState
  <1>2. /\ \A v \in Workers : v # w => payer'[v] = payer[v]
        /\ \A v \in Workers : \A r : v # w => (Evaluating(v, r)' <=> Evaluating(v, r))
        /\ \A v \in Workers : \A i : v # w => (Paying(v, i)' <=> Paying(v, i))
    BY OthersGoOn
  <1>3. /\ \A r : Evaluating(w, r) <=> r = r0
        /\ \A r : Evaluating(w, r)' => r = r0
        /\ \A i : ~ Paying(w, i) /\ ~ Paying(w, i)'
        /\ payer'[w].step \notin PaySteps /\ payer[w].step \notin PaySteps
    BY <1>r DEF Evaluating, Paying, EvaluateSteps, PaySteps
  <1>4. r0 \in Referees /\ ~ Untouched(r0)
    BY <1>3, <1>r DEF ReferralTypes, R!Job, Untouched
  <1>5. \A r \in Referees : OneHook(r)'
    <2> SUFFICES ASSUME NEW r \in Referees PROVE OneHook(r)'
      OBVIOUS
    <2>1. CASE r = r0
      BY <2>1, <1>1, <1>4, <1>r DEF OneHook
    <2>2. CASE r # r0
      <3>1. Untouched(r) => Untouched(r)'
        BY <2>2, <1>2, <1>3 DEF Untouched
      <3> QED BY <2>2, <3>1, <1>1, <1>r, OneHookBy
    <2> QED BY <2>1, <2>2
  <1>6. OneQueued'
    BY <1>1, <1>2, <1>3 DEF OneQueued
  <1>7. \A i : NotToBePaid(i) => NotToBePaid(i)'
    BY <1>2, <1>3 DEF NotToBePaid
  <1>8. \A i : Receiver(i)' = Receiver(i)
    BY DEF Receiver
  <1>9. ASSUME NEW v \in Workers PROVE OneEvaluation(v)'
    <2>1. CASE v = w
      <3> SUFFICES ASSUME Evaluating(w, r0)'
                   PROVE  /\ \A u \in Workers : Evaluating(u, r0)' => u = w
                          /\ \A i \in DOMAIN payouts' : payouts'[i].of = r0 <=> i \in payer'[w].rows
                          /\ payer'[w].step = "judge" => payer'[w].rows = {}
                          /\ payer'[w].step = "insert" =>
                               \A i \in payer'[w].rows : payouts'[i].party = "referrer"
                          /\ \A i \in payer'[w].rows : NotToBePaid(i)' /\ transfers'[Receiver(i)'] = 0
        BY <2>1, <1>3 DEF OneEvaluation
      <3>1. /\ payer'[w].rows = payer[w].rows /\ payer'[w].step # "judge"
            /\ payer'[w].step = "insert" => payer[w].rows = {}
        BY DEF Evaluating, EvaluateSteps
      <3>2. /\ \A u \in Workers : Evaluating(u, r0) => u = w
            /\ \A i \in DOMAIN payouts : payouts[i].of = r0 <=> i \in payer[w].rows
            /\ \A i \in payer[w].rows : NotToBePaid(i) /\ transfers[Receiver(i)] = 0
        BY <1>1, <1>3, <1>4 DEF OneEvaluation
      <3> QED BY <3>1, <3>2, <1>2, <1>7, <1>8
    <2>2. CASE v # w
      <3>1. \A r \in Referees : Evaluating(v, r) => ~ Evaluating(w, r)'
        BY <2>2, <1>1, <1>3 DEF OneEvaluation
      <3> QED BY <2>2, <3>1, <1>1, <1>7, OneEvaluationBy
    <2> QED BY <2>1, <2>2
  <1>10. OneTransfer'
    <2>1. \A v \in Workers : payer'[v].step \in PaySteps => v # w /\ payer'[v] = payer[v]
      BY <1>2, <1>3
    <2> QED BY <2>1, <1>1, <1>2, <1>3, <1>8 DEF OneTransfer, PaySteps
  <1>11. RowsDiffer' /\ AtMostOnce'
    BY <1>1, <1>8 DEF RowsDiffer, AtMostOnce
  <1> QED BY <1>5, <1>6, <1>9, <1>10, <1>11 DEF OnceState

\* The row that is inserted is the first for its party, who has not been paid.
LEMMA OnceInsertPayout ==
  ASSUME ReferralTypes, TraceInv, OnceState, NEW w \in Workers, R!InsertPayout(w)
  PROVE  OnceState'
  <1>r. PICK r0 : r0 = payer[w].job.of
    OBVIOUS
  <1> DEFINE party == IF payer[w].rows = {} THEN "referrer" ELSE "referee"
  <1>k. PICK new : new = Len(payouts) + 1
    OBVIOUS
  <1>p. PICK whose : whose = party
    OBVIOUS
  <1>0. /\ payer[w].step = "insert"
        /\ UNCHANGED <<referral, hook, queue, wired, transfers, incidents>>
        /\ payouts' \in Seq(PayoutRow)
        /\ DOMAIN payouts' = DOMAIN payouts \cup {new} /\ new \notin DOMAIN payouts
        /\ \A i \in DOMAIN payouts : payouts'[i] = payouts[i]
        /\ payouts'[new].of = r0 /\ payouts'[new].party = whose
        /\ PayerOnly(w)
        /\ payer'[w].step = (IF whose = "referee" THEN "paid" ELSE "insert")
        /\ payer'[w].job = payer[w].job /\ payer'[w].rows = payer[w].rows \cup {new}
    BY <1>k, <1>p, <1>r, InsertPayoutFacts
  <1>1. /\ \A r \in Referees : OneHook(r)
        /\ OneQueued /\ \A v \in Workers : OneEvaluation(v)
        /\ OneTransfer /\ RowsDiffer /\ AtMostOnce
    BY DEF OnceState
  <1>a. payer[w].rows = {} => whose = "referrer"
    BY <1>p
  <1>b. payer[w].rows # {} => whose = "referee"
    BY <1>p
  <1>2. /\ \A v \in Workers : v # w => payer'[v] = payer[v]
        /\ \A v \in Workers : \A r : v # w => (Evaluating(v, r)' <=> Evaluating(v, r))
        /\ \A v \in Workers : \A i : v # w => (Paying(v, i)' <=> Paying(v, i))
    BY <1>0, OthersGoOn
  <1>3. /\ \A r : Evaluating(w, r) <=> r = r0
        /\ \A r : Evaluating(w, r)' <=> r = r0
        /\ \A i : ~ Paying(w, i) /\ ~ Paying(w, i)'
        /\ payer'[w].step \notin PaySteps /\ payer[w].step \notin PaySteps
    BY <1>0, <1>r DEF Evaluating, Paying, EvaluateSteps, PaySteps
  <1>4. r0 \in Referees /\ ~ Untouched(r0)
    BY <1>0, <1>3, <1>r DEF ReferralTypes, R!Job, Untouched, EvaluateSteps
  <1>5. /\ \A v \in Workers : Evaluating(v, r0) => v = w
        /\ \A i \in DOMAIN payouts : payouts[i].of = r0 <=> i \in payer[w].rows
        /\ \A i \in payer[w].rows : payouts[i].party = "referrer"
        /\ \A i \in payer[w].rows : NotToBePaid(i) /\ transfers[Receiver(i)] = 0
        /\ payer[w].rows \subseteq DOMAIN payouts
    BY <1>0, <1>1, <1>3, <1>4 DEF OneEvaluation, ReferralTypes
  <1>6. \A i \in DOMAIN payouts : Receiver(i)' = Receiver(i)
    BY <1>0 DEF Receiver
  <1>7. Receiver(new)' = <<r0, whose>>
    BY <1>0 DEF Receiver
  <1>8. \A i \in DOMAIN payouts : Receiver(i) # <<r0, whose>>
    BY <1>5, <1>a, <1>b DEF Receiver
  <1>9. <<r0, whose>> \in Referees \X R!Party
    BY <1>4, <1>a, <1>b DEF R!Party
  <1>10. transfers[<<r0, whose>>] = 0
    <2>1. ~ Traced(<<r0, whose>>)
      BY <1>8 DEF Traced, Receiver
    <2>2. transfers[<<r0, whose>>] \in Nat
      BY <1>9 DEF ReferralTypes
    <2> QED BY <1>9, <2>1, <2>2 DEF TraceInv
  <1>11. NotToBePaid(new)
    <2>1. \A j \in queue : j.kind = "transfer" => j.no \in DOMAIN payouts
      BY DEF ReferralTypes
    <2>2. \A v \in Workers : payer[v].step \in PaySteps => payer[v].job.no \in DOMAIN payouts
      BY DEF ReferralTypes
    <2> QED BY <1>0, <2>1, <2>2 DEF NotToBePaid, Paying
  <1>12. \A i : NotToBePaid(i) => NotToBePaid(i)'
    BY <1>0, <1>2, <1>3 DEF NotToBePaid
  <1>13. \A r \in Referees : OneHook(r)'
    <2> SUFFICES ASSUME NEW r \in Referees PROVE OneHook(r)'
      OBVIOUS
    <2>1. Untouched(r) => Untouched(r)'
      BY <1>0, <1>2, <1>3, <1>4 DEF Untouched
    <2> QED BY <1>0, <1>1, <2>1, OneHookBy
  <1>14. OneQueued'
    <2>1. \A j \in queue : j.kind = "evaluate" => j.of # r0
      BY <1>1, <1>3 DEF OneQueued
    <2> QED BY <1>0, <1>1, <1>2, <1>3, <2>1 DEF OneQueued
  <1>15. ASSUME NEW v \in Workers PROVE OneEvaluation(v)'
    <2>1. CASE v = w
      <3> SUFFICES /\ \A u \in Workers : Evaluating(u, r0)' => u = w
                   /\ \A i \in DOMAIN payouts' : payouts'[i].of = r0 <=> i \in payer'[w].rows
                   /\ payer'[w].step = "judge" => payer'[w].rows = {}
                   /\ payer'[w].step = "insert" =>
                        \A i \in payer'[w].rows : payouts'[i].party = "referrer"
                   /\ \A i \in payer'[w].rows : NotToBePaid(i)' /\ transfers'[Receiver(i)'] = 0
        BY <2>1, <1>3 DEF OneEvaluation
      <3>1. \A i \in DOMAIN payouts' : payouts'[i].of = r0 <=> i \in payer'[w].rows
        BY <1>0, <1>5
      <3>2. payer'[w].step = "insert" => \A i \in payer'[w].rows : payouts'[i].party = "referrer"
        BY <1>0, <1>5, <1>a, <1>b
      <3>3. \A i \in payer'[w].rows : NotToBePaid(i)' /\ transfers'[Receiver(i)'] = 0
        BY <1>0, <1>5, <1>6, <1>7, <1>10, <1>11, <1>12
      <3> QED BY <1>0, <1>2, <1>5, <3>1, <3>2, <3>3
    <2>2. CASE v # w
      <3>1. \A r \in Referees : Evaluating(v, r) => r # r0 /\ ~ Evaluating(w, r)'
        BY <2>2, <1>3, <1>5
      <3> QED BY <2>2, <3>1, <1>0, <1>1, <1>12, OneEvaluationBy
    <2> QED BY <2>1, <2>2
  <1>16. OneTransfer'
    <2>1. \A v \in Workers : payer'[v].step \in PaySteps =>
            v # w /\ payer'[v] = payer[v] /\ payer[v].job.no \in DOMAIN payouts
      BY <1>2, <1>3 DEF ReferralTypes
    <2>2. \A j \in queue : j.kind = "transfer" => j.no \in DOMAIN payouts
      BY DEF ReferralTypes
    <2> QED BY <2>1, <2>2, <1>0, <1>1, <1>2, <1>3, <1>6 DEF OneTransfer, PaySteps
  <1>17. RowsDiffer'
    BY <1>0, <1>1, <1>6, <1>7, <1>8 DEF RowsDiffer
  <1>18. AtMostOnce'
    BY <1>0, <1>1 DEF AtMostOnce
  <1> QED BY <1>13, <1>14, <1>15, <1>16, <1>17, <1>18 DEF OnceState

\* The rows of an evaluation get their first transfer jobs.
LEMMA OnceQueueTransfers ==
  ASSUME ReferralTypes, OnceState, NEW w \in Workers, R!QueueTransfers(w)
  PROVE  OnceState'
  <1>r. PICK r0 : r0 = payer[w].job.of
    OBVIOUS
  <1>n. PICK new : new = {[kind |-> "transfer", of |-> payer[w].job.of, no |-> i] : i \in payer[w].rows}
    OBVIOUS
  <1>0. /\ payer[w].step = "queue" /\ UNCHANGED <<referral, hook, payouts, transfers>>
        /\ PayerOnly(w) /\ payer'[w].step = "idle"
        /\ queue \subseteq queue' /\ queue' \subseteq queue \cup new
    BY <1>n, QueueTransfersFacts
  <1>1. /\ \A r \in Referees : OneHook(r)
        /\ OneQueued /\ \A v \in Workers : OneEvaluation(v)
        /\ OneTransfer /\ RowsDiffer /\ AtMostOnce
    BY DEF OnceState
  <1>2. /\ \A v \in Workers : v # w => payer'[v] = payer[v]
        /\ \A v \in Workers : \A r : v # w => (Evaluating(v, r)' <=> Evaluating(v, r))
        /\ \A v \in Workers : \A i : v # w => (Paying(v, i)' <=> Paying(v, i))
    BY <1>0, OthersGoOn
  <1>3. /\ \A r : Evaluating(w, r) <=> r = r0
        /\ \A r : ~ Evaluating(w, r)'
        /\ \A i : ~ Paying(w, i) /\ ~ Paying(w, i)'
        /\ payer'[w].step \notin PaySteps
    BY <1>0, <1>r DEF Evaluating, Paying, EvaluateSteps, PaySteps
  <1>4. r0 \in Referees /\ ~ Untouched(r0)
    BY <1>0, <1>3, <1>r DEF ReferralTypes, R!Job, Untouched, EvaluateSteps
  <1>5. /\ \A v \in Workers : Evaluating(v, r0) => v = w
        /\ \A i \in DOMAIN payouts : payouts[i].of = r0 <=> i \in payer[w].rows
        /\ \A i \in payer[w].rows : NotToBePaid(i) /\ transfers[Receiver(i)] = 0
        /\ payer[w].rows \subseteq DOMAIN payouts
    BY <1>1, <1>3, <1>4 DEF OneEvaluation, ReferralTypes
  <1>6. /\ \A j \in new : j.kind = "transfer" /\ j.no \in payer[w].rows
        /\ \A j, k \in new : j.no = k.no => j = k
    BY <1>n
  <1>7. \A i : Receiver(i)' = Receiver(i)
    BY <1>0 DEF Receiver
  <1>8. \A j \in queue' : j \in queue \/ j \in new
    BY <1>0
  <1>9. \A r \in Referees : OneHook(r)'
    <2> SUFFICES ASSUME NEW r \in Referees PROVE OneHook(r)'
      OBVIOUS
    <2>1. Untouched(r) => Untouched(r)'
      BY <1>0, <1>2, <1>3, <1>6, <1>8 DEF Untouched
    <2> QED BY <1>0, <1>1, <2>1, OneHookBy
  <1>10. OneQueued'
    BY <1>0, <1>1, <1>2, <1>3, <1>6, <1>8 DEF OneQueued
  <1>11. \A i : NotToBePaid(i) /\ i \notin payer[w].rows => NotToBePaid(i)'
    BY <1>2, <1>3, <1>6, <1>8 DEF NotToBePaid
  <1>12. ASSUME NEW v \in Workers PROVE OneEvaluation(v)'
    <2>1. CASE v = w
      BY <2>1, <1>3 DEF OneEvaluation
    <2>2. CASE v # w
      <3>1. \A r \in Referees : Evaluating(v, r) => r # r0
        BY <2>2, <1>5
      <3>2. \A i \in DOMAIN payouts : payouts[i].of # r0 /\ NotToBePaid(i) => NotToBePaid(i)'
        BY <1>5, <1>11
      <3> QED BY <2>2, <3>1, <3>2, <1>0, <1>1, <1>3, OneEvaluationBy
    <2> QED BY <2>1, <2>2
  <1>13. OneTransfer'
    <2>1. \A v \in Workers : payer'[v].step \in PaySteps => v # w /\ payer'[v] = payer[v]
      BY <1>2, <1>3
    <2>2. \A j, k \in queue' : j.kind = "transfer" /\ k.kind = "transfer" /\ j.no = k.no => j = k
      BY <1>1, <1>5, <1>6, <1>8 DEF OneTransfer, NotToBePaid
    <2>3. \A j \in queue' : j.kind = "transfer" =>
            transfers[Receiver(j.no)] = 0 /\ \A v \in Workers : ~ Paying(v, j.no)
      BY <1>1, <1>5, <1>6, <1>8 DEF OneTransfer, NotToBePaid
    <2>4. \A j \in queue' : j.kind = "transfer" =>
            transfers'[Receiver(j.no)'] = 0 /\ \A v \in Workers : ~ Paying(v, j.no)'
      BY <2>3, <1>0, <1>2, <1>3, <1>7
    <2>5. \A v, u \in Workers :
            v # u /\ payer'[u].step \in PaySteps => ~ Paying(v, payer[u].job.no)'
      BY <2>1, <1>1, <1>2, <1>3 DEF OneTransfer
    <2>6. \A v \in Workers :
            payer'[v].step \in {"mark", "pay"} => transfers'[Receiver(payer[v].job.no)'] = 0
      BY <2>1, <1>0, <1>1, <1>7 DEF OneTransfer, PaySteps
    <2> QED BY <2>2, <2>4, <2>5, <2>6 DEF OneTransfer
  <1>14. RowsDiffer' /\ AtMostOnce'
    BY <1>0, <1>1, <1>7 DEF RowsDiffer, AtMostOnce
  <1> QED BY <1>9, <1>10, <1>12, <1>13, <1>14 DEF OnceState

\* A job that pays changes neither referrals nor rows nor evaluations.
LEMMA OncePayFrame ==
  ASSUME ReferralTypes, OnceState, NEW w \in Workers, PayerOnly(w), UNCHANGED <<referral, hook>>,
         SameRows, \A r : ~ Evaluating(w, r) /\ ~ Evaluating(w, r)',
         \A j : j.kind = "evaluate" => (j \in queue' <=> j \in queue),
         \A i \in DOMAIN payouts : NotToBePaid(i) =>
           NotToBePaid(i)' /\ transfers'[Receiver(i)] = transfers[Receiver(i)]
  PROVE  /\ \A r \in Referees : OneHook(r)'
         /\ OneQueued' /\ RowsDiffer' /\ \A v \in Workers : OneEvaluation(v)'
  <1>1. /\ \A r \in Referees : OneHook(r)
        /\ OneQueued /\ RowsDiffer /\ \A v \in Workers : OneEvaluation(v)
    BY DEF OnceState
  <1>2. \A v \in Workers : \A r : Evaluating(v, r)' <=> Evaluating(v, r)
    BY OthersGoOn
  <1>3. /\ DOMAIN payouts' = DOMAIN payouts
        /\ \A i \in DOMAIN payouts : payouts'[i].of = payouts[i].of /\ payouts'[i].party = payouts[i].party
    BY DEF SameRows
  <1>4. ASSUME NEW r \in Referees PROVE OneHook(r)'
    <2>1. Untouched(r) => Untouched(r)'
      BY <1>2, <1>3 DEF Untouched
    <2> QED BY <1>1, <2>1, OneHookBy
  <1>5. OneQueued'
    BY <1>1, <1>2, <1>3 DEF OneQueued
  <1>6. ASSUME NEW v \in Workers PROVE OneEvaluation(v)'
    <2>1. CASE v = w
      BY <2>1 DEF OneEvaluation
    <2>2. CASE v # w
      BY <2>2, <1>1, <1>3, OneEvaluationBy
    <2> QED BY <2>1, <2>2
  <1> QED BY <1>1, <1>4, <1>5, <1>6, SameRowsFacts

LEMMA OnceTransferReads ==
  ASSUME ReferralTypes, OnceState, NEW w \in Workers, NEW job \in queue, R!TransferReads(w, job)
  PROVE  OnceState'
  <1>1. /\ UNCHANGED <<referral, hook, payouts, transfers>> /\ PayerOnly(w)
        /\ payer[w].step = "idle" /\ job \in queue /\ job.kind = "transfer" /\ queue' = queue \ {job}
        /\ \/ payer' = payer
           \/ payer'[w].step = "mark" /\ payer'[w].job = job
    BY TransferReadsFacts, JobTaken
  <1>2. OneTransfer /\ AtMostOnce
    BY DEF OnceState
  <1>3. /\ \A v \in Workers : v # w => payer'[v] = payer[v]
        /\ \A v \in Workers : \A i : v # w => (Paying(v, i)' <=> Paying(v, i))
    BY <1>1, OthersGoOn
  <1>4. /\ \A r : ~ Evaluating(w, r) /\ ~ Evaluating(w, r)'
        /\ \A i : ~ Paying(w, i) /\ (Paying(w, i)' => i = job.no)
    BY <1>1 DEF Evaluating, Paying, EvaluateSteps, PaySteps
  <1>5. /\ transfers[Receiver(job.no)] = 0
        /\ \A v \in Workers : ~ Paying(v, job.no)
        /\ \A j \in queue' : j.kind = "transfer" => j.no # job.no
    BY <1>1, <1>2 DEF OneTransfer
  <1>6. \A i : NotToBePaid(i) => NotToBePaid(i)'
    BY <1>1, <1>3, <1>4 DEF NotToBePaid
  <1>7. /\ \A r \in Referees : OneHook(r)'
        /\ OneQueued' /\ RowsDiffer' /\ \A v \in Workers : OneEvaluation(v)'
    BY <1>1, <1>4, <1>6, SameRowsBy, OncePayFrame
  <1>8. \A i : Receiver(i)' = Receiver(i)
    BY <1>1 DEF Receiver
  <1>9. OneTransfer'
    <2>1. \A j, k \in queue' : j.kind = "transfer" /\ k.kind = "transfer" /\ j.no = k.no => j = k
      BY <1>1, <1>2 DEF OneTransfer
    <2>2. \A j \in queue' : j.kind = "transfer" =>
            transfers'[Receiver(j.no)'] = 0 /\ \A v \in Workers : ~ Paying(v, j.no)'
      BY <1>1, <1>2, <1>3, <1>4, <1>5, <1>8 DEF OneTransfer
    <2>3. ASSUME NEW v \in Workers, NEW u \in Workers, v # u, payer'[u].step \in PaySteps
          PROVE  ~ Paying(v, payer[u].job.no)'
      <3>1. CASE u = w
        <4>1. payer'[u].job.no = job.no /\ v # w
          BY <1>1, <2>3, <3>1 DEF PaySteps
        <4>2. ~ Paying(v, job.no)'
          BY <1>3, <1>5, <4>1
        <4> QED BY <4>1, <4>2 DEF Paying
      <3>2. CASE u # w
        <4>1. payer'[u] = payer[u] /\ Paying(u, payer[u].job.no)
          BY <1>3, <2>3, <3>2 DEF Paying
        <4>2. payer[u].job.no # job.no
          BY <1>5, <4>1
        <4> QED BY <1>2, <1>3, <1>4, <2>3, <4>1, <4>2 DEF OneTransfer, Paying
      <3> QED BY <3>1, <3>2
    <2>4. ASSUME NEW v \in Workers, payer'[v].step \in {"mark", "pay"}
          PROVE  transfers'[Receiver(payer[v].job.no)'] = 0
      <3>1. CASE v = w
        BY <1>1, <1>5, <1>8, <2>4, <3>1
      <3>2. CASE v # w
        BY <1>1, <1>2, <1>3, <1>8, <2>4, <3>2 DEF OneTransfer
      <3> QED BY <3>1, <3>2
    <2> QED BY <2>1, <2>2, <2>3, <2>4 DEF OneTransfer
  <1>10. AtMostOnce'
    BY <1>1, <1>2 DEF AtMostOnce
  <1> QED BY <1>7, <1>9, <1>10 DEF OnceState

\* The job goes on, ends, or gives up before it has paid and is queued again.
LEMMA OncePayGoesOn ==
  ASSUME ReferralTypes, OnceState, NEW w \in Workers, PayerOnly(w),
         UNCHANGED <<referral, hook, transfers>>, SameRows, payer[w].step \in PaySteps,
         \/ payer'[w].step = "idle" /\ queue' = queue
         \/ /\ payer'[w].step = "idle" /\ queue' = queue \cup {payer[w].job}
            /\ payer[w].step = "pay"
         \/ /\ payer'[w].step = "pay" /\ payer'[w].job = payer[w].job /\ payer[w].step = "mark"
            /\ queue' = queue
  PROVE  OnceState'
  <1>j. PICK job : job = payer[w].job
    OBVIOUS
  <1>1. job \in R!Job /\ job.kind = "transfer" /\ job.no \in DOMAIN payouts
    BY <1>j DEF ReferralTypes
  <1>2. OneTransfer /\ AtMostOnce
    BY DEF OnceState
  <1>3. /\ \A v \in Workers : v # w => payer'[v] = payer[v]
        /\ \A v \in Workers : \A i : v # w => (Paying(v, i)' <=> Paying(v, i))
    BY OthersGoOn
  <1>4. /\ \A r : ~ Evaluating(w, r) /\ ~ Evaluating(w, r)'
        /\ \A i : (Paying(w, i) <=> i = job.no) /\ (Paying(w, i)' => i = job.no)
    BY <1>j DEF Evaluating, Paying, EvaluateSteps, PaySteps
  <1>5. /\ \A v \in Workers : v # w => ~ Paying(v, job.no)
        /\ payer[w].step \in {"mark", "pay"} => transfers[Receiver(job.no)] = 0
        /\ \A j \in queue : j.kind = "transfer" => j.no # job.no
    BY <1>j, <1>2, <1>4 DEF OneTransfer
  <1>6. \A j \in queue' : j \in queue \/ (j = job /\ payer[w].step = "pay" /\ payer'[w].step = "idle")
    BY <1>j
  <1>7. \A j : j.kind = "evaluate" => (j \in queue' <=> j \in queue)
    BY <1>j, <1>1
  <1>8. \A i : NotToBePaid(i) => NotToBePaid(i)'
    BY <1>1, <1>3, <1>4, <1>6 DEF NotToBePaid
  <1>9. /\ \A r \in Referees : OneHook(r)'
        /\ OneQueued' /\ RowsDiffer' /\ \A v \in Workers : OneEvaluation(v)'
    BY <1>4, <1>7, <1>8, OncePayFrame
  <1>10. \A i \in DOMAIN payouts : Receiver(i)' = Receiver(i)
    BY DEF Receiver, SameRows
  <1>11. OneTransfer'
    <2>1. \A j, k \in queue' : j.kind = "transfer" /\ k.kind = "transfer" /\ j.no = k.no => j = k
      BY <1>2, <1>5, <1>6 DEF OneTransfer
    <2>2. ASSUME NEW j \in queue', j.kind = "transfer"
          PROVE  transfers'[Receiver(j.no)'] = 0 /\ \A v \in Workers : ~ Paying(v, j.no)'
      <3>1. CASE j \in queue
        <4>1. /\ j.no \in DOMAIN payouts /\ transfers[Receiver(j.no)] = 0 /\ j.no # job.no
              /\ \A v \in Workers : ~ Paying(v, j.no)
          BY <1>2, <1>5, <2>2, <3>1 DEF OneTransfer, ReferralTypes
        <4> QED BY <1>3, <1>4, <1>10, <4>1
      <3>2. CASE j = job /\ payer[w].step = "pay" /\ payer'[w].step = "idle"
        <4>1. \A i : ~ Paying(w, i)'
          BY <3>2 DEF Paying, PaySteps
        <4> QED BY <1>1, <1>3, <1>5, <1>10, <3>2, <4>1
      <3> QED BY <1>6, <2>2, <3>1, <3>2
    <2>3. ASSUME NEW v \in Workers, NEW u \in Workers, v # u, payer'[u].step \in PaySteps
          PROVE  ~ Paying(v, payer[u].job.no)'
      <3>1. payer'[u].job = payer[u].job /\ payer[u].step \in PaySteps
        BY <1>3, <2>3 DEF PaySteps
      <3>2. ~ Paying(v, payer[u].job.no)
        BY <1>2, <2>3, <3>1 DEF OneTransfer
      <3>3. \A i : Paying(v, i)' => Paying(v, i)
        BY <1>3, <1>4
      <3> QED BY <3>1, <3>2, <3>3 DEF Paying
    <2>4. ASSUME NEW v \in Workers, payer'[v].step \in {"mark", "pay"}
          PROVE  transfers'[Receiver(payer[v].job.no)'] = 0
      <3>1. payer'[v].job = payer[v].job /\ payer[v].step \in {"mark", "pay"}
        BY <1>3, <2>4
      <3>2. payer[v].job.no \in DOMAIN payouts /\ transfers[Receiver(payer[v].job.no)] = 0
        BY <1>2, <3>1 DEF OneTransfer, ReferralTypes, PaySteps
      <3> QED BY <1>10, <3>1, <3>2 DEF Receiver, SameRows
    <2> QED BY <2>1, <2>2, <2>3, <2>4 DEF OneTransfer
  <1> QED BY <1>2, <1>9, <1>11 DEF OnceState, AtMostOnce

\* The one transfer to a party.
LEMMA OncePay ==
  ASSUME ReferralTypes, OnceState, NEW w \in Workers, R!Pay(w)
  PROVE  OnceState'
  <1>j. PICK job : job = payer[w].job
    OBVIOUS
  <1>p. PICK rp : rp = Receiver(job.no)
    OBVIOUS
  <1>0. /\ payer[w].step = "pay" /\ UNCHANGED <<referral, hook, payouts, queue>>
        /\ rp \in Referees \X R!Party
        /\ transfers' \in [Referees \X R!Party -> Nat] /\ transfers'[rp] = transfers[rp] + 1
        /\ \A q \in Referees \X R!Party : q # rp => transfers'[q] = transfers[q]
        /\ PayerOnly(w) /\ payer'[w].step = "record" /\ payer'[w].job = job
    BY <1>j, <1>p, PayFacts DEF Receiver
  <1>1. job \in R!Job /\ job.kind = "transfer" /\ job.no \in DOMAIN payouts
    BY <1>0, <1>j DEF ReferralTypes, PaySteps
  <1>2. OneTransfer /\ AtMostOnce /\ RowsDiffer
    BY DEF OnceState
  <1>3. /\ \A v \in Workers : v # w => payer'[v] = payer[v]
        /\ \A v \in Workers : \A i : v # w => (Paying(v, i)' <=> Paying(v, i))
    BY <1>0, OthersGoOn
  <1>4. /\ \A r : ~ Evaluating(w, r) /\ ~ Evaluating(w, r)'
        /\ \A i : (Paying(w, i) <=> i = job.no) /\ (Paying(w, i)' <=> i = job.no)
    BY <1>0, <1>j DEF Evaluating, Paying, EvaluateSteps, PaySteps
  <1>5. /\ \A v \in Workers : v # w => ~ Paying(v, job.no)
        /\ transfers[rp] = 0
        /\ \A j \in queue : j.kind = "transfer" => j.no # job.no
    BY <1>0, <1>j, <1>p, <1>2, <1>4 DEF OneTransfer, PaySteps
  <1>6. \A i \in DOMAIN payouts : i # job.no => transfers'[Receiver(i)] = transfers[Receiver(i)]
    <2> SUFFICES ASSUME NEW i \in DOMAIN payouts, i # job.no PROVE transfers'[Receiver(i)] = transfers[Receiver(i)]
      OBVIOUS
    <2>1. Receiver(i) \in Referees \X R!Party
      BY PayoutFacts DEF Receiver
    <2>2. Receiver(i) # rp
      BY <1>p, <1>1, <1>2 DEF RowsDiffer
    <2> QED BY <1>0, <2>1, <2>2
  <1>7. \A i : NotToBePaid(i) => i # job.no /\ NotToBePaid(i)'
    BY <1>0, <1>3, <1>4 DEF NotToBePaid
  <1>8. /\ \A r \in Referees : OneHook(r)'
        /\ OneQueued' /\ RowsDiffer' /\ \A v \in Workers : OneEvaluation(v)'
    BY <1>0, <1>4, <1>6, <1>7, SameRowsBy, OncePayFrame
  <1>9. \A i : Receiver(i)' = Receiver(i)
    BY <1>0 DEF Receiver
  <1>10. OneTransfer'
    <2>1. \A j \in queue : j.kind = "transfer" =>
            /\ j.no \in DOMAIN payouts /\ j.no # job.no
            /\ transfers[Receiver(j.no)] = 0 /\ \A v \in Workers : ~ Paying(v, j.no)
      BY <1>2, <1>5 DEF OneTransfer, ReferralTypes
    <2>2. \A j \in queue : j.kind = "transfer" =>
            transfers'[Receiver(j.no)'] = 0 /\ \A v \in Workers : ~ Paying(v, j.no)'
      BY <2>1, <1>3, <1>4, <1>6, <1>9
    <2>3. ASSUME NEW v \in Workers, NEW u \in Workers, v # u, payer'[u].step \in PaySteps
          PROVE  ~ Paying(v, payer[u].job.no)'
      <3>1. payer'[u].job = payer[u].job /\ payer[u].step \in PaySteps
        BY <1>0, <1>j, <1>3, <2>3 DEF PaySteps
      <3>2. ~ Paying(v, payer[u].job.no)
        BY <1>2, <2>3, <3>1 DEF OneTransfer
      <3>3. \A i : Paying(v, i)' => Paying(v, i)
        BY <1>3, <1>4
      <3> QED BY <3>1, <3>2, <3>3 DEF Paying
    <2>4. ASSUME NEW v \in Workers, payer'[v].step \in {"mark", "pay"}
          PROVE  transfers'[Receiver(payer[v].job.no)'] = 0
      <3>1. v # w /\ payer'[v] = payer[v]
        BY <1>0, <1>3, <2>4
      <3>2. /\ payer[v].job.no \in DOMAIN payouts /\ transfers[Receiver(payer[v].job.no)] = 0
            /\ Paying(v, payer[v].job.no)
        BY <1>2, <2>4, <3>1 DEF OneTransfer, ReferralTypes, PaySteps, Paying
      <3>3. payer[v].job.no # job.no
        BY <1>5, <3>1, <3>2
      <3> QED BY <1>6, <1>9, <3>1, <3>2, <3>3
    <2>5. \A j, k \in queue' : j.kind = "transfer" /\ k.kind = "transfer" /\ j.no = k.no => j = k
      BY <1>0, <1>2 DEF OneTransfer
    <2> QED BY <1>0, <2>2, <2>3, <2>4, <2>5 DEF OneTransfer
  <1>11. AtMostOnce'
    BY <1>0, <1>2, <1>5 DEF AtMostOnce
  <1> QED BY <1>8, <1>10, <1>11 DEF OnceState

\* What a referral's hook and sign-up leave alone.
LEMMA OnceHookFrame ==
  ASSUME OnceState, UNCHANGED <<payouts, queue, payer, transfers>>
  PROVE  /\ OneQueued' /\ OneTransfer' /\ RowsDiffer' /\ AtMostOnce'
         /\ \A w \in Workers : OneEvaluation(w)'
         /\ \A r \in Referees : Untouched(r)' <=> Untouched(r)
  <1>1. OneQueued'
    BY DEF OnceState, OneQueued, Evaluating
  <1>2. OneTransfer'
    BY DEF OnceState, OneTransfer, Paying, Receiver
  <1>3. RowsDiffer' /\ AtMostOnce'
    BY DEF OnceState, RowsDiffer, AtMostOnce, Receiver
  <1>4. \A r \in Referees : Untouched(r)' <=> Untouched(r)
    BY DEF Untouched, Evaluating
  <1>5. ASSUME NEW w \in Workers PROVE OneEvaluation(w)'
    <2>1. OneEvaluation(w) /\ \A i : NotToBePaid(i)' <=> NotToBePaid(i)
      BY DEF OnceState, NotToBePaid, Paying
    <2> QED BY <2>1 DEF OneEvaluation, Evaluating, Receiver
  <1> QED BY <1>1, <1>2, <1>3, <1>4, <1>5

LEMMA OnceApply ==
  ASSUME ReferralTypes, OnceState, NEW r \in Referees, R!Apply(r)
  PROVE  OnceState'
  <1>1. /\ referral \in [Referees -> R!ReferralStatus \cup {"none"}] /\ referral[r] = "none"
        /\ referral' = [referral EXCEPT ![r] = "SIGNED_UP"]
        /\ UNCHANGED <<hook, payouts, queue, payer, transfers>>
    BY DEF R!Apply, R!InsertReferral, ReferralTypes
  <1>2. ASSUME NEW q \in Referees PROVE OneHook(q)'
    BY <1>1, OnceHookFrame DEF OnceState, OneHook
  <1> QED BY <1>1, <1>2, OnceHookFrame DEF OnceState

LEMMA OnceHook ==
  ASSUME ReferralTypes, OnceState, NEW r \in Referees, NEW c \in Checkouts, R!Hooks(r, c),
         Undoubled'
  PROVE  OnceState'
  <1>0. /\ referral \in [Referees -> R!ReferralStatus \cup {"none"}]
        /\ hook \in [Referees -> [Checkouts -> {"new", "advance", "enqueue", "done"}]]
        /\ \A q \in Referees : OneHook(q)
    BY DEF ReferralTypes, OnceState
  <1>1. CASE R!HookReads(r, c)
    <2>1. /\ UNCHANGED <<referral, payouts, queue, payer, transfers>> /\ hook[r][c] = "new"
          /\ hook' = [hook EXCEPT ![r][c] = IF referral[r] = "SIGNED_UP" THEN "advance" ELSE "done"]
      BY <1>1 DEF R!HookReads
    <2>2. referral[r] = "SIGNED_UP" => \A d \in Checkouts : hook[r][d] # "advance"
      BY Zenon, <1>1 DEF R!HookReads, R!Event, Undoubled
    <2>3. /\ \A q \in Referees, d \in Checkouts : q # r \/ d # c => hook'[q][d] = hook[q][d]
          /\ hook'[r][c] = IF referral[r] = "SIGNED_UP" THEN "advance" ELSE "done"
      BY <1>0, <2>1
    <2>4. ASSUME NEW q \in Referees PROVE OneHook(q)'
      <3>1. CASE q # r
        BY <1>0, <2>1, <2>3, <3>1, OnceHookFrame DEF OneHook
      <3>2. CASE q = r /\ referral[r] = "SIGNED_UP"
        <4>1. \A d \in Checkouts : hook[r][d] \notin {"advance", "enqueue"}
          BY <1>0, <2>2, <3>2 DEF OneHook
        <4>2. \A d \in Checkouts : hook'[r][d] \in {"advance", "enqueue"} => d = c /\ hook'[r][d] = "advance"
          BY <2>3, <3>2, <4>1
        <4> QED BY <1>0, <2>1, <3>2, <4>2, OnceHookFrame DEF OneHook
      <3>3. CASE q = r /\ referral[r] # "SIGNED_UP"
        <4>1. \A d \in Checkouts : hook'[r][d] \in {"advance", "enqueue"} => hook'[r][d] = hook[r][d]
          BY <2>3, <3>3
        <4> QED BY <1>0, <2>1, <3>3, <4>1, OnceHookFrame DEF OneHook
      <3> QED BY <3>1, <3>2, <3>3
    <2> QED BY <2>1, <2>4, OnceHookFrame DEF OnceState
  <1>2. CASE R!HookAdvances(r, c)
    <2>1. /\ UNCHANGED <<payouts, queue, payer, transfers>> /\ hook[r][c] = "advance"
          /\ \/ /\ hook' = [hook EXCEPT ![r][c] = "enqueue"]
                /\ referral' = [referral EXCEPT ![r] = "FIRST_RENTAL_COMPLETED"]
             \/ hook' = [hook EXCEPT ![r][c] = "done"] /\ referral' = referral
      BY <1>2 DEF R!HookAdvances, R!UpdateReferralStatus
    <2>2. /\ referral[r] = "SIGNED_UP" /\ Untouched(r)
          /\ \A d \in Checkouts : d # c => hook[r][d] \notin {"advance", "enqueue"}
      BY <1>0, <2>1 DEF OneHook
    <2>3. /\ \A q \in Referees, d \in Checkouts : q # r \/ d # c => hook'[q][d] = hook[q][d]
          /\ \A q \in Referees : q # r => referral'[q] = referral[q]
          /\ \/ hook'[r][c] = "enqueue" /\ referral'[r] = "FIRST_RENTAL_COMPLETED"
             \/ hook'[r][c] = "done" /\ referral'[r] = referral[r]
      BY <1>0, <2>1
    <2>4. ASSUME NEW q \in Referees PROVE OneHook(q)'
      <3>1. CASE q # r
        BY <1>0, <2>1, <2>3, <3>1, OnceHookFrame DEF OneHook
      <3>2. CASE q = r
        <4>1. /\ \A d \in Checkouts : hook'[r][d] \in {"advance", "enqueue"} => d = c
              /\ hook'[r][c] # "advance" /\ Untouched(r)'
          BY <2>1, <2>2, <2>3, OnceHookFrame
        <4> QED BY <2>2, <2>3, <3>2, <4>1 DEF OneHook
      <3> QED BY <3>1, <3>2
    <2> QED BY <2>1, <2>4, OnceHookFrame DEF OnceState
  <1>3. CASE R!HookEnqueues(r, c)
    <2>j. PICK job : job = [kind |-> "evaluate", of |-> r, no |-> c]
      OBVIOUS
    <2>1. /\ UNCHANGED <<referral, payouts, payer, transfers>> /\ hook[r][c] = "enqueue"
          /\ hook' = [hook EXCEPT ![r][c] = "done"]
          /\ queue' = queue \/ queue' = queue \cup {job}
      BY <1>3, <2>j DEF R!HookEnqueues
    <2>2. /\ referral[r] \notin {"none", "SIGNED_UP"} /\ Untouched(r)
          /\ \A d \in Checkouts : d # c => hook[r][d] \notin {"advance", "enqueue"}
      BY <1>0, <2>1 DEF OneHook
    <2>3. /\ \A q \in Referees, d \in Checkouts : q # r \/ d # c => hook'[q][d] = hook[q][d]
          /\ hook'[r][c] = "done"
      BY <1>0, <2>1
    <2>4. /\ job.kind = "evaluate" /\ job.of = r
          /\ \A j \in queue' : j \in queue \/ j = job
      BY <2>j, <2>1
    <2>5. ASSUME NEW q \in Referees PROVE OneHook(q)'
      <3>1. CASE q # r
        <4>1. Untouched(q) => Untouched(q)'
          BY <2>1, <2>4, <3>1 DEF Untouched, Evaluating
        <4> QED BY Zenon, <1>0, <2>1, <2>3, <3>1, <4>1 DEF OneHook
      <3>2. CASE q = r
        BY <2>1, <2>2, <2>3, <3>2 DEF OneHook
      <3> QED BY <3>1, <3>2
    <2>6. OneQueued'
      <3>1. /\ OneQueued
            /\ \A j \in queue : j.kind = "evaluate" => j.of # r
            /\ \A w \in Workers : ~ Evaluating(w, r)
            /\ \A i \in DOMAIN payouts : payouts[i].of # r
        BY <2>2 DEF OnceState, Untouched
      <3>2. \A j, k \in queue' : j.kind = "evaluate" /\ k.kind = "evaluate" /\ j.of = k.of => j = k
        BY <2>4, <3>1 DEF OneQueued
      <3>3. \A j \in queue' : j.kind = "evaluate" =>
              /\ \A w \in Workers : ~ Evaluating(w, j.of)
              /\ \A i \in DOMAIN payouts : payouts[i].of # j.of
        BY <2>4, <3>1 DEF OneQueued
      <3> QED BY <2>1, <3>2, <3>3 DEF OneQueued, Evaluating
    <2>7. /\ \A i : NotToBePaid(i) => NotToBePaid(i)'
          /\ \A j \in queue' : j.kind = "transfer" => j \in queue
      BY <2>1, <2>4 DEF NotToBePaid, Paying
    <2>8. \A w \in Workers : OneEvaluation(w)'
      <3> SUFFICES ASSUME NEW w \in Workers, NEW q \in Referees, Evaluating(w, q)
                   PROVE  /\ \A v \in Workers : Evaluating(v, q) => v = w
                          /\ \A i \in DOMAIN payouts : payouts[i].of = q <=> i \in payer[w].rows
                          /\ payer[w].step = "judge" => payer[w].rows = {}
                          /\ payer[w].step = "insert" =>
                               \A i \in payer[w].rows : payouts[i].party = "referrer"
                          /\ \A i \in payer[w].rows : NotToBePaid(i)' /\ transfers[Receiver(i)] = 0
        BY <2>1 DEF OneEvaluation, Evaluating, Receiver
      <3> QED BY <2>7 DEF OnceState, OneEvaluation
    <2>9. OneTransfer' /\ RowsDiffer' /\ AtMostOnce'
      BY <2>1, <2>7 DEF OnceState, OneTransfer, RowsDiffer, AtMostOnce, Paying, Receiver
    <2> QED BY <2>5, <2>6, <2>8, <2>9 DEF OnceState
  <1> QED BY <1>1, <1>2, <1>3 DEF R!Hooks

LEMMA OnceWork ==
  ASSUME ReferralTypes, TraceInv, OnceState, NEW w \in Workers, R!Work(w), Undoubled'
  PROVE  OnceState'
  <1> USE DEF EvaluateSteps, PaySteps
  <1>1. CASE R!FindsFraud(w)
    <2>1. /\ PayerOnly(w) /\ UNCHANGED <<hook, payouts, queue, transfers>>
          /\ payer[w].step = "judge" /\ payer'[w].step = "idle"
          /\ R!UpdateReferralStatus(payer[w].job.of, "FRAUDULENT")
      BY <1>1, FindsFraudFacts DEF Undoubled, R!UpdateReferralStatus
    <2>2. payer[w].job.of \in Referees /\ "FRAUDULENT" \in R!ReferralStatus
      BY <2>1 DEF ReferralTypes, R!Job, R!ReferralStatus
    <2>3. /\ referral'[payer[w].job.of] \notin {"none", "SIGNED_UP"}
          /\ \A r \in Referees : r # payer[w].job.of => referral'[r] = referral[r]
      BY <2>1, <2>2, ReferralStatusWritten
    <2> QED BY <2>1, <2>3, OnceEvaluateGoesOn
  <1>2. CASE R!FindsClean(w)
    <2>1. /\ PayerOnly(w) /\ UNCHANGED <<referral, hook, payouts, queue, transfers>>
          /\ payer[w].step = "judge"
          /\ \/ payer'[w].step = "idle"
             \/ /\ payer'[w].step = "insert" /\ payer'[w].job = payer[w].job
                /\ payer'[w].rows = payer[w].rows
      BY <1>2, FindsCleanFacts
    <2>2. payer[w].job.of \in Referees /\ Evaluating(w, payer[w].job.of)
      BY <2>1 DEF ReferralTypes, R!Job, Evaluating
    <2>3. payer[w].rows = {} /\ ~ Untouched(payer[w].job.of)
      BY <2>1, <2>2 DEF OnceState, OneEvaluation, Untouched
    <2>4. referral'[payer[w].job.of] \notin {"none", "SIGNED_UP"}
      BY <2>1, <2>2, <2>3 DEF OnceState, OneHook
    <2> QED BY <2>1, <2>3, <2>4, OnceEvaluateGoesOn
  <1>3. CASE R!MarkPaid(w)
    <2>1. /\ PayerOnly(w) /\ UNCHANGED <<hook, payouts, queue, transfers>>
          /\ payer[w].step = "paid" /\ payer'[w].step = "queue"
          /\ payer'[w].job = payer[w].job /\ payer'[w].rows = payer[w].rows
          /\ R!UpdateReferralStatus(payer[w].job.of, "PAID")
      BY <1>3, MarkPaidFacts DEF R!UpdateReferralStatus
    <2>2. payer[w].job.of \in Referees /\ "PAID" \in R!ReferralStatus
      BY <2>1 DEF ReferralTypes, R!Job, R!ReferralStatus
    <2>3. /\ referral'[payer[w].job.of] \notin {"none", "SIGNED_UP"}
          /\ \A r \in Referees : r # payer[w].job.of => referral'[r] = referral[r]
      BY <2>1, <2>2, ReferralStatusWritten
    <2> QED BY <2>1, <2>3, OnceEvaluateGoesOn
  <1>4. CASE R!MarkProcessing(w)
    <2>1. /\ PayerOnly(w) /\ UNCHANGED <<referral, hook, queue, transfers>> /\ payer[w].step = "mark"
          /\ R!SetPayout(w, "PROCESSING") /\ "PROCESSING" \in R!PayoutStatus
          /\ payer'[w].step = "pay" /\ payer'[w].job = payer[w].job
      BY <1>4, MarkProcessingFacts
    <2>2. SameRows
      BY <2>1, SameRowsBy
    <2> QED BY <2>1, <2>2, OncePayGoesOn
  <1>5. CASE R!PayFails(w)
    <2>1. /\ PayerOnly(w) /\ UNCHANGED <<referral, hook, transfers>> /\ payer[w].step = "pay"
          /\ R!SetPayout(w, "FAILED") \/ UNCHANGED payouts
          /\ "FAILED" \in R!PayoutStatus
          /\ payer'[w].step = "idle" /\ queue' = queue \cup {payer[w].job}
      BY <1>5, PayFailsFacts DEF Undoubled
    <2>2. SameRows
      BY <2>1, SameRowsBy
    <2> QED BY <2>1, <2>2, OncePayGoesOn
  <1>6. CASE R!RecordPaid(w)
    <2>1. /\ PayerOnly(w) /\ UNCHANGED <<referral, hook, queue, transfers>> /\ payer[w].step = "record"
          /\ R!SetPayout(w, "PAID") \/ UNCHANGED payouts
          /\ "PAID" \in R!PayoutStatus /\ payer'[w].step = "idle"
      BY <1>6, RecordPaidFacts
    <2>2. SameRows
      BY <2>1, SameRowsBy
    <2> QED BY <2>1, <2>2, OncePayGoesOn
  <1> QED BY Zenon, <1>1, <1>2, <1>3, <1>4, <1>5, <1>6, OnceEvaluateReads, OnceInsertPayout,
             OnceQueueTransfers, OnceTransferReads, OncePay DEF R!Work

LEMMA OnceStep ==
  ASSUME ReferralTypes, TraceInv, OnceInv, [R!Next]_(R!vars)
  PROVE  OnceInv'
  <1> SUFFICES ASSUME Undoubled' PROVE OnceState'
    BY DEF OnceInv
  <1>1. CASE UNCHANGED <<referral, hook, payouts, queue, payer, transfers>> /\ incidents \subseteq incidents'
    <2>1. OnceState
      BY <1>1 DEF Undoubled, OnceInv
    <2>2. \A r \in Referees : OneHook(r)'
      BY <1>1, <2>1, OnceHookFrame DEF OnceState, OneHook
    <2> QED BY <1>1, <2>1, <2>2, OnceHookFrame DEF OnceState
  <1>2. ASSUME NEW r \in Referees, R!Apply(r) PROVE OnceState'
    <2>1. OnceState
      BY <1>2 DEF R!Apply, Undoubled, OnceInv
    <2> QED BY <1>2, <2>1, OnceApply
  <1>3. ASSUME NEW r \in Referees, NEW c \in Checkouts, R!Hooks(r, c) PROVE OnceState'
    <2>1. incidents \subseteq incidents'
      BY <1>3 DEF R!Hooks, R!HookReads, R!HookAdvances, R!HookEnqueues, R!Event
    <2>2. OnceState
      BY <2>1 DEF Undoubled, OnceInv
    <2> QED BY <1>3, <2>2, OnceHook
  <1>4. ASSUME NEW w \in Workers, R!Work(w) PROVE OnceState'
    <2>1. incidents \subseteq incidents'
      BY <1>4, EvaluateReadsFacts, TransferReadsFacts, FindsFraudFacts, FindsCleanFacts,
         InsertPayoutFacts, MarkPaidFacts, QueueTransfersFacts, MarkProcessingFacts, PayFacts,
         PayFailsFacts, RecordPaidFacts DEF R!Work
    <2>2. OnceState
      BY <2>1 DEF Undoubled, OnceInv
    <2> QED BY <1>4, <2>2, OnceWork
  <1>5. ASSUME NEW w \in Workers, R!Crash(w) PROVE OnceState'
    BY <1>5, CrashFacts DEF Undoubled
  <1>6. CASE R!Restart \/ R!Wire
    BY <1>1, <1>6 DEF R!Restart, R!Wire, R!Event
  <1>7. CASE UNCHANGED R!vars
    BY <1>1, <1>7 DEF R!vars
  <1> QED BY Zenon, <1>2, <1>3, <1>4, <1>5, <1>6, <1>7 DEF R!Next

\* However often Stripe refuses, the queue fails, a transfer goes unrecorded and the server
\* restarts, nobody is paid twice for one referral, unless a job dies half way, the answer to a
\* transfer is lost, or the hooks of two checkouts run at once.
THEOREM NobodyIsPaidTwice == MoneySpec => []PaidOnce
  <1>1. MoneyInit => ReferralTypes /\ TraceInv /\ OnceInv
    BY ReferralTypesInit, TraceInit, OnceInit DEF MoneyInit
  <1>2. ReferralTypes /\ TraceInv /\ OnceInv /\ [MoneyNext]_money =>
          (ReferralTypes /\ TraceInv /\ OnceInv)'
    BY StepOfReferral, ReferralTypesStep, TraceStep, OnceStep
  <1>3. OnceInv => PaidOnce
    BY DEF OnceInv, OnceState, AtMostOnce, Undoubled, PaidOnce, R!PaidOnce
  <1> QED BY <1>1, <1>2, <1>3, PTL DEF MoneySpec

-----------------------------------------------------------------------------
(* The state of the three components of MC_Money keeps its type: amounts,  *)
(* steps, rows and the jobs that refer to them.                            *)
THEOREM MoneyIsTyped == MoneySpec => []MoneyTypeOK
  <1>1. MoneyInit => IInv /\ LateTypes /\ ReferralTypes
    BY FundInit, LateTypesInit, ReferralTypesInit DEF MoneyInit
  <1>2. [MoneyNext]_money => [Next]_vars
    BY DEF MoneyNext, money, Funding, BeingLate, Referring
  <1>3. IInv /\ LateTypes /\ ReferralTypes /\ [MoneyNext]_money =>
          (IInv /\ LateTypes /\ ReferralTypes)'
    BY <1>2, StepOfLateReturn, StepOfReferral, FundStep, LateTypesStep, ReferralTypesStep
  <1>4. IInv /\ LateTypes /\ ReferralTypes => MoneyTypeOK
    BY TypesOK, ReferralTypesOK DEF IInv, MoneyTypeOK
  <1> QED BY <1>1, <1>3, <1>4, PTL DEF MoneySpec

=============================================================================
