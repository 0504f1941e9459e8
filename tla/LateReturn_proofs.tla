-------------------------- MODULE LateReturn_proofs --------------------------
(***************************************************************************)
(* Theorems about LateReturn, for any number of workers, any rates and any *)
(* hold.  They are stated of MC_Money, whose runs check the same           *)
(* properties: a step of MC_Money is a step of LateReturn (L) or leaves    *)
(* the variables of LateReturn alone.                                      *)
(***************************************************************************)
EXTENDS MC_Money, SequenceTheorems, TLAPS

LateSteps == {"idle", "price", "find", "insert", "capture", "record", "schedule", "decide", "seize",
              "mark"}
LateWorker == [step : LateSteps, job : L!Job, now : 0 .. MaxTime, total : Nat, left : Nat,
               row : Nat, fee : Nat, amount : Nat]
LateRow == [status : L!Status, fee : Nat]

LateTypes ==
  /\ rental \in {"ACTIVE", "COMPLETED", "DISPUTED"}
  /\ time \in 0 .. MaxTime
  /\ conflict \in BOOLEAN
  /\ hold \in [late : Nat, damage : Nat, released : Nat, remaining : Nat]
  /\ rows \in Seq(LateRow)
  /\ jobs \subseteq L!Job
  /\ worker \in [Workers -> LateWorker]
  /\ \A w \in Workers :
       worker[w].step \in {"capture", "record", "schedule", "decide"} => worker[w].row \in DOMAIN rows
  /\ events \subseteq LateFeatures

-----------------------------------------------------------------------------
(* What the operators do.                                                  *)

\* Arithmetic of the fees.
LEMMA Times ==
  ASSUME NEW r \in Nat, NEW a \in Nat, NEW b \in Nat, a <= b
  PROVE  r * a \in Nat /\ r * a <= r * b
  <1>1. b - a \in Nat /\ r * (b - a) >= 0 /\ r * b = r * a + r * (b - a)
    OBVIOUS
  <1>2. r * a \in Nat /\ r * b \in Nat /\ r * (b - a) \in Nat
    OBVIOUS
  <1> QED BY <1>1, <1>2

LEMMA TimesStrict ==
  ASSUME NEW r \in Nat \ {0}, NEW a \in Nat, NEW b \in Nat, a < b
  PROVE  r * a < r * b
  <1>1. b - a \in Nat \ {0} /\ r * b = r * a + r * (b - a)
    OBVIOUS
  <1>2. r * (b - a) >= r
    BY <1>1
  <1>3. r * a \in Nat /\ r * b \in Nat /\ r * (b - a) \in Nat
    OBVIOUS
  <1> QED BY <1>1, <1>2, <1>3

\* A late fee is held below the cap and never falls with time.
LEMMA LateFeeBounds ==
  ASSUME NEW t \in Nat, conflict \in BOOLEAN
  PROVE  /\ L!LateFee(t) \in 0 .. Cap /\ L!LateFee(0) = 0
         /\ L!FeeAt(Rate, t) \in Nat
  <1>1. Rate * t \in Nat /\ (2 * Rate) * t \in Nat /\ Cap \in Nat /\ Rate \in Nat
    BY MoneyAssumption DEF L!LateAssumption
  <1>2. Rate * 0 = 0 /\ (2 * Rate) * 0 = 0
    BY <1>1
  <1> QED BY <1>1, <1>2 DEF L!LateFee, L!FeeAt

\* Without a conflicting booking the rate is not doubled.
LEMMA PlainFee == \A t : conflict = FALSE => L!FeeAt(Rate, t) = L!LateFee(t)
  BY DEF L!LateFee

LEMMA LateFeeNat == conflict \in BOOLEAN => \A t \in Nat : L!LateFee(t) \in Nat
  <1>1. Cap \in Nat
    BY MoneyAssumption DEF L!LateAssumption
  <1> QED BY <1>1, LateFeeBounds

LEMMA LateFeeGrows ==
  ASSUME NEW s \in Nat, NEW t \in Nat, s <= t, conflict = FALSE
  PROVE  /\ L!LateFee(s) <= L!LateFee(t)
         /\ s < t /\ L!LateFee(t) <= L!LateFee(s) => L!LateFee(t) \in {0, Cap}
  <1>1. Rate \in Nat /\ Cap \in Nat
    BY MoneyAssumption DEF L!LateAssumption
  <1>2. Rate * s \in Nat /\ Rate * t \in Nat /\ Rate * s <= Rate * t
    BY <1>1, Times
  <1>3. Rate # 0 /\ s < t => Rate * s < Rate * t
    BY <1>1, TimesStrict
  <1>4. Rate = 0 => Rate * s = 0 /\ Rate * t = 0
    BY <1>1
  <1>5. L!LateFee(s) = (IF Rate * s > Cap THEN Cap ELSE Rate * s)
        /\ L!LateFee(t) = (IF Rate * t > Cap THEN Cap ELSE Rate * t)
    BY DEF L!LateFee, L!FeeAt
  <1> DEFINE x == Rate * s  y == Rate * t
  <1> HIDE DEF x, y
  <1>6. x \in Nat /\ y \in Nat /\ x <= y /\ (Rate # 0 /\ s < t => x < y) /\ (Rate = 0 => x = 0 /\ y = 0)
    BY <1>2, <1>3, <1>4 DEF x, y
  <1>7. L!LateFee(s) = (IF x > Cap THEN Cap ELSE x) /\ L!LateFee(t) = (IF y > Cap THEN Cap ELSE y)
    BY <1>5 DEF x, y
  <1> QED BY <1>1, <1>6, <1>7

\* Writing one field of a worker's record keeps it one.
LEMMA Fields ==
  ASSUME NEW o \in LateWorker
  PROVE  /\ \A s \in LateSteps : [o EXCEPT !.step = s] \in LateWorker
         /\ \A j \in L!Job : [o EXCEPT !.job = j] \in LateWorker
         /\ \A n \in 0 .. MaxTime : [o EXCEPT !.now = n] \in LateWorker
         /\ \A n \in Nat : /\ [o EXCEPT !.total = n] \in LateWorker
                           /\ [o EXCEPT !.left = n] \in LateWorker
                           /\ [o EXCEPT !.row = n] \in LateWorker
                           /\ [o EXCEPT !.fee = n] \in LateWorker
                           /\ [o EXCEPT !.amount = n] \in LateWorker
  <1>1. \A s \in LateSteps : [o EXCEPT !.step = s] \in LateWorker BY DEF LateWorker
  <1>2. \A j \in L!Job : [o EXCEPT !.job = j] \in LateWorker BY DEF LateWorker
  <1>3. \A n \in 0 .. MaxTime : [o EXCEPT !.now = n] \in LateWorker BY DEF LateWorker
  <1>4. \A n \in Nat : /\ [o EXCEPT !.total = n] \in LateWorker
                       /\ [o EXCEPT !.left = n] \in LateWorker BY DEF LateWorker
  <1>5. \A n \in Nat : /\ [o EXCEPT !.row = n] \in LateWorker
                       /\ [o EXCEPT !.fee = n] \in LateWorker
                       /\ [o EXCEPT !.amount = n] \in LateWorker BY DEF LateWorker
  <1> QED BY <1>1, <1>2, <1>3, <1>4, <1>5

LEMMA IdleType == L!Idle \in LateWorker
  BY MoneyAssumption DEF L!Idle, L!NoJob, LateWorker, LateSteps, L!Job, L!LateAssumption

\* What the row found, or the row inserted, makes of a check.
LEMMA AfterFindFacts ==
  \A o \in LateWorker, row, previous \in Nat :
    LET n == L!AfterFind(o, row, previous) IN
      /\ n \in LateWorker /\ n.step \in {"capture", "record"} /\ n.row = row
      /\ n.job = o.job /\ n.now = o.now /\ n.total = o.total /\ n.left = o.left
      /\ n.fee = IF o.total > previous THEN previous ELSE o.total
      /\ n.step = "capture" => n.amount > 0 /\ n.fee = previous /\ previous + n.amount <= o.total
      /\ n.step = "record" => n.amount = 0 /\ (o.left = 0 \/ n.fee = o.total)
  <1> SUFFICES ASSUME NEW o \in LateWorker, NEW row \in Nat, NEW previous \in Nat,
                      NEW n, n = L!AfterFind(o, row, previous)
               PROVE  /\ n \in LateWorker /\ n.step \in {"capture", "record"} /\ n.row = row
                      /\ n.job = o.job /\ n.now = o.now /\ n.total = o.total /\ n.left = o.left
                      /\ n.fee = IF o.total > previous THEN previous ELSE o.total
                      /\ n.step = "capture" =>
                           n.amount > 0 /\ n.fee = previous /\ previous + n.amount <= o.total
                      /\ n.step = "record" => n.amount = 0 /\ (o.left = 0 \/ n.fee = o.total)
    OBVIOUS
  <1> DEFINE due == IF o.total > previous THEN o.total - previous ELSE 0
             amount == IF due > o.left THEN o.left ELSE due
             step == IF amount > 0 THEN "capture" ELSE "record"
             fee == IF due = 0 THEN o.total ELSE previous
  <1>1. o.total \in Nat /\ o.left \in Nat
    BY DEF LateWorker
  <1>2. /\ amount \in Nat /\ fee \in Nat /\ due \in Nat
        /\ due = 0 <=> o.total <= previous
        /\ due > 0 => due = o.total - previous
        /\ amount <= due
        /\ amount = 0 => due = 0 \/ o.left = 0
    BY <1>1
  <1>3. n = [o EXCEPT !.step = step, !.row = row, !.amount = amount, !.fee = fee]
    BY DEF L!AfterFind
  <1>4. step \in LateSteps
    BY DEF LateSteps
  <1> HIDE DEF due, amount, step, fee
  <1>5. PICK p : p = [o EXCEPT !.step = step]
    OBVIOUS
  <1>6. PICK q : q = [p EXCEPT !.row = row]
    OBVIOUS
  <1>7. PICK r : r = [q EXCEPT !.amount = amount]
    OBVIOUS
  <1>8. p \in LateWorker /\ q \in LateWorker /\ r \in LateWorker /\ n = [r EXCEPT !.fee = fee]
    <2>1. p \in LateWorker
      BY <1>4, <1>5, Fields
    <2>2. q \in LateWorker
      BY <2>1, <1>6, Fields
    <2>3. r \in LateWorker
      BY <2>2, <1>7, <1>2, Fields
    <2> QED BY <2>1, <2>2, <2>3, <1>3, <1>5, <1>6, <1>7
  <1>9. /\ n.step = step /\ n.row = row /\ n.amount = amount /\ n.fee = fee
        /\ n.job = o.job /\ n.now = o.now /\ n.total = o.total /\ n.left = o.left
        /\ n \in LateWorker
    <2>1. /\ p.step = step /\ p.job = o.job /\ p.now = o.now /\ p.total = o.total
          /\ p.left = o.left
      BY <1>5 DEF LateWorker
    <2>2. /\ q.row = row /\ q.step = p.step /\ q.job = p.job /\ q.now = p.now
          /\ q.total = p.total /\ q.left = p.left
      BY <1>6, <1>8 DEF LateWorker
    <2>3. /\ r.amount = amount /\ r.row = q.row /\ r.step = q.step /\ r.job = q.job
          /\ r.now = q.now /\ r.total = q.total /\ r.left = q.left
      BY <1>7, <1>8 DEF LateWorker
    <2>4. /\ n.fee = fee /\ n.amount = r.amount /\ n.row = r.row /\ n.step = r.step
          /\ n.job = r.job /\ n.now = r.now /\ n.total = r.total /\ n.left = r.left
      BY <1>8 DEF LateWorker
    <2>5. n \in LateWorker
      <3>1. r \in LateWorker /\ n = [r EXCEPT !.fee = fee]
        BY Zenon, <1>8
      <3>2. fee \in Nat
        BY Zenon, <1>2
      <3>3. [r EXCEPT !.fee = fee] \in LateWorker
        BY ONLY <3>1, <3>2 DEF LateWorker
      <3> QED BY ONLY <3>1, <3>3
    <2> QED BY <2>1, <2>2, <2>3, <2>4, <2>5
  <1> QED BY <1>1, <1>2, <1>9 DEF step, fee

LEMMA RowKept ==
  \A o \in LateWorker, row, previous \in Nat : L!AfterFind(o, row, previous).row = row
  BY AfterFindFacts

\* A step of one worker writes its record and no other.
LEMMA Write ==
  ASSUME worker \in [Workers -> LateWorker], NEW w \in Workers, NEW o \in LateWorker,
         worker' = [worker EXCEPT ![w] = o]
  PROVE  /\ worker' \in [Workers -> LateWorker] /\ worker'[w] = o
         /\ \A v \in Workers : v # w => worker'[v] = worker[v]
  OBVIOUS

LEMMA Going ==
  ASSUME worker \in [Workers -> LateWorker], NEW w \in Workers, NEW s \in LateSteps, L!Goto(w, s)
  PROVE  /\ worker' \in [Workers -> LateWorker]
         /\ worker'[w] = [worker[w] EXCEPT !.step = s]
         /\ worker'[w].step = s
         /\ worker'[w].job = worker[w].job /\ worker'[w].now = worker[w].now
         /\ worker'[w].total = worker[w].total /\ worker'[w].left = worker[w].left
         /\ worker'[w].row = worker[w].row /\ worker'[w].fee = worker[w].fee
         /\ worker'[w].amount = worker[w].amount
         /\ \A v \in Workers : v # w => worker'[v] = worker[v]
  <1>1. worker' = [worker EXCEPT ![w] = [worker[w] EXCEPT !.step = s]]
    BY Zenon DEF L!Goto
  <1>2. worker[w] \in LateWorker
    OBVIOUS
  <1>3. [worker[w] EXCEPT !.step = s] \in LateWorker
    BY <1>2, Fields
  <1>4. worker'[w] = [worker[w] EXCEPT !.step = s]
    BY <1>1
  <1> QED BY <1>1, <1>2, <1>3, <1>4, Write DEF LateWorker

LEMMA Stopping ==
  ASSUME worker \in [Workers -> LateWorker], NEW w \in Workers, L!Stop(w)
  PROVE  /\ worker' \in [Workers -> LateWorker] /\ worker'[w] = L!Idle
         /\ worker'[w].step = "idle" /\ worker'[w].fee = 0
         /\ \A v \in Workers : v # w => worker'[v] = worker[v]
  BY IdleType, Write DEF L!Stop, L!Set, L!Idle

-----------------------------------------------------------------------------
(* What the actions do, field by field.                                    *)

LEMMA TypesOK == LateTypes => L!TypeOK
  <1> SUFFICES ASSUME LateTypes PROVE L!TypeOK
    OBVIOUS
  <1>1. \A i \in DOMAIN rows : rows[i] \in LateRow
    BY DEF LateTypes
  <1> QED BY <1>1 DEF LateTypes, L!TypeOK, LateWorker, LateSteps, LateRow, L!H!Allocation

\* A worker takes a job of its own, or the two overlap.
LEMMA TakeFacts ==
  ASSUME LateTypes, NEW w \in Workers, NEW job, L!Take(w, job)
  PROVE  /\ worker[w].step = "idle" /\ job \in jobs /\ job \in L!Job /\ job[2] <= time
         /\ jobs' = jobs \ {job} /\ jobs' \subseteq L!Job
         /\ events \subseteq events' /\ events' \subseteq LateFeatures
         /\ events' \subseteq events \cup {"overlap"}
         /\ "overlap" \notin events' => \A v \in Workers : worker[v].step = "idle"
  BY DEF L!Take, L!Is, L!Event, LateTypes

LEMMA CheckReadsFacts ==
  ASSUME LateTypes, NEW w \in Workers, NEW job \in jobs, L!CheckReads(w, job)
  PROVE  /\ job[1] = "check" /\ L!Take(w, job) /\ UNCHANGED <<rental, time, conflict, hold, rows>>
         /\ worker' \in [Workers -> LateWorker]
         /\ \A v \in Workers : v # w => worker'[v] = worker[v]
         /\ \/ /\ rental # "ACTIVE" \/ time = 0
               /\ worker' = worker
            \/ /\ rental = "ACTIVE" /\ time > 0
               /\ worker'[w].step = "price" /\ worker'[w].job = job /\ worker'[w].now = time
               /\ worker'[w].left = hold.remaining /\ worker'[w].fee = 0
  <1>1. CASE rental = "ACTIVE" /\ time > 0
    <2>1. PICK o1 : o1 = [L!Idle EXCEPT !.step = "price"]
      OBVIOUS
    <2>2. PICK o2 : o2 = [o1 EXCEPT !.job = job]
      OBVIOUS
    <2>3. PICK o3 : o3 = [o2 EXCEPT !.now = time]
      OBVIOUS
    <2>4. PICK o4 : o4 = [o3 EXCEPT !.left = hold.remaining]
      OBVIOUS
    <2>5. L!Set(w, o4)
      BY <1>1, <2>1, <2>2, <2>3, <2>4 DEF L!CheckReads
    <2>6. time \in 0 .. MaxTime /\ job \in L!Job /\ hold.remaining \in Nat
      BY DEF LateTypes
    <2>7. L!Idle \in LateWorker /\ L!Idle.fee = 0 /\ "price" \in LateSteps
      BY IdleType DEF L!Idle, LateSteps
    <2>8. o1 \in LateWorker /\ o1.step = "price" /\ o1.fee = 0
      BY <2>1, <2>7, Fields DEF LateWorker
    <2>9. o2 \in LateWorker /\ o2.step = "price" /\ o2.fee = 0 /\ o2.job = job
      BY <2>2, <2>6, <2>8, Fields DEF LateWorker
    <2>10. /\ o3 \in LateWorker /\ o3.step = "price" /\ o3.fee = 0 /\ o3.job = job
           /\ o3.now = time
      BY <2>3, <2>6, <2>9, Fields DEF LateWorker
    <2>11. /\ o4 \in LateWorker /\ o4.step = "price" /\ o4.fee = 0 /\ o4.job = job
           /\ o4.now = time /\ o4.left = hold.remaining
      BY <2>4, <2>6, <2>10, Fields DEF LateWorker
    <2>12. worker \in [Workers -> LateWorker]
      BY DEF LateTypes
    <2> QED BY <1>1, <2>5, <2>11, <2>12, Write DEF L!CheckReads, L!Set
  <1>2. CASE ~ (rental = "ACTIVE" /\ time > 0)
    BY <1>2 DEF L!CheckReads, LateTypes
  <1> QED BY <1>1, <1>2

\* The rate is the conflict's, unless the query failed and that was logged.
LEMMA PriceFacts ==
  ASSUME LateTypes, NEW w \in Workers, L!Price(w)
  PROVE  /\ worker[w].step = "price" /\ UNCHANGED <<rental, time, conflict, hold, rows, jobs>>
         /\ worker' \in [Workers -> LateWorker]
         /\ \A v \in Workers : v # w => worker'[v] = worker[v]
         /\ worker'[w].step = "find" /\ worker'[w].job = worker[w].job
         /\ worker'[w].now = worker[w].now /\ worker'[w].left = worker[w].left
         /\ worker'[w].row = worker[w].row /\ worker'[w].fee = worker[w].fee
         /\ \/ worker'[w].total = L!LateFee(worker[w].now)
            \/ /\ worker'[w].total = L!FeeAt(Rate, worker[w].now)
               /\ "logged" \in events'
         /\ events \subseteq events' /\ events' \subseteq events \cup {"logged"}
         /\ events' \subseteq LateFeatures
  <1>1. /\ worker \in [Workers -> LateWorker] /\ worker[w] \in LateWorker
        /\ worker[w].now \in Nat /\ conflict \in BOOLEAN /\ events \subseteq LateFeatures
    BY DEF LateTypes, LateWorker
  <1>2. PICK total :
          /\ \/ total = L!LateFee(worker[w].now) /\ events' = events
             \/ /\ total = L!FeeAt(Rate, worker[w].now)
                /\ "logged" \in LateFeatures /\ events' = events \cup {"logged"}
          /\ L!Set(w, [worker[w] EXCEPT !.step = "find", !.total = total])
    BY DEF L!Price, L!Event
  <1>3. total \in Nat
    BY <1>1, <1>2, LateFeeBounds, LateFeeNat
  <1>4. PICK p : p = [worker[w] EXCEPT !.step = "find"]
    OBVIOUS
  <1>5. PICK q : q = [p EXCEPT !.total = total]
    OBVIOUS
  <1>6. worker' = [worker EXCEPT ![w] = q]
    BY <1>2, <1>4, <1>5 DEF L!Set
  <1>7. /\ p \in LateWorker /\ p.step = "find" /\ p.job = worker[w].job
        /\ p.now = worker[w].now /\ p.left = worker[w].left
        /\ p.row = worker[w].row /\ p.fee = worker[w].fee
    <2>1. "find" \in LateSteps
      BY DEF LateSteps
    <2> QED BY <1>1, <1>4, <2>1, Fields DEF LateWorker
  <1>8. /\ q \in LateWorker /\ q.step = "find" /\ q.job = worker[w].job
        /\ q.now = worker[w].now /\ q.left = worker[w].left
        /\ q.row = worker[w].row /\ q.fee = worker[w].fee /\ q.total = total
    BY <1>3, <1>5, <1>7, Fields DEF LateWorker
  <1>9. /\ worker[w].step = "price" /\ UNCHANGED <<rental, time, conflict, hold, rows, jobs>>
    BY DEF L!Price, L!Is
  <1>10. /\ events \subseteq events' /\ events' \subseteq events \cup {"logged"}
         /\ events' \subseteq LateFeatures
         /\ total = L!LateFee(worker[w].now) \/
              (total = L!FeeAt(Rate, worker[w].now) /\ "logged" \in events')
    BY <1>1, <1>2
  <1>11. /\ worker' \in [Workers -> LateWorker] /\ worker'[w] = q
         /\ \A v \in Workers : v # w => worker'[v] = worker[v]
    BY <1>1, <1>6, <1>8, Write
  <1> QED BY <1>8, <1>9, <1>10, <1>11

\* The row that stands for the rental, and what it shows.
Latest == IF rows = <<>> THEN 0 ELSE rows[Len(rows)].fee

LEMMA RowFacts ==
  ASSUME LateTypes
  PROVE  /\ Len(rows) \in Nat /\ DOMAIN rows = 1 .. Len(rows) /\ Latest \in Nat
         /\ rows # <<>> => Len(rows) \in DOMAIN rows /\ rows[Len(rows)] \in LateRow
         /\ \A i \in DOMAIN rows : rows[i] \in LateRow /\ rows[i].fee \in Nat
         /\ rows = <<>> <=> Len(rows) = 0
  <1>1. rows \in Seq(LateRow)
    BY DEF LateTypes
  <1>2. /\ Len(rows) \in Nat /\ DOMAIN rows = 1 .. Len(rows)
        /\ \A i \in DOMAIN rows : rows[i] \in LateRow
    BY <1>1
  <1>3. rows = <<>> <=> Len(rows) = 0
    BY <1>1
  <1>4. rows # <<>> => Len(rows) \in DOMAIN rows
    BY <1>2, <1>3
  <1> QED BY <1>2, <1>3, <1>4 DEF Latest, LateRow

LEMMA FindFacts ==
  ASSUME LateTypes, NEW w \in Workers, L!FindRow(w)
  PROVE  /\ worker[w].step = "find" /\ UNCHANGED <<rental, time, conflict, hold, rows, jobs, events>>
         /\ worker' \in [Workers -> LateWorker]
         /\ \A v \in Workers : v # w => worker'[v] = worker[v]
         /\ \/ /\ rows = <<>> /\ worker'[w].step = "insert"
               /\ worker'[w].job = worker[w].job /\ worker'[w].now = worker[w].now
               /\ worker'[w].total = worker[w].total /\ worker'[w].left = worker[w].left
               /\ worker'[w].fee = worker[w].fee
            \/ /\ rows # <<>>
               /\ worker'[w] = L!AfterFind(worker[w], Len(rows), Latest)
  <1> USE DEF LateTypes
  <1>1. CASE rows = <<>>
    <2>1. L!Goto(w, "insert") /\ "insert" \in LateSteps
      BY <1>1 DEF L!FindRow, LateSteps
    <2> QED BY <1>1, <2>1, Going DEF L!FindRow, L!Is
  <1>2. CASE rows # <<>>
    <2>1. L!Set(w, L!AfterFind(worker[w], Len(rows), Latest))
      BY <1>2 DEF L!FindRow, Latest
    <2>2. worker[w] \in LateWorker /\ Len(rows) \in Nat /\ Latest \in Nat
      BY RowFacts
    <2>3. L!AfterFind(worker[w], Len(rows), Latest) \in LateWorker
      BY <2>2, AfterFindFacts
    <2> QED BY <1>2, <2>1, <2>3, Write DEF L!FindRow, L!Is, L!Set
  <1> QED BY <1>1, <1>2

LEMMA InsertFacts ==
  ASSUME LateTypes, NEW w \in Workers, L!InsertRow(w)
  PROVE  /\ worker[w].step = "insert" /\ UNCHANGED <<rental, time, conflict, hold, jobs, events>>
         /\ worker' \in [Workers -> LateWorker]
         /\ \A v \in Workers : v # w => worker'[v] = worker[v]
         /\ worker'[w] = L!AfterFind(worker[w], Len(rows) + 1, 0)
         /\ rows' \in Seq(LateRow) /\ Len(rows') = Len(rows) + 1 /\ Latest' = 0
         /\ \A i \in DOMAIN rows : i \in DOMAIN rows' /\ rows'[i] = rows[i]
         /\ rows'[Len(rows')].fee = 0
  <1> USE DEF LateTypes
  <1>1. worker[w] \in LateWorker /\ Len(rows) + 1 \in Nat /\ 0 \in Nat
    BY RowFacts
  <1>2. L!AfterFind(worker[w], Len(rows) + 1, 0) \in LateWorker
    BY <1>1, AfterFindFacts
  <1>3. [status |-> "MONITORING", fee |-> 0] \in LateRow
    BY DEF LateRow, L!Status
  <1>4. /\ rows' = Append(rows, [status |-> "MONITORING", fee |-> 0])
        /\ rows' \in Seq(LateRow) /\ Len(rows') = Len(rows) + 1
        /\ \A i \in DOMAIN rows : i \in DOMAIN rows' /\ rows'[i] = rows[i]
        /\ rows'[Len(rows')].fee = 0
    BY <1>3, AppendProperties DEF L!InsertRow
  <1>5. Latest' = 0
    <2>1. Len(rows') # 0 /\ rows' # <<>>
      BY <1>4, RowFacts
    <2> QED BY <1>4, <2>1 DEF Latest
  <1> QED BY <1>1, <1>2, <1>4, <1>5, Write DEF L!InsertRow, L!Is, L!Set

LEMMA CaptureFacts ==
  ASSUME LateTypes, NEW w \in Workers, L!Capture(w)
  PROVE  /\ worker[w].step = "capture" /\ worker[w].amount <= hold.remaining
         /\ UNCHANGED <<rental, time, conflict, rows, jobs, events>>
         /\ hold' \in [late : Nat, damage : Nat, released : Nat, remaining : Nat]
         /\ hold'.late = hold.late + worker[w].amount
         /\ hold'.remaining = hold.remaining - worker[w].amount
         /\ worker' \in [Workers -> LateWorker]
         /\ \A v \in Workers : v # w => worker'[v] = worker[v]
         /\ worker'[w].step = "record" /\ worker'[w].fee = worker[w].fee + worker[w].amount
         /\ worker'[w].job = worker[w].job /\ worker'[w].now = worker[w].now
         /\ worker'[w].total = worker[w].total /\ worker'[w].row = worker[w].row
         /\ worker'[w].amount = worker[w].amount
  <1> DEFINE o == worker[w]  n == o.fee + o.amount
  <1>1. o \in LateWorker /\ hold \in [late : Nat, damage : Nat, released : Nat, remaining : Nat]
    BY DEF LateTypes
  <1>2. o.fee \in Nat /\ o.amount \in Nat /\ n \in Nat
    BY <1>1 DEF LateWorker
  <1>3. worker' = [worker EXCEPT ![w] = [o EXCEPT !.step = "record", !.fee = n]]
    BY Zenon DEF L!Capture
  <1>4. PICK p : p = [o EXCEPT !.step = "record"]
    OBVIOUS
  <1>5. PICK q : q = [p EXCEPT !.fee = n]
    OBVIOUS
  <1>6. /\ p \in LateWorker /\ p.step = "record" /\ p.job = o.job /\ p.now = o.now
        /\ p.total = o.total /\ p.row = o.row /\ p.amount = o.amount
    <2>1. "record" \in LateSteps
      BY DEF LateSteps
    <2> QED BY <1>1, <1>4, <2>1, Fields DEF LateWorker
  <1>7. /\ q \in LateWorker /\ q.step = "record" /\ q.job = o.job /\ q.now = o.now
        /\ q.total = o.total /\ q.row = o.row /\ q.amount = o.amount /\ q.fee = n
    BY <1>2, <1>5, <1>6, Fields DEF LateWorker
  <1>8. worker' = [worker EXCEPT ![w] = q]
    BY <1>3, <1>4, <1>5
  <1>9. /\ worker[w].step = "capture" /\ worker[w].amount <= hold.remaining
        /\ UNCHANGED <<rental, time, conflict, rows, jobs, events>>
        /\ hold' = [late |-> hold.late + o.amount, damage |-> hold.damage + 0,
                    released |-> hold.released, remaining |-> hold.remaining - o.amount]
    BY DEF L!Capture, L!Is, L!H!AfterCapture
  <1>10. /\ hold' \in [late : Nat, damage : Nat, released : Nat, remaining : Nat]
         /\ hold'.late = hold.late + o.amount /\ hold'.remaining = hold.remaining - o.amount
    BY <1>1, <1>2, <1>9
  <1>11. worker \in [Workers -> LateWorker]
    BY DEF LateTypes
  <1> QED BY <1>7, <1>8, <1>9, <1>10, <1>11, Write

LEMMA RecordFacts ==
  ASSUME LateTypes, NEW w \in Workers, L!RecordCharge(w)
  PROVE  /\ worker[w].step = "record"
         /\ UNCHANGED <<rental, time, conflict, hold, jobs, events>>
         /\ worker' \in [Workers -> LateWorker]
         /\ \A v \in Workers : v # w => worker'[v] = worker[v]
         /\ \/ /\ worker[w].amount > 0 /\ worker'[w].step = "schedule"
               /\ worker'[w].job = worker[w].job /\ worker'[w].now = worker[w].now
               /\ worker'[w].row = worker[w].row /\ worker'[w].fee = worker[w].fee
               /\ worker'[w].total = worker[w].total
            \/ /\ worker[w].amount = 0 /\ worker'[w] = L!Idle
         /\ rows' \in Seq(LateRow) /\ Len(rows') = Len(rows) /\ DOMAIN rows' = DOMAIN rows
         /\ \A i \in DOMAIN rows :
              rows'[i].fee = IF i = worker[w].row THEN worker[w].fee ELSE rows[i].fee
         /\ worker[w].row = Len(rows) => Latest' = worker[w].fee
         /\ worker[w].row \in DOMAIN rows
  <1> DEFINE o == worker[w]  r == [status |-> "CHARGING", fee |-> o.fee]
  <1>1. o \in LateWorker /\ worker \in [Workers -> LateWorker] /\ rows \in Seq(LateRow)
    BY DEF LateTypes
  <1>2. /\ o.step = "record" /\ UNCHANGED <<rental, time, conflict, hold, jobs, events>>
        /\ rows' = [rows EXCEPT ![o.row] = r]
        /\ IF o.amount > 0 THEN L!Goto(w, "schedule") ELSE L!Stop(w)
    BY DEF L!RecordCharge, L!Is
  <1>3. o.row \in 1 .. Len(rows) /\ r \in LateRow /\ r.fee = o.fee
    <2>1. o.fee \in Nat
      BY <1>1 DEF LateWorker
    <2>2. o.row \in 1 .. Len(rows)
      BY <1>2, RowFacts DEF LateTypes
    <2> QED BY <2>1, <2>2 DEF LateRow, L!Status
  <1>4. /\ rows' \in Seq(LateRow) /\ Len(rows') = Len(rows) /\ DOMAIN rows' = DOMAIN rows
        /\ \A i \in DOMAIN rows : rows'[i] = IF i = o.row THEN r ELSE rows[i]
    BY <1>1, <1>2, <1>3, ExceptSeq
  <1>5. \A i \in DOMAIN rows : rows'[i].fee = IF i = o.row THEN o.fee ELSE rows[i].fee
    BY <1>3, <1>4
  <1>6. o.row = Len(rows) => Latest' = o.fee
    <2>1. Len(rows') \in DOMAIN rows /\ rows' # <<>>
      BY <1>3, <1>4, RowFacts
    <2> QED BY <1>4, <1>5, <2>1 DEF Latest
  <1>7. o.amount \in Nat
    BY <1>1 DEF LateWorker
  <1>8. CASE o.amount > 0
    <2>1. L!Goto(w, "schedule") /\ "schedule" \in LateSteps
      BY <1>2, <1>8 DEF LateSteps
    <2>2. /\ worker' \in [Workers -> LateWorker]
          /\ \A v \in Workers : v # w => worker'[v] = worker[v]
          /\ worker'[w].step = "schedule"
          /\ worker'[w].job = worker[w].job /\ worker'[w].now = worker[w].now
          /\ worker'[w].row = worker[w].row /\ worker'[w].fee = worker[w].fee
          /\ worker'[w].total = worker[w].total
      BY <1>1, <2>1, Going
    <2> HIDE DEF r
    <2>3. w \in Workers /\ DOMAIN rows = 1 .. Len(rows)
      BY RowFacts
    <2> QED BY <1>2, <1>3, <1>4, <1>5, <1>6, <1>8, <2>2, <2>3
  <1>9. CASE ~ (o.amount > 0)
    <2>1. L!Stop(w) /\ o.amount = 0
      BY <1>2, <1>7, <1>9
    <2> QED BY <1>1, <1>2, <1>3, <1>4, <1>5, <1>6, <2>1, Stopping
  <1> QED BY <1>8, <1>9

LEMMA ScheduleFacts ==
  ASSUME LateTypes, NEW w \in Workers, L!Schedule(w)
  PROVE  /\ worker[w].step = "schedule"
         /\ UNCHANGED <<rental, time, conflict, hold, rows>>
         /\ worker' \in [Workers -> LateWorker] /\ worker'[w] = L!Idle
         /\ \A v \in Workers : v # w => worker'[v] = worker[v]
         /\ jobs \subseteq jobs' /\ jobs' \subseteq L!Job
         /\ events \subseteq events' /\ events' \subseteq LateFeatures
         /\ \A job \in jobs' \ jobs : \/ job = <<"check", worker[w].now + 1>>
                                      \/ job[1] = "escalation"
         /\ "queue" \notin events' => <<"check", worker[w].now + 1>> \in jobs'
         /\ events' \subseteq events \cup {"queue"}
  <1>1. worker \in [Workers -> LateWorker] /\ worker[w] \in LateWorker /\ jobs \subseteq L!Job
        /\ events \subseteq LateFeatures
    BY DEF LateTypes
  <1> DEFINE now == worker[w].now
  <1> DEFINE next == {<<"check", now + 1>>} \cup
                     (IF now >= Threshold THEN {<<"escalation", now>>} ELSE {})
  <1>2. /\ worker[w].step = "schedule" /\ L!Stop(w)
        /\ UNCHANGED <<rental, time, conflict, hold, rows>>
        /\ \/ jobs' = jobs \cup next /\ UNCHANGED events
           \/ L!Event("queue") /\ jobs' \in {jobs \cup kept : kept \in SUBSET next}
    BY DEF L!Schedule, L!Is
  <1>3. now \in 0 .. MaxTime /\ MaxTime \in Nat
    BY <1>1, MoneyAssumption DEF LateWorker, L!LateAssumption
  <1>4. next \subseteq L!Job /\ \A job \in next : \/ job = <<"check", now + 1>>
                                                  \/ job[1] = "escalation"
    <2>1. now + 1 \in 0 .. MaxTime + 1 /\ now \in 0 .. MaxTime + 1
      BY <1>3
    <2> HIDE DEF now
    <2>2. <<"check", now + 1>> \in L!Job /\ <<"escalation", now>> \in L!Job
      BY <2>1 DEF L!Job
    <2>3. <<"escalation", now>>[1] = "escalation"
      OBVIOUS
    <2> QED BY <2>2, <2>3
  <1>5. /\ jobs \subseteq jobs' /\ jobs' \subseteq jobs \cup next
        /\ events \subseteq events' /\ events' \subseteq LateFeatures
        /\ "queue" \notin events' => <<"check", now + 1>> \in jobs'
        /\ events' \subseteq events \cup {"queue"}
    BY <1>1, <1>2 DEF L!Event
  <1> HIDE DEF now, next
  <1>6. \A job \in jobs' \ jobs : job \in next
    BY <1>5
  <1>7. jobs' \subseteq L!Job
    BY <1>1, <1>4, <1>5
  <1>8. now = worker[w].now
    BY DEF now
  <1> QED BY <1>1, <1>2, <1>4, <1>5, <1>6, <1>7, <1>8, Stopping

LEMMA EscalationReadsFacts ==
  ASSUME LateTypes, NEW w \in Workers, NEW job \in jobs, L!EscalationReads(w, job)
  PROVE  /\ job[1] = "escalation" /\ L!Take(w, job)
         /\ UNCHANGED <<rental, time, conflict, hold, rows>>
         /\ worker' \in [Workers -> LateWorker]
         /\ \A v \in Workers : v # w => worker'[v] = worker[v]
         /\ \/ worker' = worker
            \/ /\ rental = "ACTIVE" /\ rows # <<>>
               /\ worker'[w].step = "decide" /\ worker'[w].job = job
               /\ worker'[w].row = Len(rows) /\ worker'[w].fee = Latest
  <1> DEFINE asked == rental = "ACTIVE" /\ rows # <<>>
                      /\ rows[Len(rows)].status \in {"MONITORING", "CHARGING"}
  <1>1. worker \in [Workers -> LateWorker] /\ job \in L!Job
    BY DEF LateTypes
  <1>2. CASE asked
    <2>1. PICK o1 : o1 = [L!Idle EXCEPT !.step = "decide"]
      OBVIOUS
    <2>2. PICK o2 : o2 = [o1 EXCEPT !.job = job]
      OBVIOUS
    <2>3. PICK o3 : o3 = [o2 EXCEPT !.row = Len(rows)]
      OBVIOUS
    <2>4. PICK o4 : o4 = [o3 EXCEPT !.fee = Latest]
      OBVIOUS
    <2>5. L!Set(w, o4)
      BY <1>2, <2>1, <2>2, <2>3, <2>4 DEF L!EscalationReads, Latest
    <2>6. Len(rows) \in Nat /\ Latest \in Nat
      BY RowFacts
    <2>7. L!Idle \in LateWorker /\ "decide" \in LateSteps
      BY IdleType DEF LateSteps
    <2>8. o1 \in LateWorker /\ o1.step = "decide"
      BY <2>1, <2>7, Fields DEF LateWorker
    <2>9. o2 \in LateWorker /\ o2.step = "decide" /\ o2.job = job
      BY <1>1, <2>2, <2>8, Fields DEF LateWorker
    <2>10. /\ o3 \in LateWorker /\ o3.step = "decide" /\ o3.job = job
           /\ o3.row = Len(rows)
      BY <2>3, <2>6, <2>9, Fields DEF LateWorker
    <2>11. /\ o4 \in LateWorker /\ o4.step = "decide" /\ o4.job = job
           /\ o4.row = Len(rows) /\ o4.fee = Latest
      BY <2>4, <2>6, <2>10, Fields DEF LateWorker
    <2> QED BY <1>1, <1>2, <2>5, <2>11, Write DEF L!EscalationReads, L!Set
  <1>3. CASE ~ asked
    BY <1>1, <1>3 DEF L!EscalationReads
  <1> QED BY <1>2, <1>3

LEMMA DecideFacts ==
  ASSUME LateTypes, NEW w \in Workers, NEW level \in L!EscalationLevel, L!Decide(w, level)
  PROVE  /\ worker[w].step = "decide" /\ UNCHANGED <<rental, time, conflict, hold>>
         /\ worker' \in [Workers -> LateWorker]
         /\ \A v \in Workers : v # w => worker'[v] = worker[v]
         /\ \/ worker'[w] = L!Idle
            \/ /\ worker'[w].step = "seize" /\ worker'[w].fee = worker[w].fee
               /\ worker'[w].job = worker[w].job
         /\ rows' \in Seq(LateRow) /\ Len(rows') = Len(rows) /\ DOMAIN rows' = DOMAIN rows
         /\ \A i \in DOMAIN rows : rows'[i].fee = rows[i].fee
         /\ Latest' = Latest
         /\ jobs \subseteq jobs' /\ jobs' \subseteq L!Job
         /\ \A job \in jobs' \ jobs : job[1] = "escalation"
         /\ events \subseteq events' /\ events' \subseteq events \cup {"queue"}
         /\ events' \subseteq LateFeatures
  <1> DEFINE i == worker[w].row  r == [rows[i] EXCEPT !.status = L!StatusOf(level)]
  <1>1. /\ worker \in [Workers -> LateWorker] /\ worker[w] \in LateWorker
        /\ rows \in Seq(LateRow) /\ jobs \subseteq L!Job /\ events \subseteq LateFeatures
        /\ time \in 0 .. MaxTime /\ MaxTime \in Nat
    BY MoneyAssumption DEF LateTypes, L!LateAssumption
  <1>2. worker[w].step = "decide" /\ UNCHANGED <<rental, time, conflict, hold>>
    BY DEF L!Decide, L!Is
  <1>3. i \in 1 .. Len(rows) /\ rows[i] \in LateRow
    BY <1>2, RowFacts DEF LateTypes
  <1>4. r \in LateRow /\ r.fee = rows[i].fee
    BY <1>3 DEF LateRow, L!Status, L!StatusOf
  <1>5. rows' = [rows EXCEPT ![i] = r]
    BY Zenon DEF L!Decide
  <1>6. /\ rows' \in Seq(LateRow) /\ Len(rows') = Len(rows) /\ DOMAIN rows' = DOMAIN rows
        /\ \A j \in DOMAIN rows : rows'[j] = IF j = i THEN r ELSE rows[j]
    BY <1>1, <1>3, <1>4, <1>5, ExceptSeq
  <1> HIDE DEF r
  <1>7. \A j \in DOMAIN rows : rows'[j].fee = rows[j].fee
    BY <1>4, <1>6
  <1>8. Latest' = Latest
    <2>1. Len(rows) \in DOMAIN rows /\ rows # <<>> /\ rows' # <<>>
      BY <1>3, <1>6, RowFacts
    <2> QED BY <1>6, <1>7, <2>1 DEF Latest
  <1>9. /\ worker' \in [Workers -> LateWorker]
        /\ \A v \in Workers : v # w => worker'[v] = worker[v]
        /\ \/ worker'[w] = L!Idle
           \/ /\ worker'[w].step = "seize" /\ worker'[w].fee = worker[w].fee
              /\ worker'[w].job = worker[w].job
    <2>1. CASE L!Goto(w, "seize")
      <3>1. "seize" \in LateSteps
        BY DEF LateSteps
      <3> QED BY <1>1, <2>1, <3>1, Going
    <2>2. CASE L!Stop(w)
      BY <1>1, <2>2, Stopping
    <2> QED BY <2>1, <2>2 DEF L!Decide
  <1>10. /\ jobs \subseteq jobs' /\ jobs' \subseteq jobs \cup {<<"escalation", time + 1>>}
         /\ events \subseteq events' /\ events' \subseteq events \cup {"queue"}
         /\ events' \subseteq LateFeatures
    BY <1>1 DEF L!Decide, L!Event
  <1>11. <<"escalation", time + 1>> \in L!Job /\ <<"escalation", time + 1>>[1] = "escalation"
    BY <1>1 DEF L!Job
  <1>12. jobs' \subseteq L!Job /\ \A job \in jobs' \ jobs : job[1] = "escalation"
    BY <1>1, <1>10, <1>11
  <1> QED BY <1>2, <1>6, <1>7, <1>8, <1>9, <1>10, <1>12

LEMMA SeizeFacts ==
  ASSUME LateTypes, NEW w \in Workers, L!Seize(w)
  PROVE  /\ worker[w].step = "seize"
         /\ UNCHANGED <<rental, time, conflict, rows, jobs>>
         /\ events \subseteq events' /\ events' \subseteq LateFeatures
         /\ hold' \in [late : Nat, damage : Nat, released : Nat, remaining : Nat]
         /\ hold'.late \in {hold.late,
              hold.late + (IF Cap > worker[w].fee THEN Cap - worker[w].fee ELSE 0)}
         /\ hold'.late >= hold.late
         /\ hold'.remaining <= hold.remaining
         /\ worker' \in [Workers -> LateWorker]
         /\ worker'[w].step = "mark" /\ worker'[w].fee = worker[w].fee
         /\ worker'[w].job = worker[w].job
         /\ \A v \in Workers : v # w => worker'[v] = worker[v]
  <1> DEFINE amount == IF Cap > worker[w].fee THEN Cap - worker[w].fee ELSE 0
  <1>1. /\ worker \in [Workers -> LateWorker] /\ worker[w] \in LateWorker
        /\ hold \in [late : Nat, damage : Nat, released : Nat, remaining : Nat]
    BY DEF LateTypes
  <1>2. amount \in Nat
    BY <1>1, MoneyAssumption DEF LateWorker, L!LateAssumption
  <1>3. /\ worker[w].step = "seize" /\ L!Goto(w, "mark")
        /\ UNCHANGED <<rental, time, conflict, rows, jobs>>
        /\ \/ hold' = hold
           \/ /\ amount <= hold.remaining
              /\ hold' = [late |-> hold.late + amount, damage |-> hold.damage + 0,
                          released |-> hold.released, remaining |-> hold.remaining - amount]
    BY DEF L!Seize, L!Is, L!H!AfterCapture
  <1> HIDE DEF amount
  <1>4. /\ hold' \in [late : Nat, damage : Nat, released : Nat, remaining : Nat]
        /\ hold'.late \in {hold.late, hold.late + amount}
        /\ hold'.late >= hold.late /\ hold'.remaining <= hold.remaining
    BY <1>1, <1>2, <1>3
  <1>5. "mark" \in LateSteps
    BY DEF LateSteps
  <1>6. events \subseteq events' /\ events' \subseteq LateFeatures
    BY DEF L!Seize, L!Event, LateTypes
  <1> QED BY <1>1, <1>3, <1>4, <1>5, <1>6, Going DEF amount

LEMMA MarkFacts ==
  ASSUME LateTypes, NEW w \in Workers, L!MarkDisputed(w)
  PROVE  /\ worker[w].step = "mark"
         /\ UNCHANGED <<time, conflict, hold, rows, jobs>>
         /\ rental' = "DISPUTED" \/ (rental' = rental /\ "logged" \in events')
         /\ events \subseteq events' /\ events' \subseteq events \cup {"logged"}
         /\ events' \subseteq LateFeatures
         /\ worker' \in [Workers -> LateWorker] /\ worker'[w] = L!Idle
         /\ \A v \in Workers : v # w => worker'[v] = worker[v]
  <1>1. worker \in [Workers -> LateWorker] /\ events \subseteq LateFeatures
    BY DEF LateTypes
  <1>2. worker[w].step = "mark" /\ L!Stop(w) /\ UNCHANGED <<time, conflict, hold, rows, jobs>>
    BY DEF L!MarkDisputed, L!Is
  <1>3. \/ rental' = "DISPUTED" /\ events' = events
        \/ "logged" \in LateFeatures /\ events' = events \cup {"logged"} /\ rental' = rental
    BY DEF L!MarkDisputed, L!Event
  <1>4. /\ rental' = "DISPUTED" \/ (rental' = rental /\ "logged" \in events')
        /\ events \subseteq events' /\ events' \subseteq events \cup {"logged"}
        /\ events' \subseteq LateFeatures
    BY <1>1, <1>3, Zenon
  <1>5. /\ worker' \in [Workers -> LateWorker] /\ worker'[w] = L!Idle
        /\ \A v \in Workers : v # w => worker'[v] = worker[v]
    BY <1>1, <1>2, Stopping
  <1> QED BY <1>2, <1>4, <1>5

\* A job that gives up is queued again.
LEMMA RetryFacts ==
  ASSUME LateTypes, NEW w \in Workers, L!Retry(w)
  PROVE  /\ UNCHANGED <<rental, time, conflict, hold, rows>>
         /\ jobs' = jobs \cup {worker[w].job} /\ jobs' \subseteq L!Job
         /\ worker' \in [Workers -> LateWorker] /\ worker'[w] = L!Idle
         /\ \A v \in Workers : v # w => worker'[v] = worker[v]
  <1>1. worker \in [Workers -> LateWorker] /\ worker[w] \in LateWorker /\ jobs \subseteq L!Job
    BY DEF LateTypes
  <1>2. worker[w].job \in L!Job
    BY <1>1 DEF LateWorker
  <1> QED BY <1>1, <1>2, Stopping DEF L!Retry

LEMMA DamageFacts ==
  ASSUME LateTypes, L!DamageCharged
  PROVE  /\ UNCHANGED <<rental, time, conflict, rows, jobs, worker>>
         /\ hold' \in [late : Nat, damage : Nat, released : Nat, remaining : Nat]
         /\ hold'.late = hold.late /\ hold'.remaining <= hold.remaining
         /\ events' = events \cup {"damage"} /\ events' \subseteq LateFeatures
  <1>1. hold \in [late : Nat, damage : Nat, released : Nat, remaining : Nat]
    BY DEF LateTypes
  <1>2. PICK amount \in 1 .. hold.remaining :
          hold' = [late |-> hold.late + 0, damage |-> hold.damage + amount,
                   released |-> hold.released, remaining |-> hold.remaining - amount]
    BY DEF L!DamageCharged, L!H!AfterCapture
  <1>3. /\ hold' \in [late : Nat, damage : Nat, released : Nat, remaining : Nat]
        /\ hold'.late = hold.late /\ hold'.remaining <= hold.remaining
    BY <1>1, <1>2
  <1> QED BY <1>3 DEF L!DamageCharged, L!Event, LateTypes

-----------------------------------------------------------------------------
(* Types.                                                                  *)

LEMMA LateTypesInit == L!Init => LateTypes
  <1> SUFFICES ASSUME L!Init PROVE LateTypes
    OBVIOUS
  <1>1. L!Idle \in LateWorker /\ L!Idle.step = "idle"
    BY IdleType DEF L!Idle
  <1>2. rows \in Seq(LateRow)
    BY DEF L!Init
  <1>3. /\ worker \in [Workers -> LateWorker]
        /\ \A w \in Workers : worker[w].step = "idle"
    BY <1>1 DEF L!Init
  <1>4. <<"check", 0>> \in L!Job
    BY MoneyAssumption DEF L!Job, L!LateAssumption
  <1>5. 0 \in 0 .. MaxTime /\ hold \in [late : Nat, damage : Nat, released : Nat, remaining : Nat]
    BY MoneyAssumption DEF L!Init, L!H!InitAlloc, L!LateAssumption
  <1> QED BY <1>2, <1>3, <1>4, <1>5 DEF LateTypes, L!Init

\* The steps that charge keep the row a worker will write among the rows.
LEMMA CheckTypes ==
  ASSUME LateTypes, NEW w \in Workers, L!Check(w)
  PROVE  LateTypes'
  <1> USE RowFacts
  <1>1. ASSUME NEW job \in jobs, L!CheckReads(w, job) PROVE LateTypes'
    BY <1>1, CheckReadsFacts, TakeFacts DEF LateTypes
  <1>2. CASE L!FindRow(w)
    <2>1. worker'[w].step = "insert" \/ worker'[w].row \in DOMAIN rows
      <3>1. PICK n : n = L!AfterFind(worker[w], Len(rows), Latest)
        OBVIOUS
      <3>2. worker[w] \in LateWorker /\ Len(rows) \in Nat /\ Latest \in Nat
        BY DEF LateTypes
      <3>3. n.row = Len(rows)
        BY ONLY Zenon, <3>1, <3>2, RowKept
      <3> QED BY <1>2, <3>1, <3>3, FindFacts
    <2> QED BY <1>2, <2>1, FindFacts DEF LateTypes
  <1>3. CASE L!InsertRow(w)
    <2>1. PICK n : n = L!AfterFind(worker[w], Len(rows) + 1, 0)
      OBVIOUS
    <2>2. n.row = Len(rows) + 1
      <3>1. worker[w] \in LateWorker /\ Len(rows) + 1 \in Nat /\ 0 \in Nat
        BY DEF LateTypes
      <3>2. L!AfterFind(worker[w], Len(rows) + 1, 0).row = Len(rows) + 1
        BY ONLY <3>1, RowKept, Zenon
      <3> QED BY <2>1, <3>2
    <2>3. DOMAIN rows' = 1 .. Len(rows) + 1 /\ DOMAIN rows \subseteq DOMAIN rows'
      BY <1>3, InsertFacts
    <2>4. worker'[w].row \in DOMAIN rows'
      BY <1>3, <2>1, <2>2, <2>3, InsertFacts
    <2>5. /\ UNCHANGED <<rental, time, conflict, hold, jobs, events>> /\ rows' \in Seq(LateRow)
          /\ worker' \in [Workers -> LateWorker]
          /\ \A v \in Workers : v # w => worker'[v] = worker[v]
      BY Zenon, <1>3, InsertFacts
    <2>6. \A v \in Workers :
            worker'[v].step \in {"capture", "record", "schedule", "decide"} =>
              worker'[v].row \in DOMAIN rows'
      BY <2>3, <2>4, <2>5 DEF LateTypes
    <2> QED BY <2>5, <2>6 DEF LateTypes
  <1>4. CASE L!Capture(w)
    BY SMTT(30), <1>4, CaptureFacts DEF LateTypes
  <1>5. CASE L!Refused(w)
    BY <1>5, RetryFacts DEF LateTypes, L!Refused, L!Idle
  <1>6. CASE L!RecordCharge(w)
    BY <1>6, RecordFacts DEF LateTypes, L!Idle
  <1>7. CASE L!Schedule(w)
    <2>1. L!Idle.step = "idle"
      BY DEF L!Idle
    <2> QED BY <1>7, <2>1, ScheduleFacts DEF LateTypes
  <1>8. CASE L!Price(w)
    BY <1>8, PriceFacts DEF LateTypes
  <1> QED BY <1>1, <1>2, <1>3, <1>4, <1>5, <1>6, <1>7, <1>8 DEF L!Check

LEMMA EscalationTypes ==
  ASSUME LateTypes, NEW w \in Workers, L!Escalation(w)
  PROVE  LateTypes'
  <1> USE RowFacts
  <1>1. ASSUME NEW job \in jobs, L!EscalationReads(w, job) PROVE LateTypes'
    BY <1>1, EscalationReadsFacts, TakeFacts DEF LateTypes
  <1>2. ASSUME NEW level \in L!EscalationLevel, L!Decide(w, level) PROVE LateTypes'
    BY <1>2, DecideFacts DEF LateTypes, L!Idle
  <1>3. CASE L!Seize(w)
    BY <1>3, SeizeFacts DEF LateTypes
  <1>4. CASE L!MarkDisputed(w)
    BY <1>4, MarkFacts DEF LateTypes, L!Idle
  <1> QED BY <1>1, <1>2, <1>3, <1>4 DEF L!Escalation

LEMMA LateTypesStep == ASSUME LateTypes, [L!Next]_(L!vars) PROVE LateTypes'
  <1>0. MaxTime \in Nat
    BY MoneyAssumption DEF L!LateAssumption
  <1>1. CASE L!Tick \/ L!ItemReturned \/ L!ConflictChanges
    <2>1. UNCHANGED <<hold, rows, jobs, worker>>
      BY <1>1 DEF L!Tick, L!ItemReturned, L!ConflictChanges
    <2>2. rental' \in {"ACTIVE", "COMPLETED", "DISPUTED"}
      BY <1>1 DEF L!Tick, L!ItemReturned, L!ConflictChanges, LateTypes
    <2>3. time' \in 0 .. MaxTime
      BY <1>0, <1>1 DEF L!Tick, L!ItemReturned, L!ConflictChanges, LateTypes
    <2>4. conflict' \in BOOLEAN
      BY <1>1 DEF L!Tick, L!ItemReturned, L!ConflictChanges, LateTypes
    <2>5. events' \subseteq LateFeatures
      BY <1>1 DEF L!Tick, L!ItemReturned, L!ConflictChanges, L!Event, LateTypes
    <2> QED BY <2>1, <2>2, <2>3, <2>4, <2>5 DEF LateTypes
  <1>2. CASE L!DamageCharged
    BY <1>2, DamageFacts DEF LateTypes
  <1>3. ASSUME NEW w \in Workers, L!Crash(w) PROVE LateTypes'
    BY <1>3, RetryFacts DEF L!Crash, L!Event, LateTypes, L!Idle
  <1>4. CASE UNCHANGED L!vars
    BY <1>4 DEF L!vars, LateTypes
  <1> QED BY <1>1, <1>2, <1>3, <1>4, CheckTypes, EscalationTypes DEF L!Next

-----------------------------------------------------------------------------
(* A recorded fee was captured.                                            *)

\* What a worker is about to record was captured too.
CapturedInv ==
  /\ \A i \in DOMAIN rows : rows[i].fee <= hold.late
  /\ \A w \in Workers : worker[w].fee <= hold.late

\* A found or a new row makes a worker remember no more than that row shows.
LEMMA FoundFee ==
  ASSUME NEW o \in LateWorker, NEW row \in Nat, NEW previous \in Nat
  PROVE  L!AfterFind(o, row, previous).fee \in 0 .. previous
  <1>1. L!AfterFind(o, row, previous).fee = IF o.total > previous THEN previous ELSE o.total
    BY AfterFindFacts
  <1> QED BY <1>1 DEF LateWorker

LEMMA CapturedCheck ==
  ASSUME LateTypes, CapturedInv, NEW w \in Workers, L!Check(w)
  PROVE  CapturedInv'
  <1> USE DEF CapturedInv
  <1>0. /\ hold.late \in Nat /\ worker[w] \in LateWorker /\ worker[w].fee \in Nat
        /\ worker[w].amount \in Nat /\ L!Idle.fee = 0
    BY DEF LateTypes, LateWorker, L!Idle
  <1>1. ASSUME NEW job \in jobs, L!CheckReads(w, job) PROVE CapturedInv'
    BY <1>0, <1>1, CheckReadsFacts
  <1>2. CASE L!FindRow(w)
    <2>1. Latest \in Nat /\ Latest <= hold.late /\ Len(rows) \in Nat
      BY <1>0, RowFacts DEF Latest
    <2>2. L!AfterFind(worker[w], Len(rows), Latest).fee <= hold.late
      BY <1>0, <2>1, FoundFee
    <2>3. worker'[w].fee <= hold.late
      BY <1>2, <2>2, FindFacts
    <2> QED BY <1>2, <2>3, FindFacts
  <1>3. CASE L!InsertRow(w)
    <2>1. Len(rows) + 1 \in Nat
      BY RowFacts
    <2>2. L!AfterFind(worker[w], Len(rows) + 1, 0).fee \in 0 .. 0
      BY <1>0, <2>1, FoundFee
    <2>3. worker'[w].fee <= hold.late
      BY <1>0, <1>3, <2>2, InsertFacts
    <2>4. \A i \in DOMAIN rows' : i \in DOMAIN rows \/ i = Len(rows')
      BY <1>3, InsertFacts, RowFacts
    <2>5. \A i \in DOMAIN rows' : rows'[i].fee <= hold.late
      BY <1>0, <1>3, <2>4, InsertFacts
    <2> QED BY <1>3, <2>3, <2>5, InsertFacts
  <1>4. CASE L!Capture(w)
    <2>1. hold'.late = hold.late + worker[w].amount /\ worker'[w].fee = worker[w].fee + worker[w].amount
          /\ rows' = rows /\ \A v \in Workers : v # w => worker'[v] = worker[v]
      BY <1>4, CaptureFacts
    <2>2. worker'[w].fee <= hold'.late
      BY <1>0, <2>1
    <2>3. \A v \in Workers : worker[v].fee \in Nat
      BY DEF LateTypes, LateWorker
    <2>4. \A v \in Workers : worker'[v].fee <= hold'.late
      BY <1>0, <2>1, <2>2, <2>3
    <2>5. \A i \in DOMAIN rows' : rows'[i].fee <= hold'.late
      BY <1>0, <2>1, RowFacts
    <2> QED BY <2>4, <2>5
  <1>5. CASE L!Refused(w)
    BY <1>0, <1>5, RetryFacts DEF L!Refused
  <1>6. CASE L!RecordCharge(w)
    BY SMTT(30), <1>0, <1>6, RecordFacts
  <1>7. CASE L!Schedule(w)
    <2>1. /\ rows' = rows /\ hold' = hold /\ worker'[w] = L!Idle
          /\ \A v \in Workers : v # w => worker'[v] = worker[v]
      BY <1>7, ScheduleFacts
    <2> QED BY <1>0, <2>1
  <1>8. CASE L!Price(w)
    BY <1>8, PriceFacts
  <1> QED BY <1>1, <1>2, <1>3, <1>4, <1>5, <1>6, <1>7, <1>8 DEF L!Check

LEMMA CapturedEscalation ==
  ASSUME LateTypes, CapturedInv, NEW w \in Workers, L!Escalation(w)
  PROVE  CapturedInv'
  <1> USE DEF CapturedInv
  <1>0. hold.late \in Nat /\ L!Idle.fee = 0
    BY DEF LateTypes, L!Idle
  <1>1. ASSUME NEW job \in jobs, L!EscalationReads(w, job) PROVE CapturedInv'
    <2>1. rows # <<>> => Latest <= hold.late
      BY RowFacts DEF Latest
    <2> QED BY <1>1, <2>1, EscalationReadsFacts
  <1>2. ASSUME NEW level \in L!EscalationLevel, L!Decide(w, level) PROVE CapturedInv'
    BY <1>0, <1>2, DecideFacts
  <1>3. CASE L!Seize(w)
    <2>1. hold'.late \in Nat /\ hold'.late >= hold.late
      BY <1>3, SeizeFacts
    <2>2. \A v \in Workers : worker'[v].fee = worker[v].fee
      BY <1>3, SeizeFacts
    <2>3. \A v \in Workers : worker[v].fee \in Nat
      BY DEF LateTypes, LateWorker
    <2>4. rows' = rows
      BY <1>3, SeizeFacts
    <2> QED BY <1>0, <2>1, <2>2, <2>3, <2>4, RowFacts
  <1>4. CASE L!MarkDisputed(w)
    BY <1>0, <1>4, MarkFacts
  <1> QED BY <1>1, <1>2, <1>3, <1>4 DEF L!Escalation

LEMMA CapturedStep ==
  ASSUME LateTypes, CapturedInv, [L!Next]_(L!vars)
  PROVE  CapturedInv'
  <1>1. CASE L!Tick \/ L!ItemReturned \/ L!ConflictChanges \/ UNCHANGED L!vars
    BY <1>1 DEF L!Tick, L!ItemReturned, L!ConflictChanges, L!vars, CapturedInv
  <1>2. CASE L!DamageCharged
    BY <1>2, DamageFacts DEF CapturedInv
  <1>3. ASSUME NEW w \in Workers, L!Crash(w) PROVE CapturedInv'
    <2>1. hold.late \in Nat /\ L!Idle.fee = 0
      BY DEF LateTypes, L!Idle
    <2> QED BY <1>3, <2>1, RetryFacts DEF L!Crash, CapturedInv
  <1> QED BY <1>1, <1>2, <1>3, CapturedCheck, CapturedEscalation DEF L!Next

LEMMA CapturedInit == L!Init => CapturedInv
  BY DEF L!Init, L!H!InitAlloc, L!Idle, CapturedInv

\* A step of MC_Money is one of LateReturn, or leaves its variables alone.
LEMMA StepOfLateReturn == [MoneyNext]_money => [L!Next]_(L!vars)
  BY DEF MoneyNext, money, L!vars, Funding, BeingLate, Referring, late

\* However the jobs overlap, die and are repeated, no late-return row shows a fee that was not
\* captured from the hold.
THEOREM RowsShowWhatWasCaptured == MoneySpec => []FeeWasCaptured
  <1>1. MoneyInit => LateTypes /\ CapturedInv
    BY LateTypesInit, CapturedInit DEF MoneyInit
  <1>2. LateTypes /\ CapturedInv /\ [MoneyNext]_money => (LateTypes /\ CapturedInv)'
    BY StepOfLateReturn, LateTypesStep, CapturedStep
  <1>3. CapturedInv => FeeWasCaptured
    BY DEF CapturedInv, FeeWasCaptured, L!FeeWasCaptured
  <1> QED BY <1>1, <1>2, <1>3, PTL DEF MoneySpec

-----------------------------------------------------------------------------
(* The damage reserve.                                                     *)

\* What ReserveKept asks of the environment.
Orderly == events \cap {"crash", "overlap", "conflict", "logged"} = {}

\* What the worker knows about the fees at each step: until it has captured, the row and the
\* hold agree; then it will record what the hold has; the rest of the cap is taken by the
\* fee that was captured.
ReserveWorker(w) ==
  LET o == worker[w] IN
  /\ o.step = "price" => Latest <= L!LateFee(o.now) /\ o.now <= time
  /\ o.step \in {"price", "find", "insert", "capture"} => hold.late = Latest
  /\ o.step \in {"find", "insert", "capture"} =>
       Latest <= o.total /\ o.total <= Cap /\ o.total <= L!LateFee(time)
  /\ o.step = "insert" => rows = <<>>
  /\ o.step = "capture" => o.fee = Latest /\ o.fee + o.amount <= o.total
  /\ o.step \in {"capture", "record"} => o.row = Len(rows)
  /\ o.step = "record" => o.fee = hold.late /\ o.fee <= L!LateFee(time)
  /\ o.step \in {"decide", "seize"} => o.fee = hold.late

\* While charging can go on and no capture is unrecorded, the row shows what was captured.
ReserveRow ==
  rental = "ACTIVE" /\ (\A w \in Workers : worker[w].step \notin {"record", "mark"})
    => hold.late = Latest /\ Latest <= L!LateFee(time)

ReserveState ==
  /\ conflict = FALSE
  /\ hold.late <= Cap
  /\ \A v, w \in Workers : worker[v].step # "idle" /\ worker[w].step # "idle" => v = w
  /\ \A w \in Workers : ReserveWorker(w)
  /\ ReserveRow

ReserveInv == Orderly => ReserveState

LEMMA OrderlySteps ==
  ASSUME Orderly', events \subseteq events'
  PROVE  Orderly /\ "overlap" \notin events' /\ "logged" \notin events'
  BY Zenon DEF Orderly

\* In a new row a worker finds that nothing was charged.
LEMMA FoundInNew ==
  \A o \in LateWorker, row \in Nat :
    /\ L!AfterFind(o, row, 0).step \in {"capture", "record"}
    /\ L!AfterFind(o, row, 0).row = row /\ L!AfterFind(o, row, 0).total = o.total
    /\ L!AfterFind(o, row, 0).fee = IF o.total > 0 THEN 0 ELSE o.total
    /\ L!AfterFind(o, row, 0).step = "capture" =>
         /\ L!AfterFind(o, row, 0).fee = 0
         /\ 0 + L!AfterFind(o, row, 0).amount <= o.total
  <1>1. 0 \in Nat
    OBVIOUS
  <1> SUFFICES ASSUME NEW o \in LateWorker, NEW row \in Nat, NEW n, n = L!AfterFind(o, row, 0)
               PROVE  /\ n.step \in {"capture", "record"} /\ n.row = row /\ n.total = o.total
                      /\ n.fee = IF o.total > 0 THEN 0 ELSE o.total
                      /\ n.step = "capture" => n.fee = 0 /\ 0 + n.amount <= o.total
    OBVIOUS
  <1> QED BY <1>1, AfterFindFacts

\* Only one worker has anything to answer for.
LEMMA ReserveAlone ==
  ASSUME NEW w \in Workers, \A v \in Workers : v # w => worker'[v].step = "idle",
         ReserveWorker(w)', conflict' = FALSE, hold'.late <= Cap, ReserveRow'
  PROVE  ReserveState'
  BY DEF ReserveState, ReserveWorker

\* What every step of a worker starts from.
LEMMA ReserveNumbers ==
  ASSUME LateTypes, ReserveState, NEW w \in Workers
  PROVE  /\ worker[w] \in LateWorker /\ hold.late \in Nat /\ hold.remaining \in Nat
         /\ Cap \in Nat /\ hold.late <= Cap
         /\ time \in Nat /\ L!LateFee(time) \in Nat /\ L!LateFee(time) <= Cap
         /\ Latest \in Nat /\ Len(rows) \in Nat
         /\ worker[w].fee \in Nat /\ worker[w].amount \in Nat /\ worker[w].total \in Nat
         /\ L!Idle.step = "idle"
  <1>1. time \in Nat /\ conflict \in BOOLEAN /\ Cap \in Nat /\ hold.late \in Nat /\ hold.remaining \in Nat
    BY MoneyAssumption DEF LateTypes, L!LateAssumption
  <1>2. L!LateFee(time) \in 0 .. Cap
    BY <1>1, LateFeeBounds
  <1>3. worker[w] \in LateWorker
    BY DEF LateTypes
  <1> QED BY <1>1, <1>2, <1>3, RowFacts DEF ReserveState, LateWorker, L!Idle

LEMMA ReserveCheck ==
  ASSUME LateTypes, ReserveState, NEW w \in Workers, L!Check(w), Orderly', events \subseteq events'
  PROVE  ReserveState'
  <1>0. ReserveWorker(w) /\ ReserveRow /\ conflict = FALSE
    BY DEF ReserveState
  <1>a. worker[w].step # "idle" => \A v \in Workers : v # w => worker[v].step = "idle"
    BY DEF ReserveState
  <1>b. "overlap" \notin events' /\ "logged" \notin events'
    BY OrderlySteps
  <1> USE ReserveNumbers
  <1>1. ASSUME NEW job \in jobs, L!CheckReads(w, job) PROVE ReserveState'
    <2>1. /\ \A v \in Workers : worker[v].step = "idle"
          /\ UNCHANGED <<rental, time, conflict, hold, rows>>
      BY <1>b, <1>1, CheckReadsFacts, TakeFacts
    <2>2. UNCHANGED Latest /\ UNCHANGED L!LateFee(time)
      BY <2>1 DEF Latest, L!LateFee, L!FeeAt
    <2>3. CASE worker' = worker
      BY <1>0, <2>1, <2>2, <2>3, ReserveAlone DEF ReserveWorker, ReserveRow
    <2>4. CASE worker' # worker
      <3>1. /\ rental = "ACTIVE" /\ worker'[w].step = "price"
            /\ worker'[w].now = time
            /\ \A v \in Workers : v # w => worker'[v] = worker[v]
        BY <1>1, <2>4, CheckReadsFacts
      <3>2. hold.late = Latest /\ Latest <= L!LateFee(time)
        BY <1>0, <2>1, <3>1 DEF ReserveRow
      <3>3. ReserveWorker(w)'
        BY <2>1, <2>2, <3>1, <3>2 DEF ReserveWorker
      <3> QED BY <1>0, <2>1, <2>2, <3>1, <3>2, <3>3, ReserveAlone DEF ReserveRow
    <2> QED BY <2>3, <2>4
  <1>2. CASE L!FindRow(w)
    <2>1. /\ UNCHANGED <<rental, time, conflict, hold, rows>> /\ worker[w].step = "find"
          /\ \A v \in Workers : v # w => worker'[v].step = "idle"
      BY <1>2, <1>a, FindFacts
    <2>2. UNCHANGED Latest /\ UNCHANGED L!LateFee(time) /\ UNCHANGED Len(rows)
      BY <2>1 DEF Latest, L!LateFee, L!FeeAt
    <2>3. /\ hold.late = Latest /\ Latest <= worker[w].total
          /\ worker[w].total <= L!LateFee(time) /\ worker[w].total <= Cap
      BY <1>0, <2>1 DEF ReserveWorker
    <2>4. CASE rows = <<>>
      <3>1. worker'[w].step = "insert" /\ worker'[w].total = worker[w].total
        BY <1>2, <2>4, FindFacts
      <3>2. ReserveWorker(w)'
        BY <2>1, <2>2, <2>3, <2>4, <3>1 DEF ReserveWorker
      <3>3. ReserveRow'
        BY <2>1, <2>2, <2>3 DEF ReserveRow
      <3> QED BY <1>0, <2>1, <3>2, <3>3, ReserveAlone
    <2>5. CASE rows # <<>>
      <3> DEFINE n == L!AfterFind(worker[w], Len(rows), Latest)
      <3>1. worker'[w] = n
        BY <1>2, <2>5, FindFacts
      <3>2. /\ n.step \in {"capture", "record"} /\ n.row = Len(rows) /\ n.total = worker[w].total
            /\ n.fee = IF worker[w].total > Latest THEN Latest ELSE worker[w].total
            /\ n.step = "capture" => n.fee = Latest /\ Latest + n.amount <= worker[w].total
        <4>1. worker[w] \in LateWorker
          OBVIOUS
        <4>2. PICK k \in Nat, m \in Nat : k = Len(rows) /\ m = Latest
          OBVIOUS
        <4>3. PICK o \in LateWorker : o = worker[w]
          BY <4>1
        <4> DEFINE q == L!AfterFind(o, k, m)
        <4>4. /\ q.step \in {"capture", "record"} /\ q.row = k /\ q.total = o.total
              /\ q.fee = IF o.total > m THEN m ELSE o.total
              /\ q.step = "capture" => q.fee = m /\ m + q.amount <= o.total
          BY ONLY AfterFindFacts
        <4>5. q = n
          BY <4>2, <4>3
        <4> HIDE DEF q, n
        <4> QED BY ONLY <4>2, <4>3, <4>4, <4>5
      <3> HIDE DEF n
      <3>3. n.fee = Latest
        BY <2>3, <3>2
      <3>4. ReserveWorker(w)'
        BY <2>1, <2>2, <2>3, <3>1, <3>2, <3>3 DEF ReserveWorker
      <3>5. ReserveRow'
        BY <2>1, <2>2, <2>3 DEF ReserveRow
      <3> QED BY <1>0, <2>1, <3>4, <3>5, ReserveAlone
    <2> QED BY <2>4, <2>5
  <1>3. CASE L!InsertRow(w)
    <2>1. /\ UNCHANGED <<rental, time, conflict, hold>> /\ worker[w].step = "insert"
          /\ \A v \in Workers : v # w => worker'[v].step = "idle"
          /\ Latest' = 0 /\ Len(rows') = Len(rows) + 1
      BY <1>3, <1>a, InsertFacts
    <2>2. UNCHANGED L!LateFee(time)
      BY <2>1 DEF L!LateFee, L!FeeAt
    <2>3. /\ hold.late = 0 /\ Latest = 0 /\ Latest <= worker[w].total
          /\ worker[w].total <= L!LateFee(time) /\ worker[w].total <= Cap
      BY <1>0, <2>1 DEF ReserveWorker, Latest
    <2> DEFINE n == L!AfterFind(worker[w], Len(rows) + 1, 0)
    <2>4. worker'[w] = n
      BY <1>3, InsertFacts
    <2>5. /\ n.step \in {"capture", "record"} /\ n.row = Len(rows) + 1 /\ n.total = worker[w].total
          /\ n.fee = IF worker[w].total > 0 THEN 0 ELSE worker[w].total
          /\ n.step = "capture" => n.fee = 0 /\ 0 + n.amount <= worker[w].total
      <3>1. worker[w] \in LateWorker /\ Len(rows) + 1 \in Nat
        OBVIOUS
      <3> QED BY ONLY <3>1, FoundInNew, Zenon
    <2> HIDE DEF n
    <2>6. n.fee = 0
      BY <2>3, <2>5
    <2>7. ReserveWorker(w)'
      BY <2>1, <2>2, <2>3, <2>4, <2>5, <2>6 DEF ReserveWorker
    <2>8. ReserveRow'
      BY <2>1, <2>2, <2>3 DEF ReserveRow
    <2> QED BY <1>0, <2>1, <2>7, <2>8, ReserveAlone
  <1>4. CASE L!Capture(w)
    <2>1. /\ UNCHANGED <<rental, time, conflict, rows>> /\ worker[w].step = "capture"
          /\ \A v \in Workers : v # w => worker'[v].step = "idle"
          /\ hold'.late = hold.late + worker[w].amount
          /\ worker'[w].step = "record" /\ worker'[w].fee = worker[w].fee + worker[w].amount
          /\ worker'[w].row = worker[w].row
      BY SMTT(30), <1>4, <1>a, CaptureFacts
    <2>2. UNCHANGED L!LateFee(time) /\ UNCHANGED Len(rows)
      BY <2>1 DEF L!LateFee, L!FeeAt
    <2>3. /\ hold.late = worker[w].fee /\ worker[w].fee + worker[w].amount <= worker[w].total
          /\ worker[w].total <= L!LateFee(time) /\ worker[w].total <= Cap
          /\ worker[w].row = Len(rows)
      BY <1>0, <2>1 DEF ReserveWorker
    <2>4. ReserveWorker(w)' /\ hold'.late <= Cap
      BY <2>1, <2>2, <2>3 DEF ReserveWorker
    <2>5. ReserveRow'
      BY <2>1 DEF ReserveRow
    <2> QED BY <1>0, <2>1, <2>4, <2>5, ReserveAlone
  <1>5. CASE L!Refused(w)
    <2>1. /\ UNCHANGED <<rental, time, conflict, hold, rows>> /\ worker[w].step = "capture"
          /\ \A v \in Workers : v # w => worker'[v].step = "idle"
          /\ worker'[w].step = "idle"
      BY <1>5, <1>a, RetryFacts DEF L!Refused, L!Is
    <2>2. UNCHANGED Latest /\ UNCHANGED L!LateFee(time)
      BY <2>1 DEF Latest, L!LateFee, L!FeeAt
    <2>3. hold.late = Latest /\ Latest <= L!LateFee(time)
      BY <1>0, <2>1 DEF ReserveWorker
    <2>4. ReserveWorker(w)' /\ ReserveRow'
      BY <2>1, <2>2, <2>3 DEF ReserveWorker, ReserveRow
    <2> QED BY <1>0, <2>1, <2>4, ReserveAlone
  <1>6. CASE L!RecordCharge(w)
    <2>1. worker[w].step = "record"
      BY <1>6, RecordFacts
    <2>2. /\ worker[w].fee = hold.late /\ worker[w].fee <= L!LateFee(time)
          /\ worker[w].row = Len(rows)
      BY <1>0, <2>1 DEF ReserveWorker
    <2>3. /\ UNCHANGED <<rental, time, conflict, hold>> /\ Latest' = worker[w].fee
          /\ \A v \in Workers : v # w => worker'[v].step = "idle"
          /\ worker'[w].step \in {"schedule", "idle"}
      BY <1>6, <1>a, <2>1, <2>2, RecordFacts
    <2>4. UNCHANGED L!LateFee(time)
      BY <2>3 DEF L!LateFee, L!FeeAt
    <2>5. ReserveWorker(w)' /\ ReserveRow'
      BY <2>2, <2>3, <2>4 DEF ReserveWorker, ReserveRow
    <2> QED BY <1>0, <2>3, <2>5, ReserveAlone
  <1>7. CASE L!Schedule(w)
    <2>1. /\ UNCHANGED <<rental, time, conflict, hold, rows>> /\ worker[w].step = "schedule"
          /\ \A v \in Workers : v # w => worker'[v].step = "idle"
          /\ worker'[w].step = "idle"
      BY <1>7, <1>a, ScheduleFacts
    <2>2. UNCHANGED Latest /\ UNCHANGED L!LateFee(time)
      BY <2>1 DEF Latest, L!LateFee, L!FeeAt
    <2>3. rental = "ACTIVE" => hold.late = Latest /\ Latest <= L!LateFee(time)
      BY <1>0, <1>a, <2>1 DEF ReserveRow
    <2>4. ReserveWorker(w)' /\ ReserveRow'
      BY <2>1, <2>2, <2>3 DEF ReserveWorker, ReserveRow
    <2> QED BY <1>0, <2>1, <2>4, ReserveAlone
  <1>8. CASE L!Price(w)
    <2>1. /\ UNCHANGED <<rental, time, conflict, hold, rows>> /\ worker[w].step = "price"
          /\ \A v \in Workers : v # w => worker'[v].step = "idle"
          /\ worker'[w].step = "find" /\ worker'[w].total = L!LateFee(worker[w].now)
      BY <1>8, <1>a, <1>b, PriceFacts
    <2>2. UNCHANGED Latest /\ UNCHANGED L!LateFee(time)
      BY <2>1 DEF Latest, L!LateFee, L!FeeAt
    <2>3. /\ hold.late = Latest /\ Latest <= L!LateFee(worker[w].now)
          /\ worker[w].now <= time /\ worker[w].now \in Nat
      BY <1>0, <2>1 DEF ReserveWorker, LateWorker
    <2>4. L!LateFee(worker[w].now) \in 0 .. Cap /\ L!LateFee(worker[w].now) <= L!LateFee(time)
      BY <1>0, <2>3, LateFeeBounds, LateFeeGrows
    <2>5. ReserveWorker(w)'
      BY <2>1, <2>2, <2>3, <2>4 DEF ReserveWorker
    <2>6. ReserveRow'
      BY <2>1, <2>2, <2>3, <2>4 DEF ReserveRow
    <2> QED BY <1>0, <2>1, <2>5, <2>6, ReserveAlone
  <1> QED BY <1>1, <1>2, <1>3, <1>4, <1>5, <1>6, <1>7, <1>8 DEF L!Check

LEMMA ReserveEscalation ==
  ASSUME LateTypes, ReserveState, NEW w \in Workers, L!Escalation(w), Orderly',
         events \subseteq events'
  PROVE  ReserveState'
  <1>0. ReserveWorker(w) /\ ReserveRow /\ conflict = FALSE
    BY DEF ReserveState
  <1>a. worker[w].step # "idle" => \A v \in Workers : v # w => worker[v].step = "idle"
    BY DEF ReserveState
  <1>b. "overlap" \notin events' /\ "logged" \notin events'
    BY OrderlySteps
  <1> USE ReserveNumbers
  <1>1. ASSUME NEW job \in jobs, L!EscalationReads(w, job) PROVE ReserveState'
    <2>1. /\ \A v \in Workers : worker[v].step = "idle"
          /\ UNCHANGED <<rental, time, conflict, hold, rows>>
      BY <1>b, <1>1, EscalationReadsFacts, TakeFacts
    <2>2. UNCHANGED Latest /\ UNCHANGED L!LateFee(time)
      BY <2>1 DEF Latest, L!LateFee, L!FeeAt
    <2>3. CASE worker' = worker
      BY <1>0, <2>1, <2>2, <2>3, ReserveAlone DEF ReserveWorker, ReserveRow
    <2>4. CASE worker' # worker
      <3>1. /\ rental = "ACTIVE" /\ worker'[w].step = "decide" /\ worker'[w].fee = Latest
            /\ \A v \in Workers : v # w => worker'[v] = worker[v]
        BY <1>1, <2>4, EscalationReadsFacts
      <3>2. hold.late = Latest /\ Latest <= L!LateFee(time)
        BY <1>0, <2>1, <3>1 DEF ReserveRow
      <3>3. ReserveWorker(w)' /\ ReserveRow'
        BY <2>1, <2>2, <3>1, <3>2 DEF ReserveWorker, ReserveRow
      <3> QED BY <1>0, <2>1, <3>1, <3>3, ReserveAlone
    <2> QED BY <2>3, <2>4
  <1>2. ASSUME NEW level \in L!EscalationLevel, L!Decide(w, level) PROVE ReserveState'
    <2>1. /\ UNCHANGED <<rental, time, conflict, hold>> /\ worker[w].step = "decide"
          /\ \A v \in Workers : v # w => worker'[v].step = "idle"
          /\ Latest' = Latest
          /\ \/ worker'[w].step = "idle"
             \/ worker'[w].step = "seize" /\ worker'[w].fee = worker[w].fee
      BY <1>2, <1>a, DecideFacts
    <2>2. UNCHANGED L!LateFee(time)
      BY <2>1 DEF L!LateFee, L!FeeAt
    <2>3. /\ worker[w].fee = hold.late
          /\ rental = "ACTIVE" => hold.late = Latest /\ Latest <= L!LateFee(time)
      BY <1>0, <1>a, <2>1 DEF ReserveWorker, ReserveRow
    <2>4. ReserveWorker(w)' /\ ReserveRow'
      BY <2>1, <2>2, <2>3 DEF ReserveWorker, ReserveRow
    <2> QED BY <1>0, <2>1, <2>4, ReserveAlone
  <1>3. CASE L!Seize(w)
    <2>1. /\ UNCHANGED <<rental, time, conflict, rows>> /\ worker[w].step = "seize"
          /\ \A v \in Workers : v # w => worker'[v].step = "idle"
          /\ worker'[w].step = "mark"
          /\ hold'.late \in {hold.late,
               hold.late + (IF Cap > worker[w].fee THEN Cap - worker[w].fee ELSE 0)}
      BY <1>3, <1>a, SeizeFacts
    <2>2. worker[w].fee = hold.late
      BY <1>0, <2>1 DEF ReserveWorker
    <2>3. hold'.late <= Cap
      BY <2>1, <2>2
    <2>4. ReserveWorker(w)' /\ ReserveRow'
      BY <2>1 DEF ReserveWorker, ReserveRow
    <2> QED BY <1>0, <2>1, <2>3, <2>4, ReserveAlone
  <1>4. CASE L!MarkDisputed(w)
    <2>1. /\ UNCHANGED <<time, conflict, hold, rows>> /\ worker[w].step = "mark"
          /\ \A v \in Workers : v # w => worker'[v].step = "idle"
          /\ worker'[w].step = "idle" /\ rental' = "DISPUTED"
      BY <1>4, <1>a, <1>b, MarkFacts
    <2>2. ReserveWorker(w)' /\ ReserveRow'
      BY <2>1 DEF ReserveWorker, ReserveRow
    <2> QED BY <1>0, <2>1, <2>2, ReserveAlone
  <1> QED BY <1>1, <1>2, <1>3, <1>4 DEF L!Escalation

\* The environment moves no late fee; time only raises what a late fee may be.
LEMMA ReserveEnvironment ==
  ASSUME LateTypes, ReserveState, Orderly',
         L!Tick \/ L!ItemReturned \/ L!ConflictChanges \/ L!DamageCharged \/ UNCHANGED L!vars
  PROVE  ReserveState'
  <1>1. ~ L!ConflictChanges
    BY Zenon DEF L!ConflictChanges, L!Event, Orderly
  <1>2. /\ UNCHANGED <<conflict, rows, worker>> /\ hold'.late = hold.late
        /\ time' \in {time, time + 1} /\ rental' \in {rental, "COMPLETED"}
    BY <1>1, DamageFacts DEF L!Tick, L!ItemReturned, L!vars
  <1>3. Latest' = Latest /\ Len(rows)' = Len(rows)
    BY <1>2 DEF Latest
  <1>4. /\ time \in Nat /\ conflict = FALSE /\ L!LateFee(time) \in Nat /\ Latest \in Nat
        /\ hold.late \in Nat
    <2>1. time \in Nat /\ conflict = FALSE /\ hold.late \in Nat
      BY DEF LateTypes, ReserveState
    <2>2. L!LateFee(time) \in Nat
      BY <2>1, LateFeeNat
    <2> QED BY <2>1, <2>2, RowFacts
  <1>5. L!LateFee(time)' \in Nat /\ L!LateFee(time) <= L!LateFee(time)'
    <2>1. L!LateFee(time)' = L!LateFee(time')
      BY <1>2 DEF L!LateFee, L!FeeAt
    <2>2. time' \in Nat /\ time <= time'
      BY <1>2, <1>4
    <2>3. L!LateFee(time') \in Nat /\ L!LateFee(time) <= L!LateFee(time')
      BY <1>4, <2>2, LateFeeGrows, LateFeeNat
    <2> QED BY <2>1, <2>3
  <1>6. \A w \in Workers : worker[w].total \in Nat /\ worker[w].fee \in Nat
    BY DEF LateTypes, LateWorker
  <1>7. \A w \in Workers : ReserveWorker(w)'
    <2> SUFFICES ASSUME NEW w \in Workers PROVE ReserveWorker(w)'
      OBVIOUS
    <2>1. ReserveWorker(w) /\ worker'[w] = worker[w]
      BY <1>2 DEF ReserveState
    <2>2. worker[w].step = "price" => L!LateFee(worker[w].now)' = L!LateFee(worker[w].now)
                                      /\ worker[w].now \in Nat
      BY <1>2, <2>1 DEF L!LateFee, L!FeeAt, LateTypes, LateWorker
    <2> QED BY <1>2, <1>3, <1>4, <1>5, <1>6, <2>1, <2>2 DEF ReserveWorker
  <1>8. ReserveRow'
    BY <1>2, <1>3, <1>4, <1>5 DEF ReserveState, ReserveRow
  <1> QED BY <1>2, <1>7, <1>8 DEF ReserveState

LEMMA ReserveStep ==
  ASSUME LateTypes, ReserveInv, [L!Next]_(L!vars)
  PROVE  ReserveInv'
  <1> SUFFICES ASSUME Orderly' PROVE ReserveState'
    BY DEF ReserveInv
  <1>1. ASSUME NEW w \in Workers, L!Check(w) PROVE ReserveState'
    <2>1. events \subseteq events'
      BY <1>1, CheckReadsFacts, TakeFacts, PriceFacts, FindFacts, InsertFacts, CaptureFacts,
         RecordFacts, ScheduleFacts DEF L!Check, L!Refused
    <2> QED BY <1>1, <2>1, OrderlySteps, ReserveCheck DEF ReserveInv
  <1>2. ASSUME NEW w \in Workers, L!Escalation(w) PROVE ReserveState'
    <2>1. events \subseteq events'
      BY <1>2, EscalationReadsFacts, TakeFacts, DecideFacts, SeizeFacts, MarkFacts DEF L!Escalation
    <2> QED BY <1>2, <2>1, OrderlySteps, ReserveEscalation DEF ReserveInv
  <1>3. ASSUME NEW w \in Workers, L!Crash(w) PROVE ReserveState'
    BY Zenon, <1>3 DEF L!Crash, L!Event, Orderly
  <1>4. CASE L!Tick \/ L!ItemReturned \/ L!ConflictChanges \/ L!DamageCharged \/ UNCHANGED L!vars
    <2>1. events \subseteq events'
      BY <1>4 DEF L!Tick, L!ItemReturned, L!ConflictChanges, L!DamageCharged, L!Event, L!vars
    <2> QED BY <1>4, <2>1, OrderlySteps, ReserveEnvironment DEF ReserveInv
  <1> QED BY <1>1, <1>2, <1>3, <1>4 DEF L!Next

LEMMA ReserveInit == L!Init => ReserveInv
  <1> SUFFICES ASSUME L!Init PROVE ReserveState
    BY DEF ReserveInv
  <1>1. /\ \A w \in Workers : worker[w].step = "idle"
        /\ rows = <<>> /\ hold.late = 0 /\ time = 0 /\ conflict = FALSE
    BY DEF L!Init, L!Idle, L!H!InitAlloc
  <1>2. Cap \in Nat /\ L!LateFee(0) = 0
    BY <1>1, LateFeeBounds, MoneyAssumption DEF L!LateAssumption
  <1> QED BY <1>1, <1>2 DEF ReserveState, ReserveWorker, ReserveRow, Latest

\* Over all checks and escalations together late fees never eat into the damage reserve, unless
\* a worker died, two jobs ran at once, a conflicting booking came or went, or a call failed
\* whose failure is only logged.
THEOREM ReserveIsKept == MoneySpec => []ReserveKept
  <1>1. MoneyInit => LateTypes /\ ReserveInv
    BY LateTypesInit, ReserveInit DEF MoneyInit
  <1>2. LateTypes /\ ReserveInv /\ [MoneyNext]_money => (LateTypes /\ ReserveInv)'
    BY StepOfLateReturn, LateTypesStep, ReserveStep
  <1>3. ReserveInv => ReserveKept
    BY DEF ReserveInv, ReserveState, Orderly, ReserveKept, L!ReserveKept
  <1> QED BY <1>1, <1>2, <1>3, PTL DEF MoneySpec

-----------------------------------------------------------------------------
(* Charging goes on.                                                       *)

\* What MonitoringGoesOn asks of the environment.
Undropped == events \cap {"queue", "conflict", "crash"} = {}

Pred(n) == IF n = 0 THEN 0 ELSE n - 1
Checking(w) == worker[w].step \in {"price", "find", "insert", "capture", "record", "schedule"}
NoCheck(queued) == \A job \in queued : job[1] # "check"

\* A running check was due, the row shows no more than the interval before it allows, and a
\* check that will charge nothing leaves nothing to charge.
MonitorWorker(w) ==
  LET o == worker[w] IN
  Checking(w) =>
    /\ o.job[1] = "check" /\ o.job[2] <= o.now /\ o.now > 0 /\ o.now <= time
    /\ o.step \notin {"price", "schedule"} => o.total = L!LateFee(o.now)
    /\ o.step \in {"price", "find", "insert", "capture"} => Latest <= L!LateFee(Pred(o.job[2]))
    /\ o.step \in {"price", "find", "insert"} => hold.remaining <= o.left
    /\ o.step = "insert" => rows = <<>>
    /\ o.step \in {"capture", "record"} => o.row = Len(rows)
    /\ o.step = "capture" => o.fee + o.amount <= o.total /\ o.amount > 0
    /\ o.step = "record" => /\ o.fee <= L!LateFee(o.now)
                            /\ o.amount = 0 => hold.remaining = 0 \/ o.fee \in {0, Cap}
    /\ o.step = "schedule" => Latest <= L!LateFee(o.now)

\* There is at most one check, queued or running.
MonitorJobs ==
  /\ \A i, j \in jobs : i[1] = "check" /\ j[1] = "check" => i = j
  /\ \A j \in jobs : j[1] = "check" => Latest <= L!LateFee(Pred(j[2]))
  /\ \A w \in Workers : Checking(w) => NoCheck(jobs)
  /\ \A v, w \in Workers : Checking(v) /\ Checking(w) => v = w

ChargingGoesOn ==
  rental = "ACTIVE" /\ hold.remaining > 0 /\ Latest # 0 /\ Latest < Cap =>
    ~ NoCheck(jobs) \/ \E w \in Workers : Checking(w)

MonitorState ==
  conflict = FALSE /\ MonitorJobs /\ (\A w \in Workers : MonitorWorker(w)) /\ ChargingGoesOn

MonitorInv == Undropped => MonitorState

LEMMA UndroppedSteps ==
  ASSUME Undropped', events \subseteq events'
  PROVE  Undropped /\ "queue" \notin events'
  BY Zenon DEF Undropped

\* A step that is none of the check's leaves it where it is.
LEMMA MonitorFrame ==
  ASSUME LateTypes, MonitorState, UNCHANGED conflict, UNCHANGED Latest, UNCHANGED Len(rows),
         rows = <<>> => rows' = <<>>,
         hold'.remaining \in Nat, hold'.remaining <= hold.remaining,
         time' \in Nat, time <= time', rental' = "ACTIVE" => rental = "ACTIVE",
         \A j : j[1] = "check" => (j \in jobs <=> j \in jobs'),
         \A w \in Workers : Checking(w) => worker'[w] = worker[w],
         \A w \in Workers : Checking(w)' <=> Checking(w)
  PROVE  MonitorState'
  <1>1. \A t : L!LateFee(t)' = L!LateFee(t)
    BY DEF L!LateFee, L!FeeAt
  <1>2. NoCheck(jobs)' <=> NoCheck(jobs)
    BY DEF NoCheck
  <1>3. \A w \in Workers : MonitorWorker(w)'
    <2> SUFFICES ASSUME NEW w \in Workers, Checking(w) PROVE MonitorWorker(w)'
      BY DEF MonitorWorker
    <2>1. worker'[w] = worker[w] /\ worker[w] \in LateWorker /\ MonitorWorker(w)
      BY DEF LateTypes, MonitorState
    <2>2. /\ hold.remaining \in Nat /\ time \in Nat /\ worker[w].left \in Nat
          /\ worker[w].now \in Nat
      BY <2>1 DEF LateTypes, LateWorker
    <2> QED BY <1>1, <2>1, <2>2 DEF MonitorWorker
  <1>4. MonitorJobs'
    <2>1. MonitorJobs
      BY DEF MonitorState
    <2> QED BY <1>1, <1>2, <2>1 DEF MonitorJobs
  <1>5. ChargingGoesOn'
    <2>1. hold.remaining \in Nat /\ ChargingGoesOn
      BY DEF LateTypes, MonitorState
    <2>2. Latest' = Latest /\ (Latest' # 0 /\ Latest' < Cap) = (Latest # 0 /\ Latest < Cap)
      OBVIOUS
    <2>3. hold'.remaining > 0 => hold.remaining > 0
      BY <2>1
    <2> QED BY <1>2, <2>1, <2>2, <2>3 DEF ChargingGoesOn
  <1> QED BY <1>3, <1>4, <1>5 DEF MonitorState

LEMMA MonitorEscalation ==
  ASSUME LateTypes, MonitorState, NEW w \in Workers, L!Escalation(w)
  PROVE  MonitorState'
  <1>0. /\ hold.remaining \in Nat /\ time \in Nat /\ L!Idle.step = "idle"
    BY DEF LateTypes, L!Idle
  <1>1. ASSUME NEW job \in jobs, L!EscalationReads(w, job) PROVE MonitorState'
    <2>1. /\ UNCHANGED <<rental, time, conflict, hold, rows>>
          /\ worker[w].step = "idle" /\ jobs' = jobs \ {job} /\ job[1] = "escalation"
          /\ \A v \in Workers : v # w => worker'[v] = worker[v]
          /\ worker'[w].step \in {"idle", "decide"}
      BY <1>1, EscalationReadsFacts, TakeFacts
    <2>2. UNCHANGED Latest
      BY <2>1 DEF Latest
    <2>3. \A j : j[1] = "check" => (j \in jobs <=> j \in jobs')
      BY <2>1
    <2>4. /\ \A v \in Workers : Checking(v) => worker'[v] = worker[v]
          /\ \A v \in Workers : Checking(v)' <=> Checking(v)
      BY <2>1 DEF Checking
    <2> QED BY <1>0, <2>1, <2>2, <2>3, <2>4, MonitorFrame
  <1>2. ASSUME NEW level \in L!EscalationLevel, L!Decide(w, level) PROVE MonitorState'
    <2>1. /\ UNCHANGED <<rental, time, conflict, hold>> /\ worker[w].step = "decide"
          /\ \A v \in Workers : v # w => worker'[v] = worker[v]
          /\ worker'[w].step \in {"idle", "seize"}
          /\ Latest' = Latest /\ Len(rows') = Len(rows)
          /\ jobs \subseteq jobs' /\ \A job \in jobs' \ jobs : job[1] = "escalation"
      BY <1>0, <1>2, DecideFacts
    <2>2. \A j : j[1] = "check" => (j \in jobs <=> j \in jobs')
      BY <2>1
    <2>3. /\ \A v \in Workers : Checking(v) => worker'[v] = worker[v]
          /\ \A v \in Workers : Checking(v)' <=> Checking(v)
      BY <2>1 DEF Checking
    <2>4. rows # <<>>
      BY <2>1, RowFacts DEF LateTypes
    <2> QED BY <1>0, <2>1, <2>2, <2>3, <2>4, MonitorFrame
  <1>3. CASE L!Seize(w)
    <2>1. /\ UNCHANGED <<rental, time, conflict, rows, jobs>> /\ worker[w].step = "seize"
          /\ \A v \in Workers : v # w => worker'[v] = worker[v]
          /\ worker'[w].step = "mark"
          /\ hold'.remaining \in Nat /\ hold'.remaining <= hold.remaining
      BY <1>3, SeizeFacts
    <2>2. UNCHANGED Latest
      BY <2>1 DEF Latest
    <2>3. /\ \A v \in Workers : Checking(v) => worker'[v] = worker[v]
          /\ \A v \in Workers : Checking(v)' <=> Checking(v)
      BY <2>1 DEF Checking
    <2> QED BY <1>0, <2>1, <2>2, <2>3, MonitorFrame
  <1>4. CASE L!MarkDisputed(w)
    <2>1. /\ UNCHANGED <<time, conflict, hold, rows, jobs>> /\ worker[w].step = "mark"
          /\ \A v \in Workers : v # w => worker'[v] = worker[v]
          /\ worker'[w].step = "idle" /\ rental' \in {rental, "DISPUTED"}
      BY <1>0, <1>4, MarkFacts
    <2>2. UNCHANGED Latest
      BY <2>1 DEF Latest
    <2>3. /\ \A v \in Workers : Checking(v) => worker'[v] = worker[v]
          /\ \A v \in Workers : Checking(v)' <=> Checking(v)
      BY <2>1 DEF Checking
    <2> QED BY <1>0, <2>1, <2>2, <2>3, MonitorFrame
  <1> QED BY <1>1, <1>2, <1>3, <1>4 DEF L!Escalation

LEMMA MonitorEnvironment ==
  ASSUME LateTypes, MonitorState, Undropped',
         L!Tick \/ L!ItemReturned \/ L!ConflictChanges \/ L!DamageCharged \/ UNCHANGED L!vars
  PROVE  MonitorState'
  <1>1. ~ L!ConflictChanges
    BY Zenon DEF L!ConflictChanges, L!Event, Undropped
  <1>2. time \in Nat /\ hold.remaining \in Nat
    BY DEF LateTypes
  <1>3. /\ UNCHANGED <<conflict, rows, worker, jobs>>
        /\ hold'.remaining \in Nat /\ hold'.remaining <= hold.remaining
        /\ time' \in {time, time + 1} /\ rental' \in {rental, "COMPLETED"}
    BY <1>1, <1>2, DamageFacts DEF L!Tick, L!ItemReturned, L!vars
  <1>4. UNCHANGED Latest /\ \A w \in Workers : Checking(w)' <=> Checking(w)
    BY <1>3 DEF Latest, Checking
  <1> QED BY <1>2, <1>3, <1>4, MonitorFrame

\* Only one worker checks, or none does.
LEMMA MonitorAlone ==
  ASSUME NEW w \in Workers, \A v \in Workers : v # w => ~ Checking(v)',
         MonitorWorker(w)', conflict' = FALSE, ChargingGoesOn',
         Checking(w)' => NoCheck(jobs'),
         \A i, j \in jobs' : i[1] = "check" /\ j[1] = "check" => i = j,
         \A j \in jobs' : j[1] = "check" => Latest' <= L!LateFee(Pred(j[2]))'
  PROVE  MonitorState'
  <1>1. \A v \in Workers : MonitorWorker(v)'
    BY DEF MonitorWorker
  <1>2. MonitorJobs'
    BY DEF MonitorJobs
  <1> QED BY <1>1, <1>2 DEF MonitorState

LEMMA MonitorNumbers ==
  ASSUME LateTypes, MonitorState, NEW w \in Workers
  PROVE  /\ worker[w] \in LateWorker /\ hold.remaining \in Nat
         /\ Cap \in Nat /\ time \in Nat /\ L!LateFee(time) \in Nat
         /\ Latest \in Nat /\ Len(rows) \in Nat
         /\ worker[w].fee \in Nat /\ worker[w].amount \in Nat /\ worker[w].total \in Nat
         /\ worker[w].left \in Nat /\ worker[w].now \in Nat /\ worker[w].job[2] \in Nat
         /\ L!Idle.step = "idle" /\ L!Idle.amount = 0
         /\ conflict = FALSE /\ MonitorWorker(w)
  <1>1. time \in Nat /\ conflict \in BOOLEAN /\ Cap \in Nat /\ hold.remaining \in Nat
    BY MoneyAssumption DEF LateTypes, L!LateAssumption
  <1>2. worker[w] \in LateWorker /\ MonitorWorker(w) /\ conflict = FALSE
    BY DEF LateTypes, MonitorState
  <1>3. worker[w].job \in L!Job
    BY <1>2 DEF LateWorker
  <1>4. worker[w].job[2] \in Nat
    BY <1>3 DEF L!Job
  <1>5. L!LateFee(time) \in Nat
    BY <1>1, LateFeeNat
  <1>6. /\ worker[w].fee \in Nat /\ worker[w].amount \in Nat /\ worker[w].total \in Nat
        /\ worker[w].left \in Nat /\ worker[w].now \in Nat
    BY <1>2 DEF LateWorker
  <1>7. L!Idle.step = "idle" /\ L!Idle.amount = 0
    BY DEF L!Idle
  <1> QED BY <1>1, <1>2, <1>4, <1>5, <1>6, <1>7, RowFacts

\* A check that finds no more than the interval before allows, and nothing to charge, has
\* nothing to charge for good.
LEMMA NothingDue ==
  ASSUME conflict = FALSE, NEW due \in Nat, NEW now \in Nat, due <= now, now > 0
  PROVE  /\ L!LateFee(Pred(due)) \in Nat /\ L!LateFee(now) \in Nat
         /\ L!LateFee(now) <= L!LateFee(Pred(due)) => L!LateFee(now) \in {0, Cap}
  <1>1. Pred(due) \in Nat /\ Pred(due) < now
    BY DEF Pred
  <1>2. L!LateFee(Pred(due)) \in Nat /\ L!LateFee(now) \in Nat
    BY <1>1, LateFeeNat
  <1>3. L!LateFee(now) <= L!LateFee(Pred(due)) => L!LateFee(now) \in {0, Cap}
    <2>1. PICK s \in Nat : s = Pred(due)
      BY <1>1
    <2>2. s < now /\ s <= now
      BY <1>1, <2>1
    <2>3. L!LateFee(now) <= L!LateFee(s) => L!LateFee(now) \in {0, Cap}
      BY <2>2, LateFeeGrows
    <2> QED BY <2>1, <2>3
  <1> QED BY <1>2, <1>3

\* FindRow and InsertRow hand AfterFind the same facts.
LEMMA MonitorAfterFind ==
  ASSUME conflict = FALSE, NEW o \in LateWorker, NEW row \in Nat, NEW previous \in Nat,
         o.job[2] \in Nat, o.job[2] <= o.now, o.now > 0, o.total = L!LateFee(o.now),
         previous <= L!LateFee(Pred(o.job[2]))
  PROVE  LET n == L!AfterFind(o, row, previous) IN
         /\ n.step \in {"capture", "record"} /\ n.row = row /\ n.job = o.job /\ n.now = o.now
         /\ n.total = o.total
         /\ n.step = "capture" => n.fee + n.amount <= n.total /\ n.amount > 0
         /\ n.step = "record" => /\ n.fee <= n.total
                                 /\ n.amount = 0 => o.left = 0 \/ n.fee \in {0, Cap}
  <1> DEFINE n == L!AfterFind(o, row, previous)
  <1>1. /\ n.step \in {"capture", "record"} /\ n.row = row /\ n.job = o.job /\ n.now = o.now
        /\ n.total = o.total
        /\ n.fee = IF o.total > previous THEN previous ELSE o.total
        /\ n.step = "capture" => n.amount > 0 /\ n.fee = previous /\ previous + n.amount <= o.total
        /\ n.step = "record" => n.amount = 0 /\ (o.left = 0 \/ n.fee = o.total)
    BY ONLY AfterFindFacts
  <1>2. o.total \in Nat /\ o.left \in Nat /\ o.now \in Nat
    BY DEF LateWorker
  <1>3. /\ L!LateFee(Pred(o.job[2])) \in Nat
        /\ o.total <= L!LateFee(Pred(o.job[2])) => o.total \in {0, Cap}
    BY <1>2, NothingDue
  <1> HIDE DEF n
  <1>4. n.step = "capture" => n.fee + n.amount <= n.total /\ n.amount > 0
    BY <1>1
  <1>5. n.fee <= n.total
    BY <1>1, <1>2
  <1>6. ASSUME n.step = "record", n.amount = 0, o.left # 0 PROVE n.fee \in {0, Cap}
    <2>1. n.fee = o.total
      BY <1>1, <1>2, <1>6
    <2>2. o.total <= previous
      BY <1>1, <1>2, <2>1
    <2>3. o.total <= L!LateFee(Pred(o.job[2]))
      BY <1>2, <1>3, <2>2
    <2> QED BY <1>3, <2>1, <2>3
  <1> QED BY <1>1, <1>4, <1>5, <1>6 DEF n

LEMMA MonitorCheck ==
  ASSUME LateTypes, MonitorState, NEW w \in Workers, L!Check(w), Undropped',
         events \subseteq events'
  PROVE  MonitorState'
  <1>0. MonitorJobs /\ ChargingGoesOn
    BY DEF MonitorState
  <1>a. Checking(w) => NoCheck(jobs) /\ \A v \in Workers : v # w => ~ Checking(v)
    BY <1>0 DEF MonitorJobs
  <1>b. "queue" \notin events'
    BY UndroppedSteps
  <1>c. /\ worker[w] \in LateWorker /\ hold.remaining \in Nat
        /\ Cap \in Nat /\ time \in Nat /\ L!LateFee(time) \in Nat
        /\ Latest \in Nat /\ Len(rows) \in Nat
        /\ worker[w].fee \in Nat /\ worker[w].amount \in Nat /\ worker[w].total \in Nat
        /\ worker[w].left \in Nat /\ worker[w].now \in Nat /\ worker[w].job[2] \in Nat
        /\ L!Idle.step = "idle" /\ L!Idle.amount = 0
        /\ conflict = FALSE /\ MonitorWorker(w)
    BY MonitorNumbers
  <1> USE <1>c
  <1>1. ASSUME NEW job \in jobs, L!CheckReads(w, job) PROVE MonitorState'
    <2>1. /\ UNCHANGED <<rental, time, conflict, hold, rows>>
          /\ worker[w].step = "idle" /\ jobs' = jobs \ {job} /\ job[1] = "check"
          /\ job \in L!Job /\ job[2] <= time
          /\ \A v \in Workers : v # w => worker'[v] = worker[v]
      BY <1>1, CheckReadsFacts, TakeFacts
    <2>2. UNCHANGED Latest /\ \A t : L!LateFee(t)' = L!LateFee(t)
      BY <2>1 DEF Latest, L!LateFee, L!FeeAt
    <2>3. job[2] \in Nat /\ Latest <= L!LateFee(Pred(job[2]))
      BY <1>0, <2>1 DEF L!Job, MonitorJobs
    <2>4. NoCheck(jobs') /\ \A v \in Workers : v # w => ~ Checking(v)'
      BY <1>0, <2>1 DEF MonitorJobs, NoCheck, Checking
    <2>5. CASE worker'[w].step = "idle"
      <3>1. rental # "ACTIVE" \/ time = 0
        BY <1>1, <2>5, CheckReadsFacts
      <3>2. time = 0 => Latest = 0
        <4>1. time = 0 => Pred(job[2]) = 0
          BY <2>1, <2>3 DEF Pred
        <4>2. L!LateFee(0) = 0
          BY LateFeeBounds
        <4>3. time = 0 => Latest <= 0
          BY <2>3, <4>1, <4>2, Zenon
        <4> QED BY <4>3
      <3>3. ChargingGoesOn'
        BY <2>1, <2>2, <3>1, <3>2 DEF ChargingGoesOn
      <3>4. MonitorWorker(w)'
        BY <2>5 DEF MonitorWorker, Checking
      <3> QED BY <2>1, <2>4, <3>3, <3>4, MonitorAlone DEF NoCheck
    <2>6. CASE worker'[w].step # "idle"
      <3>1. /\ time > 0 /\ worker'[w].step = "price" /\ worker'[w].job = job
            /\ worker'[w].now = time
            /\ worker'[w].left = hold.remaining
        BY <1>1, <2>1, <2>6, CheckReadsFacts
      <3>2. MonitorWorker(w)'
        BY <2>1, <2>2, <2>3, <3>1 DEF MonitorWorker
      <3>3. ChargingGoesOn'
        BY <3>1 DEF ChargingGoesOn, Checking
      <3> QED BY <2>1, <2>4, <3>2, <3>3, MonitorAlone DEF NoCheck
    <2> QED BY <2>5, <2>6
  <1>2. CASE L!FindRow(w)
    <2>1. /\ UNCHANGED <<rental, time, conflict, hold, rows, jobs>> /\ worker[w].step = "find"
          /\ \A v \in Workers : v # w => worker'[v] = worker[v]
      BY <1>2, FindFacts
    <2>2. UNCHANGED Latest /\ UNCHANGED Len(rows) /\ \A t : L!LateFee(t)' = L!LateFee(t)
      BY <2>1 DEF Latest, L!LateFee, L!FeeAt
    <2>3. NoCheck(jobs) /\ \A v \in Workers : v # w => ~ Checking(v)'
      BY <1>a, <2>1 DEF Checking
    <2>4. /\ worker[w].job[1] = "check" /\ worker[w].job[2] <= worker[w].now
          /\ worker[w].now > 0 /\ worker[w].now <= time
          /\ worker[w].total = L!LateFee(worker[w].now)
          /\ Latest <= L!LateFee(Pred(worker[w].job[2])) /\ hold.remaining <= worker[w].left
      BY <2>1 DEF MonitorWorker, Checking
    <2>5. MonitorWorker(w)' /\ Checking(w)'
      <3>1. CASE rows = <<>>
        <4>1. /\ worker'[w].step = "insert"
              /\ worker'[w].job = worker[w].job /\ worker'[w].now = worker[w].now
              /\ worker'[w].total = worker[w].total /\ worker'[w].left = worker[w].left
          BY <1>2, <3>1, FindFacts
        <4> QED BY <2>1, <2>2, <2>4, <3>1, <4>1 DEF MonitorWorker, Checking
      <3>2. CASE rows # <<>>
        <4>1. PICK o \in LateWorker, k \in Nat, m \in Nat :
                o = worker[w] /\ k = Len(rows) /\ m = Latest
          OBVIOUS
        <4>2. PICK left \in Nat : left = hold.remaining
          OBVIOUS
        <4> DEFINE n == L!AfterFind(o, k, m)
        <4>3. worker'[w] = n
          BY <1>2, <3>2, <4>1, FindFacts
        <4>4. /\ o.job[1] = "check" /\ o.job[2] <= o.now /\ o.now > 0 /\ o.now <= time
              /\ o.total = L!LateFee(o.now) /\ m <= L!LateFee(Pred(o.job[2]))
              /\ left <= o.left /\ o.job[2] \in Nat
          BY <2>4, <4>1, <4>2
        <4>5. /\ n.step \in {"capture", "record"} /\ n.row = k /\ n.job = o.job /\ n.now = o.now
              /\ n.total = o.total
              /\ n.step = "capture" => n.fee + n.amount <= n.total /\ n.amount > 0
              /\ n.step = "record" => /\ n.fee <= n.total
                                      /\ n.amount = 0 => o.left = 0 \/ n.fee \in {0, Cap}
          BY ONLY <1>c, <4>4, MonitorAfterFind
        <4> HIDE DEF n
        <4> QED BY <2>1, <2>2, <4>1, <4>2, <4>3, <4>4, <4>5 DEF MonitorWorker, Checking
      <3> QED BY <3>1, <3>2
    <2>6. ChargingGoesOn'
      BY <2>5 DEF ChargingGoesOn
    <2> QED BY <2>1, <2>3, <2>5, <2>6, MonitorAlone DEF NoCheck
  <1>3. CASE L!InsertRow(w)
    <2>1. /\ UNCHANGED <<rental, time, conflict, hold, jobs>> /\ worker[w].step = "insert"
          /\ \A v \in Workers : v # w => worker'[v] = worker[v]
          /\ Latest' = 0 /\ Len(rows') = Len(rows) + 1
      BY <1>3, InsertFacts
    <2>2. \A t : L!LateFee(t)' = L!LateFee(t)
      BY <2>1 DEF L!LateFee, L!FeeAt
    <2>3. NoCheck(jobs) /\ \A v \in Workers : v # w => ~ Checking(v)'
      BY <1>a, <2>1 DEF Checking
    <2>4. /\ worker[w].job[1] = "check" /\ worker[w].job[2] <= worker[w].now
          /\ worker[w].now > 0 /\ worker[w].now <= time
          /\ worker[w].total = L!LateFee(worker[w].now)
          /\ 0 <= L!LateFee(Pred(worker[w].job[2])) /\ hold.remaining <= worker[w].left
      BY <2>1 DEF MonitorWorker, Checking, Latest
    <2>5. MonitorWorker(w)' /\ Checking(w)'
      <3>1. PICK o \in LateWorker, k \in Nat, m \in Nat :
              o = worker[w] /\ k = Len(rows) + 1 /\ m = 0
        OBVIOUS
      <3>2. PICK left \in Nat : left = hold.remaining
        OBVIOUS
      <3> DEFINE n == L!AfterFind(o, k, m)
      <3>3. worker'[w] = n
        BY <1>3, <3>1, InsertFacts
      <3>4. /\ o.job[1] = "check" /\ o.job[2] <= o.now /\ o.now > 0 /\ o.now <= time
            /\ o.total = L!LateFee(o.now) /\ m <= L!LateFee(Pred(o.job[2]))
            /\ left <= o.left /\ o.job[2] \in Nat
        BY <2>4, <3>1, <3>2
      <3>5. /\ n.step \in {"capture", "record"} /\ n.row = k /\ n.job = o.job /\ n.now = o.now
            /\ n.total = o.total
            /\ n.step = "capture" => n.fee + n.amount <= n.total /\ n.amount > 0
            /\ n.step = "record" => /\ n.fee <= n.total
                                    /\ n.amount = 0 => o.left = 0 \/ n.fee \in {0, Cap}
        BY ONLY <1>c, <3>4, MonitorAfterFind
      <3> HIDE DEF n
      <3> QED BY <2>1, <2>2, <3>1, <3>2, <3>3, <3>4, <3>5 DEF MonitorWorker, Checking
    <2>6. ChargingGoesOn'
      BY <2>5 DEF ChargingGoesOn
    <2> QED BY <2>1, <2>3, <2>5, <2>6, MonitorAlone DEF NoCheck
  <1>4. CASE L!Capture(w)
    <2>1. /\ UNCHANGED <<rental, time, conflict, rows, jobs>> /\ worker[w].step = "capture"
          /\ \A v \in Workers : v # w => worker'[v] = worker[v]
          /\ worker'[w].step = "record" /\ worker'[w].fee = worker[w].fee + worker[w].amount
          /\ worker'[w].job = worker[w].job /\ worker'[w].now = worker[w].now
          /\ worker'[w].total = worker[w].total /\ worker'[w].row = worker[w].row
          /\ worker'[w].amount = worker[w].amount
      BY <1>4, CaptureFacts
    <2>2. UNCHANGED Len(rows) /\ \A t : L!LateFee(t)' = L!LateFee(t)
      BY <2>1 DEF L!LateFee, L!FeeAt
    <2>3. NoCheck(jobs) /\ \A v \in Workers : v # w => ~ Checking(v)'
      BY <1>a, <2>1 DEF Checking
    <2>4. MonitorWorker(w)' /\ Checking(w)'
      BY <2>1, <2>2 DEF MonitorWorker, Checking
    <2>5. ChargingGoesOn'
      BY <2>4 DEF ChargingGoesOn
    <2> QED BY <2>1, <2>3, <2>4, <2>5, MonitorAlone DEF NoCheck
  <1>5. CASE L!Refused(w)
    <2>1. /\ UNCHANGED <<rental, time, conflict, hold, rows>> /\ worker[w].step = "capture"
          /\ \A v \in Workers : v # w => worker'[v] = worker[v]
          /\ worker'[w].step = "idle" /\ jobs' = jobs \cup {worker[w].job}
      BY <1>5, RetryFacts DEF L!Refused, L!Is
    <2>2. UNCHANGED Latest /\ \A t : L!LateFee(t)' = L!LateFee(t)
      BY <2>1 DEF Latest, L!LateFee, L!FeeAt
    <2>3. NoCheck(jobs) /\ \A v \in Workers : v # w => ~ Checking(v)'
      BY <1>a, <2>1 DEF Checking
    <2>4. worker[w].job[1] = "check" /\ Latest <= L!LateFee(Pred(worker[w].job[2]))
      BY <2>1 DEF MonitorWorker, Checking
    <2>5. /\ \A j \in jobs' : j[1] = "check" => j = worker[w].job
          /\ ~ NoCheck(jobs')
      BY <2>1, <2>3, <2>4 DEF NoCheck
    <2>6. MonitorWorker(w)' /\ ~ Checking(w)' /\ ChargingGoesOn'
      BY <2>1, <2>5 DEF MonitorWorker, Checking, ChargingGoesOn
    <2> QED BY <2>1, <2>2, <2>3, <2>4, <2>5, <2>6, MonitorAlone
  <1>6. CASE L!RecordCharge(w)
    <2>1. worker[w].step = "record"
      BY <1>6, RecordFacts
    <2>2. NoCheck(jobs) /\ \A v \in Workers : v # w => ~ Checking(v)
      BY <1>a, <2>1 DEF Checking
    <2>3. /\ worker[w].job[1] = "check" /\ worker[w].job[2] <= worker[w].now
          /\ worker[w].now > 0 /\ worker[w].now <= time /\ worker[w].row = Len(rows)
          /\ worker[w].fee <= L!LateFee(worker[w].now)
          /\ worker[w].amount = 0 => hold.remaining = 0 \/ worker[w].fee \in {0, Cap}
      BY <2>1 DEF MonitorWorker, Checking
    <2>4. /\ UNCHANGED <<rental, time, conflict, hold, jobs>> /\ Latest' = worker[w].fee
          /\ \A v \in Workers : v # w => worker'[v] = worker[v]
          /\ \/ /\ worker[w].amount > 0 /\ worker'[w].step = "schedule"
                /\ worker'[w].job = worker[w].job /\ worker'[w].now = worker[w].now
             \/ /\ worker[w].amount = 0 /\ worker'[w].step = "idle"
      BY <1>6, <2>3, RecordFacts
    <2>5. \A t : L!LateFee(t)' = L!LateFee(t)
      BY <2>4 DEF L!LateFee, L!FeeAt
    <2>6. MonitorWorker(w)' /\ \A v \in Workers : v # w => ~ Checking(v)'
      BY <2>2, <2>3, <2>4, <2>5 DEF MonitorWorker, Checking
    <2>7. ChargingGoesOn'
      BY <2>3, <2>4 DEF ChargingGoesOn, Checking
    <2> QED BY <2>2, <2>4, <2>6, <2>7, MonitorAlone DEF NoCheck
  <1>7. CASE L!Schedule(w)
    <2>1. /\ UNCHANGED <<rental, time, conflict, hold, rows>> /\ worker[w].step = "schedule"
          /\ \A v \in Workers : v # w => worker'[v] = worker[v]
          /\ worker'[w].step = "idle"
          /\ <<"check", worker[w].now + 1>> \in jobs'
          /\ \A job \in jobs' \ jobs : \/ job = <<"check", worker[w].now + 1>>
                                       \/ job[1] = "escalation"
      BY <1>7, <1>b, ScheduleFacts
    <2>2. UNCHANGED Latest /\ \A t : L!LateFee(t)' = L!LateFee(t)
      BY <2>1 DEF Latest, L!LateFee, L!FeeAt
    <2>3. NoCheck(jobs) /\ \A v \in Workers : v # w => ~ Checking(v)'
      BY <1>a, <2>1 DEF Checking
    <2>4. Latest <= L!LateFee(worker[w].now)
      BY <2>1 DEF MonitorWorker, Checking
    <2>5. \A j \in jobs' : j[1] = "check" => j = <<"check", worker[w].now + 1>>
      BY <2>1, <2>3 DEF NoCheck
    <2>6. Pred(worker[w].now + 1) = worker[w].now
      <3>1. PICK k \in Nat : k = worker[w].now
        OBVIOUS
      <3>2. Pred(k + 1) = k
        BY DEF Pred
      <3> QED BY <3>1, <3>2
    <2>7. \A j \in jobs' : j[1] = "check" => Latest' <= L!LateFee(Pred(j[2]))'
      BY <2>2, <2>4, <2>5, <2>6
    <2>8. <<"check", worker[w].now + 1>>[1] = "check"
      OBVIOUS
    <2>9. ~ NoCheck(jobs')
      BY <2>1, <2>8 DEF NoCheck
    <2>10. MonitorWorker(w)' /\ ~ Checking(w)' /\ ChargingGoesOn'
      BY <2>1, <2>9 DEF MonitorWorker, Checking, ChargingGoesOn
    <2> QED BY <2>1, <2>3, <2>5, <2>7, <2>10, MonitorAlone
  <1>8. CASE L!Price(w)
    <2>1. /\ UNCHANGED <<rental, time, conflict, hold, rows, jobs>> /\ worker[w].step = "price"
          /\ \A v \in Workers : v # w => worker'[v] = worker[v]
          /\ worker'[w].step = "find" /\ worker'[w].job = worker[w].job
          /\ worker'[w].now = worker[w].now /\ worker'[w].left = worker[w].left
          /\ worker'[w].total = L!LateFee(worker[w].now)
      BY <1>8, PriceFacts, PlainFee
    <2>2. UNCHANGED Latest /\ \A t : L!LateFee(t)' = L!LateFee(t)
      BY <2>1 DEF Latest, L!LateFee, L!FeeAt
    <2>3. NoCheck(jobs) /\ \A v \in Workers : v # w => ~ Checking(v)'
      BY <1>a, <2>1 DEF Checking
    <2>4. MonitorWorker(w)' /\ Checking(w)'
      BY <2>1, <2>2 DEF MonitorWorker, Checking
    <2>5. ChargingGoesOn'
      BY <2>4 DEF ChargingGoesOn
    <2> QED BY <2>1, <2>3, <2>4, <2>5, MonitorAlone DEF NoCheck
  <1> QED BY <1>1, <1>2, <1>3, <1>4, <1>5, <1>6, <1>7, <1>8 DEF L!Check

LEMMA MonitorStep ==
  ASSUME LateTypes, MonitorInv, [L!Next]_(L!vars)
  PROVE  MonitorInv'
  <1> SUFFICES ASSUME Undropped' PROVE MonitorState'
    BY DEF MonitorInv
  <1>1. ASSUME NEW w \in Workers, L!Check(w) PROVE MonitorState'
    <2>1. events \subseteq events'
      BY <1>1, CheckReadsFacts, TakeFacts, PriceFacts, FindFacts, InsertFacts, CaptureFacts,
         RecordFacts, ScheduleFacts DEF L!Check, L!Refused
    <2> QED BY <1>1, <2>1, UndroppedSteps, MonitorCheck DEF MonitorInv
  <1>2. ASSUME NEW w \in Workers, L!Escalation(w) PROVE MonitorState'
    <2>1. events \subseteq events'
      BY <1>2, EscalationReadsFacts, TakeFacts, DecideFacts, SeizeFacts, MarkFacts DEF L!Escalation
    <2> QED BY <1>2, <2>1, UndroppedSteps, MonitorEscalation DEF MonitorInv
  <1>3. ASSUME NEW w \in Workers, L!Crash(w) PROVE MonitorState'
    BY Zenon, <1>3 DEF L!Crash, L!Event, Undropped
  <1>4. CASE L!Tick \/ L!ItemReturned \/ L!ConflictChanges \/ L!DamageCharged \/ UNCHANGED L!vars
    <2>1. events \subseteq events'
      BY <1>4 DEF L!Tick, L!ItemReturned, L!ConflictChanges, L!DamageCharged, L!Event, L!vars
    <2> QED BY <1>4, <2>1, UndroppedSteps, MonitorEnvironment DEF MonitorInv
  <1> QED BY <1>1, <1>2, <1>3, <1>4 DEF L!Next

LEMMA MonitorInit == L!Init => MonitorInv
  <1> SUFFICES ASSUME L!Init PROVE MonitorState
    BY DEF MonitorInv
  <1>1. /\ \A w \in Workers : worker[w].step = "idle"
        /\ rows = <<>> /\ conflict = FALSE /\ jobs = {<<"check", 0>>} /\ Latest = 0
    BY DEF L!Init, L!Idle, Latest
  <1>2. L!LateFee(0) = 0 /\ Pred(0) = 0
    BY <1>1, LateFeeBounds DEF Pred
  <1>3. <<"check", 0>>[2] = 0
    OBVIOUS
  <1>4. Latest <= L!LateFee(Pred(<<"check", 0>>[2]))
    BY <1>1, <1>2, <1>3
  <1>5. /\ MonitorJobs /\ ChargingGoesOn /\ \A w \in Workers : MonitorWorker(w)
    BY <1>1, <1>4 DEF MonitorJobs, ChargingGoesOn, MonitorWorker, Checking
  <1> QED BY <1>1, <1>5 DEF MonitorState

\* While the rental is out and neither the cap nor the hold is used up, a check is queued or
\* running, whatever jobs run at once, whatever else draws on the hold and whatever the
\* database does to escalations.
THEOREM ChargingIsNotLost == MoneySpec => []MonitoringGoesOn
  <1>1. MoneyInit => LateTypes /\ MonitorInv
    BY LateTypesInit, MonitorInit DEF MoneyInit
  <1>2. LateTypes /\ MonitorInv /\ [MoneyNext]_money => (LateTypes /\ MonitorInv)'
    BY StepOfLateReturn, LateTypesStep, MonitorStep
  <1>3. LateTypes /\ MonitorInv => MonitoringGoesOn
    <2> SUFFICES ASSUME LateTypes, MonitorState, Undropped, rental = "ACTIVE", hold.remaining > 0,
                        rows # <<>>, rows[Len(rows)].fee \in 1 .. Cap - 1
                 PROVE  \/ \E job \in jobs : job[1] = "check"
                        \/ \E w \in Workers : ~ L!Is(w, "idle") /\ worker[w].job[1] = "check"
      BY DEF MonitorInv, Undropped, MonitoringGoesOn, L!MonitoringGoesOn
    <2>1. Latest # 0 /\ Latest < Cap
      <3>1. Latest \in 1 .. Cap - 1 /\ Cap \in Nat
        BY MoneyAssumption DEF Latest, L!LateAssumption
      <3> QED BY <3>1
    <2>2. ~ NoCheck(jobs) \/ \E w \in Workers : Checking(w)
      BY <2>1 DEF MonitorState, ChargingGoesOn
    <2>3. ASSUME NEW w \in Workers, Checking(w)
          PROVE  ~ L!Is(w, "idle") /\ worker[w].job[1] = "check"
      BY <2>3 DEF MonitorState, MonitorWorker, Checking, L!Is
    <2> QED BY <2>2, <2>3 DEF NoCheck
  <1> QED BY <1>1, <1>2, <1>3, PTL DEF MoneySpec

=============================================================================
