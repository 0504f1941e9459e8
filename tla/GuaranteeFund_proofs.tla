------------------------ MODULE GuaranteeFund_proofs ------------------------
(***************************************************************************)
(* Theorems about GuaranteeFund, for any number of callers, any amounts,   *)
(* any balances that are misread, and any number of transactions.          *)
(***************************************************************************)
EXTENDS GuaranteeFund, TLAPS

Afters == {ledger[t].after : t \in DOMAIN ledger}
Open(c) == op[c].step \in {"read", "insert"}

\* The latest entry, and what a reader of the ledger may have seen of it.
HasLatest == DOMAIN ledger = {} \/ \E m \in DOMAIN ledger : \A t \in DOMAIN ledger : m >= t
SeenIsCommitted ==
  \A c \in Callers : op[c].step = "insert" => op[c].seen \in {0} \cup Afters
\* Each open transaction has a stamp of its own, which no entry has yet.
StampsAreFresh ==
  /\ \A c \in Callers : Open(c) => op[c].stamp \in 1 .. clock /\ op[c].stamp \notin DOMAIN ledger
  /\ \A c, d \in Callers : c # d /\ Open(c) /\ Open(d) => op[c].stamp # op[d].stamp

IInv == TypeOK /\ HasLatest /\ SeenIsCommitted /\ StampsAreFresh /\ BalancesContinue

-----------------------------------------------------------------------------

LEMMA IdleIsTyped ==
  Idle \in Operation
  BY DEF Idle, EntryType, Operation

\* InsertEntry's first statement reads the balance of a committed entry, if there is one.
LEMMA BalanceIsCommitted ==
  ASSUME TypeOK, HasLatest
  PROVE  Balance \in {0} \cup Afters /\ Balance \in Int
  <1>1. CASE DOMAIN ledger = {}
    BY <1>1 DEF Balance, BalanceOf
  <1>2. CASE DOMAIN ledger # {}
    <2>1. PICK m \in DOMAIN ledger : \A t \in DOMAIN ledger : m >= t
      BY <1>2 DEF HasLatest
    <2>2. Max(DOMAIN ledger) \in DOMAIN ledger
      BY <2>1 DEF Max
    <2>3. Balance = ledger[Max(DOMAIN ledger)].after
      BY <1>2 DEF Balance, BalanceOf
    <2> QED BY <2>2, <2>3 DEF Afters, TypeOK, Entry
  <1> QED BY <1>1, <1>2

LEMMA WantedIsTyped ==
  ASSUME NEW type \in EntryType, NEW amount \in Int, NEW rest \in Nat
  PROVE  Wanted(type, amount, rest) \in Operation /\ Wanted(type, amount, rest).step = "begin"
  BY DEF Wanted, Operation

LEMMA FundInit == Init => IInv
  <1> SUFFICES ASSUME Init PROVE IInv
    OBVIOUS
  <1>1. DOMAIN ledger = {} /\ clock = 0 /\ disturbed = FALSE
    BY DEF Init
  <1>2. TypeOK
    <2>1. op \in [Callers -> Operation]
      BY IdleIsTyped DEF Init
    <2>2. DOMAIN ledger \subseteq 1 .. clock /\ \A t \in DOMAIN ledger : ledger[t] \in Entry
      BY <1>1
    <2> QED BY <1>1, <2>1, <2>2 DEF TypeOK
  <1>3. \A c \in Callers : op[c].step = "idle"
    BY DEF Init, Idle
  <1> QED BY <1>1, <1>2, <1>3
          DEF IInv, HasLatest, SeenIsCommitted, StampsAreFresh, BalancesContinue, Open

\* A step that leaves the ledger and the clock alone, and opens no transaction, keeps the
\* invariant.
LEMMA OutsideTransactions ==
  ASSUME IInv, NEW c \in Callers, UNCHANGED <<ledger, clock>>, disturbed' \in BOOLEAN,
         NEW o \in Operation,
         o.step \in {"idle", "begin"}, op' = [op EXCEPT ![c] = o]
  PROVE  IInv'
  <1>1. TypeOK'
    BY DEF IInv, TypeOK
  <1>2. HasLatest' /\ BalancesContinue'
    BY DEF IInv, HasLatest, BalancesContinue
  <1>3. SeenIsCommitted' /\ StampsAreFresh'
    BY DEF IInv, TypeOK, SeenIsCommitted, StampsAreFresh, Open, Afters
  <1> QED BY <1>1, <1>2, <1>3 DEF IInv

LEMMA PayInKeeps ==
  ASSUME IInv, NEW c \in Callers, NEW type, NEW a \in Amounts, PayIn(c, type, a)
  PROVE  IInv'
  <1>1. a \in Int /\ type \in EntryType
    BY FundAssumption DEF PayIn, EntryType
  <1>2. Wanted(type, a, 0) \in Operation /\ Wanted(type, a, 0).step = "begin"
    BY <1>1, WantedIsTyped
  <1>3. /\ op' = [op EXCEPT ![c] = Wanted(type, a, 0)]
        /\ UNCHANGED <<ledger, clock>> /\ disturbed' \in BOOLEAN
    BY DEF PayIn, Begin, IInv, TypeOK
  <1> QED BY <1>2, <1>3, OutsideTransactions

LEMMA ClaimKeeps ==
  ASSUME IInv, NEW c \in Callers, NEW a \in Amounts, Claim(c, a)
  PROVE  IInv'
  <1> DEFINE claimAmount == IF a > Reported THEN Reported ELSE a
             o == Wanted("CLAIM", - claimAmount, a - claimAmount)
  <1>1. Balance \in Int /\ Reported \in Int /\ Reported > 0
    BY BalanceIsCommitted DEF Claim, Reported, IInv
  <1>2. a \in Nat
    BY FundAssumption
  <1>3. claimAmount \in Int /\ claimAmount <= a
    BY <1>1, <1>2
  <1>4. op' = [op EXCEPT ![c] = o] /\ UNCHANGED <<ledger, clock>> /\ disturbed' \in BOOLEAN
    BY DEF Claim, Begin, IInv, TypeOK
  <1> HIDE DEF claimAmount
  <1>5. - claimAmount \in Int /\ a - claimAmount \in Nat /\ "CLAIM" \in EntryType
    BY <1>2, <1>3 DEF EntryType
  <1>6. o \in Operation /\ o.step = "begin"
    BY <1>5, WantedIsTyped
  <1> QED BY <1>4, <1>6, OutsideTransactions

LEMMA BeginTxKeeps ==
  ASSUME IInv, NEW c \in Callers, BeginTx(c)
  PROVE  IInv'
  <1> USE FundAssumption DEF BeginTx, IInv
  <1>1. TypeOK'
    <2>1. clock' \in Nat /\ 1 .. clock \subseteq 1 .. clock'
      BY DEF TypeOK
    <2>2. [op[c] EXCEPT !.step = "read", !.stamp = clock + 1]
            \in Operation
      <3> DEFINE stamp == clock + 1
      <3>1. stamp \in Nat
        BY DEF TypeOK
      <3>2. op[c] \in Operation
        BY DEF TypeOK
      <3> HIDE DEF stamp
      <3>3. [op[c] EXCEPT !.step = "read", !.stamp = stamp]
              \in Operation
        BY <3>1, <3>2 DEF Operation
      <3> QED BY <3>3 DEF stamp
    <2> QED BY <2>1, <2>2 DEF TypeOK
  <1>2. HasLatest' /\ BalancesContinue'
    BY DEF HasLatest, BalancesContinue
  <1>3. SeenIsCommitted'
    BY DEF SeenIsCommitted, Afters, TypeOK
  <1>4. StampsAreFresh'
    BY DEF StampsAreFresh, Open, TypeOK
  <1> QED BY <1>1, <1>2, <1>3, <1>4

LEMMA ReadPreviousKeeps ==
  ASSUME IInv, NEW c \in Callers, ReadPrevious(c)
  PROVE  IInv'
  <1> USE DEF ReadPrevious, IInv
  <1>1. Balance \in {0} \cup Afters /\ Balance \in Int
    BY BalanceIsCommitted
  <1>2. TypeOK'
    BY <1>1 DEF TypeOK, Operation
  <1>3. HasLatest' /\ BalancesContinue'
    BY DEF HasLatest, BalancesContinue
  <1>4. SeenIsCommitted'
    BY <1>1 DEF SeenIsCommitted, Afters, TypeOK
  <1>5. StampsAreFresh'
    BY DEF StampsAreFresh, Open, TypeOK
  <1> QED BY <1>2, <1>3, <1>4, <1>5

\* What the caller does after its commit: nothing, or the referral of a shortfall.
LEMMA AfterCommitIsTyped ==
  ASSUME TypeOK, NEW c \in Callers
  PROVE  /\ AfterCommit(op[c]) \in Operation
         /\ AfterCommit(op[c]).step \in {"idle", "begin"}
  <1>1. - op[c].short \in Int /\ 0 \in Nat /\ "COLLECTIONS_REFERRAL" \in EntryType
    BY DEF TypeOK, Operation, EntryType
  <1>2. /\ Wanted("COLLECTIONS_REFERRAL", - op[c].short, 0) \in Operation
        /\ Wanted("COLLECTIONS_REFERRAL", - op[c].short, 0).step = "begin"
    BY <1>1, WantedIsTyped
  <1>3. Idle.step = "idle"
    BY DEF Idle
  <1> QED BY <1>2, <1>3, IdleIsTyped DEF AfterCommit

LEMMA InsertEntryKeeps ==
  ASSUME IInv, NEW c \in Callers, InsertEntry(c)
  PROVE  IInv'
  <1> DEFINE n == op[c].stamp
             new == [type |-> op[c].type, amount |-> op[c].amount,
                     after |-> op[c].seen + op[c].amount]
  <1>1. n \in 1 .. clock /\ n \notin DOMAIN ledger
    BY DEF IInv, StampsAreFresh, Open, InsertEntry
  <1>2. /\ DOMAIN ledger' = DOMAIN ledger \cup {n}
        /\ ledger'[n] = new
        /\ \A t \in DOMAIN ledger : ledger'[t] = ledger[t]
    BY <1>1 DEF InsertEntry
  <1>3. op' = [op EXCEPT ![c] = AfterCommit(op[c])] /\ UNCHANGED <<clock, disturbed>>
    BY DEF InsertEntry
  <1>4. op[c].seen \in Int /\ op[c].amount \in Int /\ op[c].type \in EntryType
    BY DEF IInv, TypeOK, Operation
  <1>5. new \in Entry
    BY <1>4 DEF Entry
  <1>6. TypeOK'
    <2>1. DOMAIN ledger' \subseteq 1 .. clock' /\ \A t \in DOMAIN ledger' : ledger'[t] \in Entry
      BY <1>1, <1>2, <1>3, <1>5 DEF IInv, TypeOK
    <2> QED BY <2>1, <1>3, AfterCommitIsTyped DEF IInv, TypeOK
  <1>7. HasLatest'
    <2>1. CASE DOMAIN ledger = {}
      BY <2>1, <1>1, <1>2 DEF HasLatest
    <2>2. CASE DOMAIN ledger # {}
      <3>1. PICK m \in DOMAIN ledger : \A t \in DOMAIN ledger : m >= t
        BY <2>2 DEF IInv, HasLatest
      <3>2. \A t \in DOMAIN ledger : t \in Int
        BY DEF IInv, TypeOK
      <3>3. CASE n >= m
        BY <3>1, <3>2, <3>3, <1>1, <1>2 DEF HasLatest
      <3>4. CASE n < m
        BY <3>1, <3>2, <3>4, <1>1, <1>2 DEF HasLatest
      <3> QED BY <3>2, <3>3, <3>4, <1>1
    <2> QED BY <2>1, <2>2
  <1>8. Afters \subseteq Afters'
    BY <1>2 DEF Afters
  <1>9. SeenIsCommitted'
    BY <1>3, <1>8, AfterCommitIsTyped DEF IInv, TypeOK, SeenIsCommitted
  <1>10. StampsAreFresh'
    BY <1>1, <1>2, <1>3, AfterCommitIsTyped DEF IInv, TypeOK, StampsAreFresh, Open, InsertEntry
  <1>11. BalancesContinue'
    <2>1. ASSUME NEW t \in DOMAIN ledger
          PROVE  ledger'[t].after - ledger'[t].amount
                   \in {0} \cup {ledger'[s].after : s \in DOMAIN ledger' \ {t}}
      BY <1>2 DEF IInv, BalancesContinue
    <2>2. op[c].seen \in {0} \cup Afters
      BY DEF IInv, SeenIsCommitted, InsertEntry
    <2>3. ledger'[n].after - ledger'[n].amount = op[c].seen
      BY <1>2, <1>4
    <2>4. Afters \subseteq {ledger'[s].after : s \in DOMAIN ledger' \ {n}}
      BY <1>1, <1>2 DEF Afters
    <2>5. ledger'[n].after - ledger'[n].amount
            \in {0} \cup {ledger'[s].after : s \in DOMAIN ledger' \ {n}}
      BY <2>2, <2>3, <2>4
    <2> QED BY <2>1, <2>5, <1>2 DEF BalancesContinue
  <1> QED BY <1>6, <1>7, <1>9, <1>10, <1>11 DEF IInv

LEMMA FailsKeeps ==
  ASSUME IInv, NEW c \in Callers, Fails(c)
  PROVE  IInv'
  <1>1. op' = [op EXCEPT ![c] = Idle] /\ UNCHANGED <<ledger, clock>> /\ disturbed' \in BOOLEAN
    BY DEF Fails, IInv, TypeOK
  <1>2. Idle.step = "idle"
    BY DEF Idle
  <1> QED BY <1>1, <1>2, IdleIsTyped, OutsideTransactions

LEMMA FundStep == IInv /\ [Next]_vars => IInv'
  <1> SUFFICES ASSUME IInv, [Next]_vars PROVE IInv'
    OBVIOUS
  <1>1. ASSUME NEW c \in Callers, NEW a \in Amounts, Claim(c, a) PROVE IInv'
    BY <1>1, ClaimKeeps
  <1>2. ASSUME NEW c \in Callers, NEW a \in Amounts, NEW type \in {"CONTRIBUTION", "CARD_RECOVERY"},
               PayIn(c, type, a)
        PROVE  IInv'
    BY <1>2, PayInKeeps
  <1>3. ASSUME NEW c \in Callers, BeginTx(c) PROVE IInv'
    BY <1>3, BeginTxKeeps
  <1>4. ASSUME NEW c \in Callers, ReadPrevious(c) PROVE IInv'
    BY <1>4, ReadPreviousKeeps
  <1>5. ASSUME NEW c \in Callers, InsertEntry(c) PROVE IInv'
    BY <1>5, InsertEntryKeeps
  <1>6. ASSUME NEW c \in Callers, Fails(c) PROVE IInv'
    BY <1>6, FailsKeeps
  <1>7. CASE UNCHANGED vars
    BY <1>7 DEF vars, IInv, TypeOK, HasLatest, SeenIsCommitted, StampsAreFresh, BalancesContinue,
                Open, Afters
  <1> QED BY <1>1, <1>2, <1>3, <1>4, <1>5, <1>6, <1>7 DEF Next

\* However overlapping operations overwrite each other's balance, and in whatever order
\* their entries are stamped and committed: every balance_after continues a committed one.
THEOREM BalancesAlwaysContinue == Spec => []BalancesContinue
  <1>1. IInv => BalancesContinue
    BY DEF IInv
  <1> QED BY FundInit, FundStep, <1>1, PTL DEF Spec

-----------------------------------------------------------------------------
(* Until operations overlap, each one knows the balance it will be booked on.  *)

\* What may be waiting to be booked on a balance: a deposit, a claim cut down to the
\* balance, or what a claim that emptied the fund could not draw.
Due(o, balance) ==
  \E a \in Amounts :
    \/ o.type \in {"CONTRIBUTION", "CARD_RECOVERY"} /\ o.amount = a /\ o.short = 0
    \/ /\ o.type = "CLAIM" /\ balance > 0
       /\ IF a > balance THEN o.amount = - balance /\ o.short = a - balance
                         ELSE o.amount = - a /\ o.short = 0
    \/ /\ o.type = "COLLECTIONS_REFERRAL" /\ balance = 0 /\ o.short = 0
       /\ \E s \in 1 .. a - 1 : o.amount = - s

\* An operation under way is due, has the newest stamp and has seen the balance.
UpToDate(o, balance, now) ==
  o.step # "idle" =>
    /\ Due(o, balance)
    /\ o.step \in {"read", "insert"} => o.stamp = now
    /\ o.step = "insert" => o.seen = balance

Alone(c) == \A d \in Callers \ {c} : op[d].step = "idle"

SerialInv ==
  ~ disturbed => \A c \in Callers : op[c].step # "idle" =>
                    Alone(c) /\ UpToDate(op[c], Balance, clock)

LEMMA SerialInit == Init => SerialInv
  BY DEF Init, SerialInv, Idle

\* A step of the only operation under way keeps the invariant if that stays up to date.
LEMMA OneIsUnderWay ==
  ASSUME op \in [Callers -> Operation], NEW c \in Callers, Alone(c), NEW o,
         op' = [op EXCEPT ![c] = o], UpToDate(o, Balance', clock')
  PROVE  SerialInv'
  <1>1. op'[c] = o /\ \A d \in Callers \ {c} : op'[d].step = "idle"
    BY DEF Alone
  <1> QED BY <1>1 DEF SerialInv, Alone

LEMMA BeginIsAlone ==
  ASSUME IInv, SerialInv, NEW c \in Callers, NEW misread, Begin(c, misread), ~ disturbed'
  PROVE  Alone(c) /\ ~ disturbed /\ ~ misread
  BY DEF Begin, Alone

LEMMA PayInIsSerial ==
  ASSUME IInv, SerialInv, NEW c \in Callers, NEW type, NEW a \in Amounts, PayIn(c, type, a)
  PROVE  SerialInv' /\ Balance' = Balance
  <1>1. Balance' = Balance
    BY DEF PayIn, Balance
  <1>2. CASE ~ disturbed'
    <2>1. Alone(c)
      BY <1>2, BeginIsAlone DEF PayIn
    <2>2. UpToDate(Wanted(type, a, 0), Balance', clock')
      BY DEF UpToDate, Due, Wanted, PayIn
    <2> QED BY <1>1, <2>1, <2>2, OneIsUnderWay DEF PayIn, IInv, TypeOK
  <1> QED BY <1>1, <1>2 DEF SerialInv

LEMMA ClaimIsSerial ==
  ASSUME IInv, SerialInv, NEW c \in Callers, NEW a \in Amounts, Claim(c, a)
  PROVE  SerialInv' /\ Balance' = Balance
  <1>1. Balance' = Balance
    BY DEF Claim, Balance
  <1>2. CASE ~ disturbed'
    <2> DEFINE claimAmount == IF a > Balance THEN Balance ELSE a
    <2>1. Alone(c) /\ ~ (Reported # Balance)
      BY <1>2, BeginIsAlone DEF Claim
    <2>2. Balance > 0 /\ op' = [op EXCEPT ![c] = Wanted("CLAIM", - claimAmount, a - claimAmount)]
      BY <2>1 DEF Claim
    <2>3. a \in Nat /\ Balance \in Int
      BY FundAssumption, BalanceIsCommitted DEF IInv
    <2>4. UpToDate(Wanted("CLAIM", - claimAmount, a - claimAmount), Balance, clock')
      BY <2>2, <2>3 DEF UpToDate, Due, Wanted
    <2>5. UpToDate(Wanted("CLAIM", - claimAmount, a - claimAmount), Balance', clock')
      BY <2>4, <1>1
    <2> QED BY <1>1, <2>1, <2>2, <2>5, OneIsUnderWay DEF IInv, TypeOK
  <1> QED BY <1>1, <1>2 DEF SerialInv

LEMMA BeginTxIsSerial ==
  ASSUME IInv, SerialInv, NEW c \in Callers, BeginTx(c)
  PROVE  SerialInv' /\ Balance' = Balance
  <1>1. Balance' = Balance
    BY DEF BeginTx, Balance
  <1>2. CASE ~ disturbed'
    <2> DEFINE o == [op[c] EXCEPT !.step = "read", !.stamp = clock + 1]
    <2>1. op[c] \in Operation
      BY DEF IInv, TypeOK
    <2>2. Alone(c) /\ Due(op[c], Balance)
      BY <1>2 DEF SerialInv, BeginTx, UpToDate
    <2>3. /\ o.step = "read" /\ o.stamp = clock'
          /\ o.type = op[c].type /\ o.amount = op[c].amount /\ o.short = op[c].short
      BY <2>1 DEF BeginTx, Operation
    <2>4. Due(o, Balance')
      <3> HIDE DEF o
      <3> QED BY <2>2, <2>3, <1>1 DEF Due
    <2>5. UpToDate(o, Balance', clock')
      <3> HIDE DEF o
      <3> QED BY <2>3, <2>4 DEF UpToDate
    <2>6. op' = [op EXCEPT ![c] = o]
      BY DEF BeginTx
    <2> QED BY <1>1, <2>2, <2>5, <2>6, OneIsUnderWay DEF IInv, TypeOK
  <1> QED BY <1>1, <1>2 DEF SerialInv

LEMMA ReadPreviousIsSerial ==
  ASSUME IInv, SerialInv, NEW c \in Callers, ReadPrevious(c)
  PROVE  SerialInv' /\ Balance' = Balance
  <1>1. Balance' = Balance
    BY DEF ReadPrevious, Balance
  <1>2. CASE ~ disturbed'
    <2> DEFINE o == [op[c] EXCEPT !.step = "insert", !.seen = Balance]
    <2>1. op[c] \in Operation
      BY DEF IInv, TypeOK
    <2>2. Alone(c) /\ Due(op[c], Balance) /\ op[c].stamp = clock
      BY <1>2 DEF SerialInv, ReadPrevious, UpToDate
    <2>3. /\ o.step = "insert" /\ o.seen = Balance' /\ o.stamp = clock'
          /\ o.type = op[c].type /\ o.amount = op[c].amount /\ o.short = op[c].short
      BY <1>1, <2>1, <2>2 DEF ReadPrevious, Operation
    <2>4. Due(o, Balance')
      <3> HIDE DEF o
      <3> QED BY <2>2, <2>3, <1>1 DEF Due
    <2>5. UpToDate(o, Balance', clock')
      <3> HIDE DEF o
      <3> QED BY <2>3, <2>4 DEF UpToDate
    <2>6. op' = [op EXCEPT ![c] = o]
      BY DEF ReadPrevious
    <2> QED BY <1>1, <2>2, <2>5, <2>6, OneIsUnderWay DEF IInv, TypeOK
  <1> QED BY <1>1, <1>2 DEF SerialInv

LEMMA FailsIsSerial ==
  ASSUME IInv, SerialInv, NEW c \in Callers, Fails(c)
  PROVE  SerialInv' /\ Balance' = Balance
  <1>1. Balance' = Balance
    BY DEF Fails, Balance
  <1>2. CASE ~ disturbed'
    <2>1. Alone(c)
      BY <1>2 DEF SerialInv, Fails
    <2>2. UpToDate(Idle, Balance', clock')
      BY DEF UpToDate, Idle
    <2> QED BY <1>1, <2>1, <2>2, OneIsUnderWay DEF Fails, IInv, TypeOK
  <1> QED BY <1>1, <1>2 DEF SerialInv

\* What is due is a step of the indivisible fund.
LEMMA DueIsAStep ==
  ASSUME NEW o, Balance \in Int, Due(o, Balance), Balance' = Balance + o.amount
  PROVE  Fund!Next
  <1>1. PICK a \in Amounts :
          \/ o.type \in {"CONTRIBUTION", "CARD_RECOVERY"} /\ o.amount = a /\ o.short = 0
          \/ /\ o.type = "CLAIM" /\ Balance > 0
             /\ IF a > Balance THEN o.amount = - Balance /\ o.short = a - Balance
                               ELSE o.amount = - a /\ o.short = 0
          \/ /\ o.type = "COLLECTIONS_REFERRAL" /\ Balance = 0 /\ o.short = 0
             /\ \E s \in 1 .. a - 1 : o.amount = - s
    BY DEF Due
  <1>2. a \in Nat
    BY FundAssumption
  <1>3. CASE o.amount = a
    BY <1>3 DEF Fund!Next, Fund!Deposit
  <1>4. CASE Balance > 0 /\ IF a > Balance THEN o.amount = - Balance ELSE o.amount = - a
    <2>1. Fund!Claim(a)
      BY <1>2, <1>4 DEF Fund!Claim
    <2> QED BY <2>1 DEF Fund!Next
  <1>5. CASE Balance = 0 /\ \E s \in 1 .. a - 1 : o.amount = - s
    <2>1. PICK s \in 1 .. a - 1 : o.amount = - s
      BY <1>5
    <2>2. Fund!Refer(a)
      BY <1>2, <1>5, <2>1 DEF Fund!Refer
    <2> QED BY <2>2 DEF Fund!Next
  <1> QED BY <1>1, <1>3, <1>4, <1>5

LEMMA InsertEntryIsSerial ==
  ASSUME IInv, SerialInv, NEW c \in Callers, InsertEntry(c), ~ disturbed'
  PROVE  SerialInv' /\ Fund!Next
  <1> DEFINE n == op[c].stamp
  <1>1. op[c] \in Operation /\ Balance \in Int
    BY BalanceIsCommitted DEF IInv, TypeOK
  <1>2. Alone(c) /\ Due(op[c], Balance) /\ n = clock /\ op[c].seen = Balance
    BY DEF SerialInv, InsertEntry, UpToDate
  <1>3. n \in 1 .. clock /\ n \notin DOMAIN ledger /\ DOMAIN ledger \subseteq 1 .. clock
    BY DEF IInv, TypeOK, StampsAreFresh, Open, InsertEntry
  <1>4. /\ DOMAIN ledger' = DOMAIN ledger \cup {n}
        /\ ledger'[n].after = op[c].seen + op[c].amount
    BY <1>3 DEF InsertEntry
  <1>5. Max(DOMAIN ledger') = n
    <2>1. n \in DOMAIN ledger' /\ \A t \in DOMAIN ledger' : n >= t
      BY <1>2, <1>3, <1>4
    <2>2. /\ Max(DOMAIN ledger') \in DOMAIN ledger'
          /\ \A t \in DOMAIN ledger' : Max(DOMAIN ledger') >= t
      BY <2>1 DEF Max
    <2> QED BY <2>1, <2>2, <1>3, <1>4
  <1>6. Balance' = Balance + op[c].amount
    BY <1>2, <1>4, <1>5 DEF Balance, BalanceOf
  <1>7. Fund!Next
    BY <1>1, <1>2, <1>6, DueIsAStep
  <1>8. UpToDate(AfterCommit(op[c]), Balance', clock')
    <2>1. CASE op[c].short > 0
      <3>1. PICK a \in Amounts : Balance > 0 /\ a > Balance /\ op[c].amount = - Balance
                                  /\ op[c].short = a - Balance
        BY <1>1, <1>2, <2>1 DEF Due
      <3>2. a \in Nat
        BY FundAssumption
      <3>3. Balance' = 0 /\ op[c].short \in 1 .. a - 1
        BY <1>1, <1>6, <3>1, <3>2
      <3>4. Due(Wanted("COLLECTIONS_REFERRAL", - op[c].short, 0), Balance')
        BY <3>3 DEF Due, Wanted
      <3> QED BY <2>1, <3>4 DEF AfterCommit, UpToDate, Wanted
    <2>2. CASE ~ op[c].short > 0
      BY <2>2 DEF AfterCommit, UpToDate, Idle
    <2> QED BY <2>1, <2>2
  <1>9. op' = [op EXCEPT ![c] = AfterCommit(op[c])]
    BY DEF InsertEntry
  <1> QED BY <1>2, <1>7, <1>8, <1>9, OneIsUnderWay DEF IInv, TypeOK

LEMMA SerialStep ==
  IInv /\ SerialInv /\ [Next]_vars
    => SerialInv' /\ (disturbed' \/ Fund!Next \/ Balance' = Balance)
  <1> SUFFICES ASSUME IInv, SerialInv, [Next]_vars
               PROVE  SerialInv' /\ (disturbed' \/ Fund!Next \/ Balance' = Balance)
    OBVIOUS
  <1>1. CASE disturbed'
    BY <1>1 DEF SerialInv
  <1>2. ASSUME NEW c \in Callers, InsertEntry(c), ~ disturbed' PROVE SerialInv' /\ Fund!Next
    BY <1>2, InsertEntryIsSerial
  <1>3. ASSUME NEW c \in Callers, NEW a \in Amounts,
               \/ Claim(c, a)
               \/ \E type \in {"CONTRIBUTION", "CARD_RECOVERY"} : PayIn(c, type, a)
        PROVE  SerialInv' /\ Balance' = Balance
    BY <1>3, ClaimIsSerial, PayInIsSerial
  <1>4. ASSUME NEW c \in Callers, BeginTx(c) \/ ReadPrevious(c) \/ Fails(c)
        PROVE  SerialInv' /\ Balance' = Balance
    BY <1>4, BeginTxIsSerial, ReadPreviousIsSerial, FailsIsSerial
  <1>5. CASE UNCHANGED vars
    BY <1>5 DEF vars, SerialInv, Alone, Balance
  <1> QED BY <1>1, <1>2, <1>3, <1>4, <1>5 DEF Next

\* Until operations overlap or a balance is misread, every commit is one step of the fund
\* as package guaranteefund describes it.
THEOREM FundRefines == Spec => Implements
  <1>1. Init => Fund!Init
    BY DEF Init, Fund!Init, Balance, BalanceOf
  <1>2. IInv /\ SerialInv /\ [Next]_vars => [disturbed' \/ Fund!Next]_Balance
    BY SerialStep
  <1>3. IInv /\ SerialInv /\ [Next]_vars => IInv' /\ SerialInv'
    BY FundStep, SerialStep
  <1> QED BY FundInit, SerialInit, <1>1, <1>2, <1>3, PTL DEF Spec, Implements

=============================================================================
