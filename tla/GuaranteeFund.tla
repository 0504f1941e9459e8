--------------------------- MODULE GuaranteeFund ---------------------------
(***************************************************************************)
(* The ledger of package guaranteefund.  An entry carries balance_after,   *)
(* computed from the entry that is latest by created_at, and nothing locks *)
(* the ledger between that read and the insertion.  created_at defaults to *)
(* NOW(), which in Postgres is the START of the inserting database         *)
(* transaction: an entry can be committed after one with a later stamp.    *)
(*                                                                         *)
(* Callers: CreateBooking (Contribute), CaptureAndEscalate (Claim, then    *)
(* RecordCollectionsReferral for what the fund could not cover), and       *)
(* RecordCardRecovery.                                                     *)
(***************************************************************************)
EXTENDS Integers, FiniteSets, FiniteSetsExt

CONSTANTS
  Callers,     \* requests and workers that may be inside a fund operation
  Amounts,     \* amounts of single operations, in cents
  Truncated,   \* balances that int64(balance * 100) reports one cent too low
  MaxEntries   \* bound on the database transactions opened

ASSUME FundAssumption ==
  /\ Amounts \subseteq Nat \ {0}
  /\ Truncated \subseteq Nat \ {0}
  /\ MaxEntries \in Nat

VARIABLES
  ledger,   \* guarantee_fund_entries: created_at -> entry
  clock,    \* NOW()
  op,       \* op[c]: caller c's current operation
  disturbed \* whether operations have ever overlapped, or a misread balance was used

vars == <<ledger, clock, op, disturbed>>

EntryType == {"CONTRIBUTION", "CLAIM", "CARD_RECOVERY", "COLLECTIONS_REFERRAL"}
Operation == [step : {"idle", "begin", "read", "insert"}, type : EntryType,
              amount : Int, short : Nat, stamp : Nat, seen : Int]
Entry == [type : EntryType, amount : Int, after : Int]
Idle == [step |-> "idle", type |-> "CLAIM", amount |-> 0, short |-> 0, stamp |-> 0, seen |-> 0]
\* An operation before its transaction; a claim also knows what it cannot draw.
Wanted(type, amount, short) ==
  [step |-> "begin", type |-> type, amount |-> amount, short |-> short, stamp |-> 0, seen |-> 0]

\* The balance: balance_after of the latest entry by created_at.
BalanceOf(l) == IF DOMAIN l = {} THEN 0 ELSE l[Max(DOMAIN l)].after
Balance == BalanceOf(ledger)

\* What GetCurrentBalance returns: the balance goes through a binary floating-point
\* number of dollars and is cut off, so that $0.29 is 28 cents.
Reported == IF Balance \in Truncated THEN Balance - 1 ELSE Balance

TypeOK ==
  /\ clock \in Nat
  /\ DOMAIN ledger \subseteq 1 .. clock
  /\ \A t \in DOMAIN ledger : ledger[t] \in Entry
  /\ op \in [Callers -> Operation]
  /\ disturbed \in BOOLEAN

Init ==
  /\ ledger = [t \in {} |-> Idle]
  /\ clock = 0
  /\ op = [c \in Callers |-> Idle]
  /\ disturbed = FALSE

-----------------------------------------------------------------------------

Begin(c, misread) ==
  /\ op[c].step = "idle"
  /\ disturbed' = (disturbed \/ misread \/ \E d \in Callers : op[d].step # "idle")

\* Contribute and RecordCardRecovery: the amount is known, the transaction comes next.
PayIn(c, type, amount) ==
  /\ Begin(c, FALSE)
  /\ type \in {"CONTRIBUTION", "CARD_RECOVERY"}
  /\ op' = [op EXCEPT ![c] = Wanted(type, amount, 0)]
  /\ UNCHANGED <<ledger, clock>>

\* Slip: the claim is not cut down to the balance.
ClaimUncapped(c, amount) ==
  /\ Begin(c, Reported # Balance)
  /\ Reported > 0
  /\ op' = [op EXCEPT ![c] = Wanted("CLAIM", - amount, 0)]
  /\ UNCHANGED <<ledger, clock>>

\* Slip: the shortfall is taken the wrong way round.
ClaimReversed(c, amount) ==
  LET claimAmount == IF amount > Reported THEN Reported ELSE amount IN
  /\ Begin(c, Reported # Balance)
  /\ Reported > 0
  /\ op' = [op EXCEPT ![c] = Wanted("CLAIM", - claimAmount, claimAmount - amount)]
  /\ UNCHANGED <<ledger, clock>>

\* Claim reads the balance outside any transaction and cuts the amount down to it; an
\* empty fund is ErrFundEmpty.
Claim(c, amount) ==
  LET claimAmount == IF amount > Reported THEN Reported ELSE amount IN
  /\ Begin(c, Reported # Balance)
  /\ Reported > 0
  /\ op' = [op EXCEPT ![c] = Wanted("CLAIM", - claimAmount, amount - claimAmount)]
  /\ UNCHANGED <<ledger, clock>>

\* BeginTx: the entry's created_at is fixed here.
BeginTx(c) ==
  /\ op[c].step = "begin"
  /\ clock < MaxEntries
  /\ clock' = clock + 1
  /\ op' = [op EXCEPT ![c] = [@ EXCEPT !.step = "read", !.stamp = clock + 1]]
  /\ UNCHANGED <<ledger, disturbed>>

\* InsertEntry, first statement: the previous balance_after.
ReadPrevious(c) ==
  /\ op[c].step = "read"
  /\ op' = [op EXCEPT ![c] = [@ EXCEPT !.step = "insert", !.seen = Balance]]
  /\ UNCHANGED <<ledger, clock, disturbed>>

\* What the caller does next: CaptureAndEscalate refers a claim's shortfall.
AfterCommit(o) ==
  IF o.short > 0
  THEN Wanted("COLLECTIONS_REFERRAL", - o.short, 0)
  ELSE Idle

\* Slip: the balance grows with every entry, whatever its sign.
InsertEntryUnsigned(c) ==
  LET size == IF op[c].amount < 0 THEN - op[c].amount ELSE op[c].amount IN
  /\ op[c].step = "insert"
  /\ ledger' = [t \in DOMAIN ledger \cup {op[c].stamp} |->
                  IF t = op[c].stamp
                  THEN [type |-> op[c].type, amount |-> op[c].amount, after |-> op[c].seen + size]
                  ELSE ledger[t]]
  /\ op' = [op EXCEPT ![c] = AfterCommit(op[c])]
  /\ UNCHANGED <<clock, disturbed>>

\* InsertEntry, second statement, and the commit.
InsertEntry(c) ==
  /\ op[c].step = "insert"
  /\ ledger' = [t \in DOMAIN ledger \cup {op[c].stamp} |->
                  IF t = op[c].stamp
                  THEN [type   |-> op[c].type,
                        amount |-> op[c].amount,
                        after  |-> op[c].seen + op[c].amount]
                  ELSE ledger[t]]
  /\ op' = [op EXCEPT ![c] = AfterCommit(op[c])]
  /\ UNCHANGED <<clock, disturbed>>

\* The database fails: everything since BeginTx is rolled back, the caller gives up.
Fails(c) ==
  /\ op[c].step # "idle"
  /\ op' = [op EXCEPT ![c] = Idle]
  /\ UNCHANGED <<ledger, clock, disturbed>>

Next ==
  \E c \in Callers :
    \/ \E a \in Amounts :
         Claim(c, a) \/ \E type \in {"CONTRIBUTION", "CARD_RECOVERY"} : PayIn(c, type, a)
    \/ BeginTx(c) \/ ReadPrevious(c) \/ InsertEntry(c) \/ Fails(c)

Spec == Init /\ [][Next]_vars

-----------------------------------------------------------------------------
(* Properties.                                                             *)

\* Even when entries overwrite each other's balance, every balance_after continues
\* some other committed entry (or an empty ledger): none is computed from nothing.
BalancesContinue ==
  \A t \in DOMAIN ledger :
    ledger[t].after - ledger[t].amount \in {0} \cup {ledger[s].after : s \in DOMAIN ledger \ {t}}

\* As long as no two operations overlapped, and no balance was misread, each commit is one
\* indivisible deposit, claim or referral: no claim takes more than there is, and only what an emptied fund
\* could not pay is referred.
Fund == INSTANCE AtomicFund WITH balance <- Balance
Implements == Fund!Init /\ [][disturbed' \/ Fund!Next]_Balance

=============================================================================
