----------------------------- MODULE AtomicFund -----------------------------
(***************************************************************************)
(* What package guaranteefund promises: one balance, every ledger entry an *)
(* indivisible step on it, a claim that draws only what is there ("only    *)
(* the available amount is disbursed"), and collections for the rest.  A   *)
(* referral is booked as a withdrawal too, which the balance shows.        *)
(***************************************************************************)
EXTENDS Integers

CONSTANT Amounts   \* amounts of single operations, in cents

VARIABLE balance

Init == balance = 0

\* Contribute and RecordCardRecovery.
Deposit(a) == balance' = balance + a

Claim(a) ==
  /\ balance > 0
  /\ balance' = IF a > balance THEN 0 ELSE balance - a

\* RecordCollectionsReferral: what is left of a claim on a that emptied the fund.
Refer(a) ==
  /\ balance = 0
  /\ balance' \in 1 - a .. -1

Next == \E a \in Amounts : Deposit(a) \/ Claim(a) \/ Refer(a)

Spec == Init /\ [][Next]_balance
=============================================================================
