----------------------------- MODULE HoldLedger -----------------------------
(***************************************************************************)
(* The security hold of one booking as package payment draws from it.      *)
(* CaptureFromHold and ReleaseHold each run in three steps that other      *)
(* callers can interleave with: read the transaction row without a lock,   *)
(* call Stripe, then overwrite hold_allocation with a value computed from  *)
(* the row that was read.  The row is locked only during the overwrite.    *)
(*                                                                         *)
(* Callers are the River workers of the late-return and dispute packages   *)
(* and the human reviewer's HTTP handler.                                  *)
(***************************************************************************)
EXTENDS Naturals, FiniteSets

CONSTANTS
  Workers,       \* goroutines that may be inside a hold operation
  Authorized,    \* amount authorized at booking
  MultiCapture,  \* TRUE: Stripe accepts several partial captures of one intent
  Crashes        \* TRUE: a caller may die, or its database write fail, half way

ASSUME HoldAssumption ==
  /\ Authorized \in Nat \ {0}
  /\ MultiCapture \in BOOLEAN
  /\ Crashes \in BOOLEAN

VARIABLES
  alloc,       \* transactions.hold_allocation
  holdStatus,  \* transactions.hold_status
  intent,      \* the Stripe PaymentIntent: what was really captured, cancelled or not
  pc,          \* pc[w]: how far worker w's current operation has come
  req,         \* req[w]: amount and reason w was asked to capture
  snap,        \* snap[w]: hold_allocation as w read it
  disturbed    \* whether two operations have ever overlapped, or a caller died

vars == <<alloc, holdStatus, intent, pc, req, snap, disturbed>>

Hold == INSTANCE AtomicHold

HoldStatus == {"AUTHORIZED", "PARTIALLY_CAPTURED", "CAPTURED", "RELEASED"}
Steps == {"idle", "capturing", "captured", "releasing", "released"}
NoRequest == [amount |-> 0, reason |-> "damage"]

Captured(a) == a.late + a.damage

TypeOK ==
  /\ alloc \in Hold!Allocation
  /\ holdStatus \in HoldStatus
  /\ intent \in [captured : Nat, cancelled : BOOLEAN]
  /\ pc \in [Workers -> Steps]
  /\ req \in [Workers -> [amount : Nat, reason : Hold!CaptureReason]]
  /\ snap \in [Workers -> Hold!Allocation]
  /\ disturbed \in BOOLEAN

Init ==
  /\ alloc = Hold!InitAlloc
  /\ holdStatus = "AUTHORIZED"
  /\ intent = [captured |-> 0, cancelled |-> FALSE]
  /\ pc = [w \in Workers |-> "idle"]
  /\ req = [w \in Workers |-> NoRequest]
  /\ snap = [w \in Workers |-> Hold!InitAlloc]
  /\ disturbed = FALSE

-----------------------------------------------------------------------------
(* Stripe, as stripe.go uses it (external).                                *)

\* Stripe refuses to capture a cancelled intent or more than was authorized; by
\* default it accepts a single capture and drops the rest of the authorization.
CanCapture(amount) ==
  /\ ~ intent.cancelled
  /\ intent.captured + amount <= Authorized
  /\ MultiCapture \/ intent.captured = 0

\* An intent can be cancelled once, and not after a final capture.
CanCancel ==
  /\ ~ intent.cancelled
  /\ MultiCapture \/ intent.captured = 0

-----------------------------------------------------------------------------
(* The operations of payment.Service.                                      *)

\* Nothing keeps an operation from beginning while another is under way.
Begin(w) ==
  /\ pc[w] = "idle"
  /\ disturbed' = (disturbed \/ \E v \in Workers : pc[v] # "idle")

\* The caller returns, with or without an error; what it read is forgotten.
Return(w) ==
  /\ pc' = [pc EXCEPT ![w] = "idle"]
  /\ req' = [req EXCEPT ![w] = NoRequest]
  /\ snap' = [snap EXCEPT ![w] = Hold!InitAlloc]

\* GetTransaction, then the check against the remaining amount just read.
BeginCapture(w, amount, reason) ==
  /\ Begin(w)
  /\ amount <= alloc.remaining
  /\ pc' = [pc EXCEPT ![w] = "capturing"]
  /\ req' = [req EXCEPT ![w] = [amount |-> amount, reason |-> reason]]
  /\ snap' = [snap EXCEPT ![w] = alloc]
  /\ UNCHANGED <<alloc, holdStatus, intent>>

StripeCapture(w) ==
  /\ pc[w] = "capturing"
  /\ CanCapture(req[w].amount)
  /\ intent' = [intent EXCEPT !.captured = @ + req[w].amount]
  /\ pc' = [pc EXCEPT ![w] = "captured"]
  /\ UNCHANGED <<alloc, holdStatus, req, snap, disturbed>>

\* Slip: remaining is taken from the locked row, the captured totals from the snapshot.
RecordCaptureHalfFresh(w) ==
  LET updated == [Hold!AfterCapture(snap[w], req[w].amount, req[w].reason)
                    EXCEPT !.remaining = alloc.remaining - req[w].amount] IN
  /\ pc[w] = "captured"
  /\ alloc' = updated
  /\ holdStatus' = IF updated.remaining = 0 THEN "CAPTURED" ELSE "PARTIALLY_CAPTURED"
  /\ Return(w)
  /\ UNCHANGED <<intent, disturbed>>

\* Slip: the row is written without waiting for Stripe's answer.
RecordCaptureEarly(w) ==
  LET updated == Hold!AfterCapture(snap[w], req[w].amount, req[w].reason) IN
  /\ pc[w] \in {"capturing", "captured"}
  /\ alloc' = updated
  /\ holdStatus' = IF updated.remaining = 0 THEN "CAPTURED" ELSE "PARTIALLY_CAPTURED"
  /\ Return(w)
  /\ UNCHANGED <<intent, disturbed>>

\* Slip: the function returns before UpdateHoldAllocation.
RecordCaptureForgotten(w) ==
  /\ pc[w] = "captured"
  /\ Return(w)
  /\ UNCHANGED <<alloc, holdStatus, intent, disturbed>>

\* The database transaction: lock the row, overwrite it from the snapshot, commit.
RecordCapture(w) ==
  LET updated == Hold!AfterCapture(snap[w], req[w].amount, req[w].reason) IN
  /\ pc[w] = "captured"
  /\ alloc' = updated
  /\ holdStatus' = IF updated.remaining = 0 THEN "CAPTURED" ELSE "PARTIALLY_CAPTURED"
  /\ Return(w)
  /\ UNCHANGED <<intent, disturbed>>

BeginRelease(w) ==
  /\ Begin(w)
  /\ pc' = [pc EXCEPT ![w] = "releasing"]
  /\ snap' = [snap EXCEPT ![w] = alloc]
  /\ UNCHANGED <<alloc, holdStatus, intent, req>>

StripeRelease(w) ==
  /\ pc[w] = "releasing"
  /\ CanCancel
  /\ intent' = [intent EXCEPT !.cancelled = TRUE]
  /\ pc' = [pc EXCEPT ![w] = "released"]
  /\ UNCHANGED <<alloc, holdStatus, req, snap, disturbed>>

\* Slip: the released amount is not kept.
RecordReleaseDropsAmount(w) ==
  /\ pc[w] = "released"
  /\ alloc' = [snap[w] EXCEPT !.remaining = 0]
  /\ holdStatus' = "RELEASED"
  /\ Return(w)
  /\ UNCHANGED <<intent, disturbed>>

RecordRelease(w) ==
  /\ pc[w] = "released"
  /\ alloc' = Hold!AfterRelease(snap[w])
  /\ holdStatus' = "RELEASED"
  /\ Return(w)
  /\ UNCHANGED <<intent, disturbed>>

\* Stripe refuses or cannot be reached: the operation returns the error.
StripeFails(w) ==
  /\ pc[w] \in {"capturing", "releasing"}
  /\ Return(w)
  /\ UNCHANGED <<alloc, holdStatus, intent, disturbed>>

\* The process dies, or the write fails, after Stripe has acted and before the
\* commit.  A lost answer of Stripe has the same effect.
Crash(w) ==
  /\ Crashes
  /\ pc[w] \in {"captured", "released"}
  /\ Return(w)
  /\ disturbed' = TRUE
  /\ UNCHANGED <<alloc, holdStatus, intent>>

Next ==
  \E w \in Workers :
    \/ \E amount \in 1 .. Authorized, reason \in Hold!CaptureReason :
          BeginCapture(w, amount, reason)
    \/ StripeCapture(w)
    \/ RecordCapture(w)
    \/ BeginRelease(w)
    \/ StripeRelease(w)
    \/ RecordRelease(w)
    \/ StripeFails(w)
    \/ Crash(w)

Spec == Init /\ [][Next]_vars

-----------------------------------------------------------------------------
(* Properties.                                                             *)

\* Whatever the interleaving, the stored allocation adds up to the amount authorized:
\* no stale overwrite by CaptureFromHold or ReleaseHold invents or loses cents.
Balanced == Captured(alloc) + alloc.released + alloc.remaining = Authorized

\* The ledger never claims a capture Stripe did not make, even when two captures
\* overwrite each other or a caller dies between Stripe and the database.
NoPhantomCapture == Captured(alloc) <= intent.captured

\* Money is recorded as released only after the intent was cancelled, so a second
\* ReleaseHold can never replace the released amount by zero.
ReleaseIsReal == alloc.released > 0 => intent.cancelled

\* When nobody is inside a hold operation the ledger records exactly what Stripe
\* captured ("all captures are atomic database operations").
LedgerExact ==
  (\A w \in Workers : pc[w] = "idle") => Captured(alloc) = intent.captured

\* The ledger is exact as long as no two operations overlapped and no caller died,
\* whatever Stripe refused meanwhile.
ExactUndisturbed == ~ disturbed => LedgerExact

\* Until then every commit of CaptureFromHold and ReleaseHold is one step of the promised
\* indivisible hold: the value written follows from the value overwritten.
Implements == Hold!Init /\ [][disturbed' \/ Hold!Next]_alloc

=============================================================================
