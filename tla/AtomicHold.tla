----------------------------- MODULE AtomicHold -----------------------------
(***************************************************************************)
(* What the payment package promises about the security hold of one        *)
(* booking: every capture and every release of it is one indivisible step  *)
(* on the hold allocation (payment.Service, "CaptureFromHold atomically    *)
(* captures an amount from the security hold").                            *)
(***************************************************************************)
EXTENDS Naturals

CONSTANT Authorized   \* HoldAllocation.TotalAuthorized, in cents, a natural number

VARIABLE alloc        \* transactions.hold_allocation

CaptureReason == {"late_fee", "damage"}

Allocation == [late : Nat, damage : Nat, released : Nat, remaining : Nat]

\* The allocation CreateBooking stores: nothing drawn, everything remains.
InitAlloc == [late |-> 0, damage |-> 0, released |-> 0, remaining |-> Authorized]

\* The allocation after `amount` has been captured for `reason`.
AfterCapture(a, amount, reason) ==
  [late      |-> a.late + (IF reason = "late_fee" THEN amount ELSE 0),
   damage    |-> a.damage + (IF reason = "damage" THEN amount ELSE 0),
   released  |-> a.released,
   remaining |-> a.remaining - amount]

\* The allocation after everything that remains has been released.
AfterRelease(a) ==
  [late |-> a.late, damage |-> a.damage, released |-> a.remaining, remaining |-> 0]

-----------------------------------------------------------------------------

Init == alloc = InitAlloc

Capture(amount, reason) ==
  /\ amount <= alloc.remaining
  /\ alloc' = AfterCapture(alloc, amount, reason)

Release ==
  /\ alloc.released = 0
  /\ alloc' = AfterRelease(alloc)

Next ==
  \/ \E amount \in 1 .. alloc.remaining, reason \in CaptureReason : Capture(amount, reason)
  \/ Release

Spec == Init /\ [][Next]_alloc
=============================================================================
