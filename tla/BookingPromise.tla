--------------------------- MODULE BookingPromise ---------------------------
(***************************************************************************)
(* What package booking promises about the status of every booking: a      *)
(* booking is requested only while no live booking overlaps it, and then   *)
(* moves only along AllowedTransitions (statemachine.go: "Any transition   *)
(* not in this map is rejected").                                          *)
(***************************************************************************)

CONSTANTS
  Bookings,   \* booking requests for one listing
  Overlapping \* Overlapping[b]: the requests whose dates overlap those of b

VARIABLE status   \* transactions.status, "none" before the row exists

Status == {"REQUESTED", "ACCEPTED", "ACTIVE", "COMPLETED", "DISPUTED",
           "DECLINED", "AUTO_DECLINED", "CANCELLED"}

\* Statuses that keep the listing's dates taken (IsListingAvailable).
Blocking == {"REQUESTED", "ACCEPTED", "ACTIVE"}

AllowedTransitions ==
  [s \in Status |->
     CASE s = "REQUESTED" -> {"ACCEPTED", "DECLINED", "AUTO_DECLINED", "CANCELLED"}
       [] s = "ACCEPTED"  -> {"ACTIVE", "CANCELLED"}
       [] s = "ACTIVE"    -> {"COMPLETED", "DISPUTED"}
       [] s = "DISPUTED"  -> {"COMPLETED"}
       [] OTHER           -> {}]

CanTransition(from, to) == from \in Status /\ to \in AllowedTransitions[from]

IsListingAvailable(b) == \A o \in Overlapping[b] \ {b} : status[o] \notin Blocking

-----------------------------------------------------------------------------

Init == status = [b \in Bookings |-> "none"]

Request(b) ==
  /\ status[b] = "none"
  /\ IsListingAvailable(b)
  /\ status' = [status EXCEPT ![b] = "REQUESTED"]

Move(b, to) ==
  /\ CanTransition(status[b], to)
  /\ status' = [status EXCEPT ![b] = to]

Next == \E b \in Bookings : Request(b) \/ \E to \in Status : Move(b, to)

Spec == Init /\ [][Next]_status
=============================================================================
