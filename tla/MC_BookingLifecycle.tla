------------------------ MODULE MC_BookingLifecycle ------------------------
(* Instances of BookingLifecycle for TLC. *)
EXTENDS BookingLifecycle, TLC

\* Every request is for the same dates.
AllOverlap == [b \in Bookings |-> Bookings]
=============================================================================
