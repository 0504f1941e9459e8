CONSTANTS
  Bookings = {b1, b2}
  Overlapping <- AllOverlap
  Faults = {}
  MaxFaults = 0
SPECIFICATION Spec
INVARIANT NoDoubleBooking
