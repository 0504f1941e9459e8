CONSTANTS
  Bookings = {b1, b2}
  Overlapping <- AllOverlap
  Faults = {"stripe", "release", "database", "queue", "job"}
  MaxFaults = 1
SPECIFICATION FairSpec
INVARIANT OnlyRacesDoubleBook
INVARIANT PaidBeforeRow
PROPERTY KeepsPromise
PROPERTY DeclinedInTheEnd
CHECK_DEADLOCK FALSE
