CONSTANTS
  Handlers = {h1}
  Starters = {s1}
  MaxRetries = 3
  MaxStarts = 1
  MaxEvents = 1
  MaxDeliveries = 1
  Faults = {}
  MaxFaults = 0
SPECIFICATION FairSpec
PROPERTY StalledIsEscalated
CHECK_DEADLOCK FALSE
