CONSTANTS
  Disputes = {d1}
  Actors = {a1}
  Authorized = 1
  FundStarts = {1}
  Charges = {2}
  AuditAbove = 2
  HumanAbove = 2
  Features = {"crash"}
  MaxEvents = 1
SPECIFICATION Spec
INVARIANT ChargedOnce
CHECK_DEADLOCK FALSE
