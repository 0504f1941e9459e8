CONSTANTS
  Disputes = {d1, d2}
  Actors = {a1, a2}
  Authorized = 1
  FundStarts = {0, 1}
  Charges = {0, 2}
  AuditAbove = 1
  HumanAbove = 2
  Features = {"model", "stripe", "crash", "evidence", "approve", "queue", "race"}
  MaxEvents = 1
SPECIFICATION FairSpec
INVARIANT ChargedAsDecided
INVARIANT DrawnInOrder
PROPERTY HumanDecidesFirst
PROPERTY ProcessedInTheEnd
CHECK_DEADLOCK FALSE
