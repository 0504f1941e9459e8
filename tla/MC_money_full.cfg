CONSTANTS
  Callers = {w1, w2}
  Amounts = {28, 29}
  Truncated = {29, 57, 58, 113, 114, 115, 116}
  MaxEntries = 4
  Workers = {w1, w2}
  Authorized = 5
  Cap = 3
  Rate = 1
  Threshold = 2
  MaxTime = 4
  LateFeatures = {"overlap", "crash", "queue", "logged", "conflict", "damage"}
  Referees = {r1}
  Checkouts = {c1, c2}
  Limit = 0
  MaxPayouts = 4
  MaxPaid = 2
  MaxEvents = 3
  ReferralFeatures = {"twice", "crash", "stripe", "lost", "queue", "database", "startup", "fraud"}
SPECIFICATION MoneySpec
SYMMETRY Symmetry
INVARIANT MoneyTypeOK
INVARIANT BalancesContinue
INVARIANT ReserveKept
INVARIANT FeeWasCaptured
INVARIANT MonitoringGoesOn
INVARIANT PaidOnce
INVARIANT MoneyLeavesATrace
PROPERTY Implements
CHECK_DEADLOCK FALSE
