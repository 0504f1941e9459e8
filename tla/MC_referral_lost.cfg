CONSTANTS
  Referees = {r1}
  Checkouts = {c1}
  Workers = {w1}
  Limit = 5
  MaxPayouts = 2
  MaxPaid = 1
  MaxEvents = 1
  Features = {"crash"}
SPECIFICATION FairSpec
PROPERTY PaidInTheEnd
CHECK_DEADLOCK FALSE
