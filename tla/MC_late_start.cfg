CONSTANTS
  Workers = {w1}
  Authorized = 5
  Cap = 3
  Rate = 1
  Threshold = 2
  MaxTime = 4
  Features = {}
SPECIFICATION FairSpec
PROPERTY LateIsCharged
CHECK_DEADLOCK FALSE
