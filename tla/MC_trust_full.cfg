CONSTANTS
  Others = {u1, u2}
  Evaluators = {e1, e2}
  Operators = {o1, o2}
  MaxFacts = 2
  MaxFlags = 2
  MaxDecisions = 2
  Handlers = {h1}
  Starters = {s1}
  MaxRetries = 3
  MaxStarts = 1
  MaxDeliveries = 3
  Faults = {"stop", "queue"}
  Ratings = {r1, r2}
  MaxBubbles = 1
  Updaters = {w1, w2}
  MaxHappened = 1
  MaxRecalcs = 2
  Linkers = {w1}
  MaxLogged = 3
  MaxLinks = 2
  MaxEvents = 2
  MaxFaults = 1
  Clauses = {fair, unfair}
  Banned = {unfair}
SPECIFICATION TrustSpec
INVARIANT FlagsHoldUp
INVARIANT TrustTypeOK
INVARIANT BonusPerUpgrade
INVARIANT RatingsAreCounted
INVARIANT CalibrationIsCurrent
INVARIANT ArbiterReadsWhatWasAccepted
PROPERTY OutcomeStands
PROPERTY StalledIsClosed
CHECK_DEADLOCK FALSE
