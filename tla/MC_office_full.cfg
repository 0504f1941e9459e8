CONSTANTS
  Appraisers = {w1, w2}
  Worths = {20000, 60000}
  Prices = {0, 29}
  ShortOfACent = {29}
  Durations = {0, 25}
  TakeRateBPS = 2000
  GuaranteeRateBPS = 1000
  DamageReserveRate = 4000
  DayLength = 3
  QuietStarts = {0, 2}
  QuietEnds = {0, 1}
  Notices = {n1}
  Tokens = {t1, t2}
  Malformed = {t1}
  MaxChanges = 1
  MaxLosses = 1
  Senders = {w1, w2}
  Readers = {p1}
  MaxMessages = 5
  PageSize = 2
  Devices = {w1, w2}
  Slots = {1, 2}
  MaxTokens = 3
  MaxFaults = 1
  Setups = {w1, w2}
  MaxObjects = 3
  MaxErrors = 1
  Items = {i1, i2}
  Runners = {w1, w2}
  MaxQueued = 2
  Hosts = {h1, h2}
  MaxListings = 3
  Limit = 2
  Far = {2}
  MaxRequests = 1
SPECIFICATION OfficeSpec
SYMMETRY Symmetry
CONSTRAINT NotBooked
INVARIANT OfficeTypeOK
INVARIANT AmountsAddUp
INVARIANT ScanIsWhole
INVARIANT OneDeviceIsIn
INVARIANT CardIsTheChargedOnes
INVARIANT StatusIsTrue
INVARIANT FeedIsWhole
PROPERTY QuoteStands
PROPERTY QuietIsKept
CHECK_DEADLOCK FALSE
