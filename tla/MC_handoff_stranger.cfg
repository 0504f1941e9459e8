CONSTANTS
  Workers = {w1, w2, w3}
  Authorized = 3
  MultiCapture = TRUE
  Crashes = TRUE
  Users = {h, r, o}
  Host = h
  Renter = r
  Requests = {w1, w2}
  MaxRows = 4
SPECIFICATION RentalSpec
PROPERTY BothPartiesWereThere
CHECK_DEADLOCK FALSE
