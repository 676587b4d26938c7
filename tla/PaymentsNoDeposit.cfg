CONSTANTS
  Requests = {r1, c}
  Workers = {w1}
  Closer = c
  MaxCrashes = 0
  MaxFailures = 0
  Bps = 1000
  Orders = {o1}
  MaxRefunds = 2
  MaxTransfers = 3
  MaxAttempts = 3
  Booking <- NoDeposit
  KeptChoices <- NothingKept
  GoodwillGiven <- NoGoodwill
  UnpaidCloses <- Expires
  AttemptsFail = TRUE
  CallsOverlap = FALSE
SPECIFICATION Spec
INVARIANTS OneShareOfKeptRent
CHECK_DEADLOCK FALSE
