CONSTANTS
  Requests = {r1, c}
  Workers = {w1}
  Closer = c
  MaxCrashes = 0
  MaxFailures = 1
  Bps = 1000
  Orders = {o1}
  MaxRefunds = 2
  MaxTransfers = 3
  MaxAttempts = 3
  Booking <- CashOnly
  KeptChoices <- SomeKept
  GoodwillGiven <- NoGoodwill
  UnpaidCloses <- Expires
  AttemptsFail = TRUE
  CallsOverlap = FALSE
SPECIFICATION FairSpec
PROPERTIES AccountsClear LateMoneyComesBack
CHECK_DEADLOCK FALSE
