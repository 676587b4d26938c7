CONSTANTS
  Requests = {r1, r2, c}
  Workers = {w1}
  Closer = c
  MaxCrashes = 0
  MaxFailures = 0
  Bps = 1000
  Orders = {o1}
  MaxRefunds = 2
  MaxTransfers = 3
  MaxAttempts = 3
  Booking <- CreditNoDeposit
  KeptChoices <- NothingKept
  GoodwillGiven <- SomeGoodwill
  UnpaidCloses <- Expires
  AttemptsFail = FALSE
  CallsOverlap = FALSE
SPECIFICATION Spec
INVARIANTS BooksFollowRazorpay ShareAfterRefund
SYMMETRY Symmetry
CHECK_DEADLOCK FALSE
