CONSTANTS
  Requests = {r1, r2, c}
  Workers = {w1}
  Closer = c
  Second = r2
  MaxCrashes = 1
  MaxFailures = 0
  Bps = 1000
  Orders = {o1, o2}
  MaxRefunds = 3
  MaxTransfers = 3
  MaxAttempts = 3
  Booking <- CashOnly
  KeptChoices <- SomeKept
  GoodwillGiven <- NoGoodwill
  UnpaidCloses <- ExpiresOrIsCancelled
  AttemptsFail = FALSE
  CallsOverlap = TRUE
SPECIFICATION Spec
INVARIANTS EveryPaymentHasAPurpose OneRefundPerReason BooksFollowRazorpay DepositCovered ShareAfterRefund
CONSTRAINT Shortened
SYMMETRY OrderSymmetry
CHECK_DEADLOCK FALSE
