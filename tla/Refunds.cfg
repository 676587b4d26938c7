CONSTANTS
  Requests = {r1, r2}
  Workers = {w1}
  MaxCrashes = 1
  MaxFailures = 1
  Bps = 1000
  Orders = {o1}
  MaxRefunds = 2
  MaxAttempts = 2
  Rent = 15
  Charged <- FifteenEach
  Callers <- AnyCaller
  LostAnswers = TRUE
SPECIFICATION FairSpec
INVARIANTS SentOnce BooksFollowRazorpay
PROPERTIES FailedRefundsRetried
CHECK_DEADLOCK FALSE
