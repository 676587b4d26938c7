CONSTANTS
  Requests = {r1, c}
  Workers = {w1}
  Closer = c
  MaxCrashes = 1
  MaxFailures = 1
  Bps = 1000
  Orders = {o1}
  MaxTransfers = 2
  MaxAttempts = 2
  Rent = 15
  Kept = 3
  AccountMoves <- Activation
  AdminRetries = TRUE
SPECIFICATION PayoutsSpec
INVARIANTS BooksFollowRazorpay HeldUntilOver
CHECK_DEADLOCK FALSE
