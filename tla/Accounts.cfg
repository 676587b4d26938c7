CONSTANTS
  Codes = {k1, k2}
  Issues = {i1}
  Guesses = {g1, g2}
  MaxAttempts = 2
  MaxFailures = 2
  MaxRequests = 1
  Sids = {s1}
  Rotations = {c1, c2}
  MaxTokens = 3
  Realm = "USER"
  Pages = {p1, p2}
  Kinds = {"APP", "WEB"}
SPECIFICATION Spec
INVARIANTS GuessesBounded OneSessionPerCode OneLiveToken ReuseOnlyAfterFault
SYMMETRY Symmetry
CHECK_DEADLOCK FALSE
