CONSTANTS
  People = {p1, p2, p3}
  Nobody = Nobody
  Bookings = {b1, b2}
  Calls = {c1, c2}
  Gift = 1
  Limit = 1
  MaxRewards = 1
  MaxTaken = 1
SPECIFICATION CreditsSpec
INVARIANTS NeverOverspent CreditIsAccountedFor CreditComesBack
SYMMETRY Symmetry
CHECK_DEADLOCK FALSE
