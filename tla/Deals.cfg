CONSTANTS
  Day = 2
  IstOffset = 1
  RequestWindow = 2
  DocsWindow = 2
  PaymentWindow = 1
  Ids = {b1, b2}
  Borrowers = {ana, ben}
  Ana = ana
  Scenes <- SmallScenes
  Calls = {c1, c2}
  Offers = {o1, o2}
  None = None
  NoOffer = NoOffer
  FirstDays <- Pair
  MaxDays = 2
  MaxTime = 0
  QueueUp <- Down
  Concurrency = 1
  MaxRestarts = 0
SPECIFICATION DealsSpec
INVARIANTS NoDoubleBooking OneBookingPerOffer DealsAreBooked
PROPERTIES CalendarKept
SYMMETRY DealSymmetry
CHECK_DEADLOCK FALSE
