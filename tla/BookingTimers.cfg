CONSTANTS
  Day = 2
  IstOffset = 1
  RequestWindow = 1
  DocsWindow = 1
  PaymentWindow = 1
  Ids = {b1}
  Borrowers = {ana}
  Calls = {c1}
  None = None
  FirstDays <- SecondDay
  MaxDays = 2
  MaxTime = 9
  QueueUp <- UpOrDown
  Concurrency = 1
  MaxRestarts = 1
SPECIFICATION FairSpec
PROPERTIES OnlyOverdueExpire FullClaimWindow UnansweredCloses ReturnsSettle
CHECK_DEADLOCK FALSE
