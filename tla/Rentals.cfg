CONSTANTS
  Day = 1
  IstOffset = 0
  RequestWindow = 1
  DocsWindow = 1
  PaymentWindow = 1
  Calls = {c1, c2}
  Mixes <- Scenes
  MaxFiles = 2
  MaxTries = 2
  MaxPhotos = 1
  Retention = 1
  PublishAfter = 1
  ReviewWindow = 2
  StartsOn = 0
  EndsOn = 0
  MaxTime = 4
  MaxCrashes = 1
SPECIFICATION Spec
INVARIANTS BucketMatchesRows
PROPERTIES OneAnswer CopiesGo ReviewsAppear
CHECK_DEADLOCK FALSE
