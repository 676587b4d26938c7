CONSTANTS
  Texts = {"a", "b"}
  Replies = {"r"}
  Offered = "q"
  Calls = {c1, c2}
  Talks <- SmallTalks
  Listings = {"l1", "l2"}
  Photos = {"p1", "p2"}
  Edits = {e1, e2}
  Jobs = {"l1", "l2", "asked"}
  Desks <- SmallDesks
  Item = "l1"
  Asked = "asked"
  Searches = {"s1", "s2"}
  OwnerOf <- Owner
  Together <- Pairs
SPECIFICATION DiscoverySpec
INVARIANTS OnceEach ReadMeansSeen MaskedUntilPaid AnswersAreInChat PhotosCanBeLoaded FirstIsReviewed ToldOnce
SYMMETRY Symmetry
CHECK_DEADLOCK FALSE
