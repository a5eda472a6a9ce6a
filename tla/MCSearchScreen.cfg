SPECIFICATION FairSpec
CONSTANTS
  Terms = {"maraton"}
  Distances = {"42"}
  Voivodeships = {"pomorskie"}
  DateRanges = {"maj"}
  Areas = {"polska", "tatry"}
  Pages = 2
  None = None
  MaxMoves = 3
INVARIANTS TypeOK UrlIsWanted
PROPERTIES ListFollows MapFollows
CHECK_DEADLOCK FALSE
