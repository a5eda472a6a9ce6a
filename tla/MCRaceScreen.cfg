SPECIFICATION FairScreenSpec
CONSTANTS
  Races = {"bieg", "maraton"}
  Others <- MCOthers
  PerPage = 1
  Null = Null
  MaxPosts = 2
  MaxMoves = 2
INVARIANTS ScreenTypeOK OwnReviewIsTrue
PROPERTIES RaceFollows ReviewsSettle
CHECK_DEADLOCK FALSE
