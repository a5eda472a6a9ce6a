SPECIFICATION Spec
CONSTANTS
  Races = {"bieg", "maraton"}
  None = None
  MaxVisits = 2
  MaxClicks = 2
INVARIANTS TypeOK WatchedOnce HeartsAreTrue
CHECK_DEADLOCK FALSE
