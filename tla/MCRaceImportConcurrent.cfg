SPECIFICATION Spec
CONSTANTS
  Jobs = {j1, j2}
  Records <- MCTwoRaces
  SlugOf <- MCSlugOf
  SimilarNames <- MCSimilarNames
  NoVoivodeship = ""
  Days = {1, 2, 3, 4}
  DaysPerYear = 4
  DayLength = 4
  Clocks = {0}
  Near = 2
  MaxRunning = 2
  MaxRecords = 2
  MaxAttempts = 2
SYMMETRY Symmetry
INVARIANTS EveryRaceAnnounced
CHECK_DEADLOCK FALSE
