SPECIFICATION Spec
CONSTANTS
  Jobs = {j1, j2}
  Records <- MCRecords
  SlugOf <- MCSlugOf
  SimilarNames <- MCSimilarNames
  NoVoivodeship = ""
  Days = {1, 2, 3, 4}
  DaysPerYear = 4
  DayLength = 4
  Clocks = {0, 2}
  Near = 2
  MaxRunning = 1
  MaxRecords = 2
  MaxAttempts = 2
SYMMETRY Symmetry
INVARIANTS TypeOK IndexInSync EveryRaceAnnounced OneEditionPerYear
PROPERTIES NoNearDuplicateCreated EnrichmentOnlyAdds
CHECK_DEADLOCK FALSE
