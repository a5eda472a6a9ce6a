SPECIFICATION FairSpec
CONSTANTS
  Races = {r1}
  Writers = {w1, w2}
  Searches = {s1}
  TTL = 2
  MaxVersion = 2
  MaxReindexings = 1
  MaxFailures = 1
INVARIANTS TypeOK StalePagesAreExplained IndexFollows
PROPERTIES PagesConverge
CHECK_DEADLOCK FALSE
