SPECIFICATION FairSpec
CONSTANTS
  Users = {u1, u2}
  RaceIds = {r1}
  Catalogue = {r1}
  Requests = {q1, q2, q3}
  Ratings = {2, 5, 6}
  MaxInFlight = 2
  MaxRetries = 1
  MaxDeaths = 1
  None = None
INVARIANTS TypeOK StaleOnlyWhilePending
PROPERTIES OnlyTheAuthorRemoves RatingsConverge
CHECK_DEADLOCK FALSE
