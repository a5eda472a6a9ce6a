SPECIFICATION Spec
CONSTANTS
  Users = {u1}
  RaceIds = {r1}
  Catalogue = {r1}
  Requests = {q1, q2, q3}
  Ratings = {2, 5}
  MaxInFlight = 2
  MaxRetries = 1
  MaxDeaths = 1
  None = None
INVARIANTS OneReviewPerUserAndRace
CHECK_DEADLOCK FALSE
