SPECIFICATION Spec
CONSTANTS
  Races = {"bieg", "maraton"}
  None = None
  MaxVisits = 2
  MaxClicks = 2
INVARIANTS RemovalNamesItsRace
CHECK_DEADLOCK FALSE
