SPECIFICATION Spec
CONSTANTS
  Tabs = {"left", "right"}
  Users = {"ala", "ola", "ula"}
  Registered = {"ala", "ola"}
  Names = {"A", "B"}
  None = None
  MaxLogins = 3
  MaxMoves = 3
INVARIANTS TypeOK NameIsTrue
PROPERTIES TokenGoesForAReason
CHECK_DEADLOCK FALSE
