\* Two runs of seed-claims.py with one claim, and nobody else's tips.
SPECIFICATION SSpec
CONSTANTS
  Claims = {"c1"}
  Seeders = {"s1", "s2"}
  MaxExtra = 0
PROPERTIES
  RerunSendsNothing
CHECK_DEADLOCK FALSE
