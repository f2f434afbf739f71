SPECIFICATION ServiceSpec
CONSTANTS
  Scorers = {s1, s2}
  HasTeams = TRUE
  Configs <- MCRally
  Overrides <- MCOneOverride
  Calls <- MCBusyCalls
  Records <- MCPoint
  MaxEvents = 3
INVARIANTS
  LogExplainsBoard
  FreshInv
  NoSkippedGame
  ScoreBackedByPoints
PROPERTIES
  FreshRequestsAreAtomic
SYMMETRY ScorerSymmetry
CHECK_DEADLOCK FALSE
