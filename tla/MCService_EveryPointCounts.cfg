SPECIFICATION ServiceSpec
CONSTANTS
  Scorers = {s1, s2}
  HasTeams = TRUE
  Configs <- MCBoth
  Overrides <- MCNone
  Calls <- MCEachKind
  Records <- MCNone
  MaxEvents = 3
PROPERTY
  EveryPointCounts
CHECK_DEADLOCK FALSE
