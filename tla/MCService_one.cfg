SPECIFICATION ServiceSpec
CONSTANTS
  Scorers = {s1}
  HasTeams = TRUE
  Configs <- MCBoth
  Overrides <- MCOverrides
  Calls <- MCAllCalls
  Records <- MCRecords
  MaxEvents = 3
INVARIANTS
  TypeOK
  WinnerMeansCompleted
PROPERTIES
  ImplementsAtomic
  LifecycleFollowsTable
  PauseFreezesScore
CHECK_DEADLOCK FALSE
