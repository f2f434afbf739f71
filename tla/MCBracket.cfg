SPECIFICATION Spec
CONSTANTS
  Organisers = {o1}
  Formats <- MCPlayed
  Sizes <- MCSizes
  MaxPlayed = 2
INVARIANTS
  PlacesAreEarned
  OneLossIsOut
  NeverStuck
  TopSeedsMeetLate
  EveryPairMeetsOnce
CHECK_DEADLOCK FALSE
