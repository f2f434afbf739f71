SPECIFICATION Spec
CONSTANTS
  Organisers = {o1}
  Formats <- MCDouble
  Sizes <- MCFour
  MaxPlayed = 2
INVARIANT
  NeverStuck
CHECK_DEADLOCK FALSE
