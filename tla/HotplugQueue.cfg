\* Three interfaces; fork may fail, every script ends.
SPECIFICATION FairSpec
CONSTANTS
  Ifaces = {i1, i2, i3}
  None = None
  ForkOutcomes = {FALSE, TRUE}
INVARIANTS
  NothingForgotten QueuedEventIsCurrent ScriptsLearnState
PROPERTIES
  Reported
