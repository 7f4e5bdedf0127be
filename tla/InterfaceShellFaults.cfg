\* One protocol with a check-up timer; fork and device set-up may fail.
SPECIFICATION FairSpec
CONSTANTS
  Protocols <- MCFaulty
  Checkup = TRUE
  Origins = {FALSE, TRUE}
  Links = {FALSE}
  ForkOutcomes = {FALSE, TRUE}
  ClaimOutcomes = {FALSE, TRUE}
PROPERTIES
  TeardownEnds PendingChangeHappens ImplementsLifecycle
