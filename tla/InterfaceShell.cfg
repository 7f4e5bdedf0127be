\* Three protocols, everything the kernel is asked for succeeds.
SPECIFICATION Spec
CONSTANTS
  Protocols <- MCProtocols
  Checkup = FALSE
  Origins = {FALSE}
  Links = {FALSE, TRUE}
  ForkOutcomes = {TRUE}
  ClaimOutcomes = {TRUE}
INVARIANTS
  TypeOK UsersKnow PendingChangeWaits UpMeansIdle UpHoldsL3 SetupAttended
  FreedLeavesNothing
PROPERTIES
  LossEndsUp
