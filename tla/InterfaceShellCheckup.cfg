\* The check-up timer against its comment.
SPECIFICATION Spec
CONSTANTS
  Protocols <- MCFaulty
  Checkup = TRUE
  Origins = {FALSE}
  Links = {FALSE}
  ForkOutcomes = {TRUE}
  ClaimOutcomes = {TRUE}
INVARIANTS
  CheckupKeepsWatching
