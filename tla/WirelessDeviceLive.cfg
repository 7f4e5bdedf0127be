\* Two processes, no interfaces, no retry; fork may fail.
SPECIFICATION FairSpec
CONSTANTS
  Vifs = {}
  Procs = {p1, p2}
  SetupRetry = 0
  ForkOutcomes = {FALSE, TRUE}
PROPERTIES
  RequestHappens KillIsAnswered
