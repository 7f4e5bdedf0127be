\* One interface, two processes, one retry; fork may fail.
SPECIFICATION Spec
CONSTANTS
  Vifs = {v1}
  Procs = {p1, p2}
  SetupRetry = 1
  ForkOutcomes = {FALSE, TRUE}
SYMMETRY Symmetry
INVARIANTS
  NeverForgotten LinksEnd TeardownUndoes RetriesBounded Attended
