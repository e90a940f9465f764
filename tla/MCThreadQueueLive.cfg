\* The daemon's own configuration, one thread on each side.
CONSTANTS
  Producers = {p1}
  Consumers = {c1}
  QUEUESIZE = 2
  Cells = {d1, d2, d3, d4}
  NULL = NULL
SPECIFICATION FairSpec
PROPERTIES AddReturns ElementsHandled
