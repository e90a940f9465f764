\* Two threads on each side and a ring of two slots: the ring fills, wraps and
\* empties, and two threads can sleep on each condition.
CONSTANTS
  Producers = {p1, p2}
  Consumers = {c1, c2}
  QUEUESIZE = 2
  Cells = {d1, d2, d3, d4, d5, d6}
  NULL = NULL
SPECIFICATION Spec
SYMMETRY Symmetry
INVARIANTS QueueInv OwnedOnce NoLostWakeup
PROPERTY ImplementsFifo
