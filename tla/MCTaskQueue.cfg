\* Three threads on a ring of two slots: full, empty, wrap-around, contention.
SPECIFICATION Spec
CONSTANTS
  Threads = {t1, t2, t3}
  Tasks = {a, b}
  NoTask = NoTask
  Limit = 2
SYMMETRY Symmetry
PROPERTY ImplementsFifo
