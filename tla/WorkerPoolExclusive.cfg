SPECIFICATION Spec
CONSTANTS
  Workers = {w1, w2}
  Callers = {c1, c2}
  Killers = {k1}
  MaxWorkers = 2
  NoWorker = NoWorker
SYMMETRY Symmetry
INVARIANT ExclusiveWorker
