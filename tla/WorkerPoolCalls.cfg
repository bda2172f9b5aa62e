SPECIFICATION FairSpec
CONSTANTS
  Workers = {w1, w2, w3}
  Callers = {c1, c2}
  Killers = {k1}
  MaxWorkers = 1
  NoWorker = NoWorker
INVARIANT PoolBounded
INVARIANT NoBusyLeak
INVARIANT CleanKillRemoves
PROPERTY CallsReturn
