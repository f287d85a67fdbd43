\* Three threads and no cancels.
SPECIFICATION MSpec
CONSTANTS
  MaxThreads = 3
  Quantum = 0
  CancelTargets = {}
INVARIANT MutualExclusion
