\* Three threads and a mutex under the timer; the first two may be cancelled.
SPECIFICATION MFairSpec
CONSTANTS
  MaxThreads = 3
  Quantum = 1
  CancelTargets = {1, 2}
INVARIANTS
  MTypeOK
  RunningIsFront
  MOnePlace
  JoinAfterCompletion
PROPERTIES
  NeverMovesBack
  RunnableRuns
  CancelTakesEffect
  ImplementsThreads
