\* Five threads: the root has a grandchild in the wake-up tree whose index goes
\* to a fast thread in the next episode.
SPECIFICATION Spec
CONSTANTS
  num_procs = 5
  Episodes = 2
  VpidWrap = 10
INVARIANT BarrierSafety
CHECK_DEADLOCK FALSE
