\* Four threads: the root has three arrivals to wait for, and the wake-up tree
\* has two levels.  2 ^ 32 is a multiple of 4, as VpidWrap is.
SPECIFICATION FairSpec
CONSTANTS
  num_procs = 4
  Episodes = 2
  VpidWrap = 4
INVARIANTS
  TypeOK
  VpidUnique
  SenseAgrees
PROPERTIES
  ImplementsBarrier
  BarrierLiveness
\* The program ends after the last episode; BarrierLiveness excludes that it
\* stops earlier.
CHECK_DEADLOCK FALSE
