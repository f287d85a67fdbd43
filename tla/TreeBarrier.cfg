\* Five threads: three leaves of the four expect one arrival, one expects two.
SPECIFICATION FairSpec
CONSTANTS
  num_threads = 5
  Episodes = 3
INVARIANTS
  TypeOK
  CountOK
PROPERTIES
  ReleaseTopDown
  ImplementsBarrier
  BarrierLiveness
\* The program ends after the last episode; BarrierLiveness excludes that it
\* stops earlier.
CHECK_DEADLOCK FALSE
