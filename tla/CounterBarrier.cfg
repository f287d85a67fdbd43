\* Four threads, three episodes, so that count and both senses are re-used.
SPECIFICATION FairSpec
CONSTANTS
  Thread = {t1, t2, t3, t4}
  Episodes = 3
INVARIANTS
  BarrierSafety
  IInv
PROPERTIES
  ImplementsBarrier
  BarrierLiveness
\* The program ends after the last episode; BarrierLiveness excludes that it
\* stops earlier.
CHECK_DEADLOCK FALSE
