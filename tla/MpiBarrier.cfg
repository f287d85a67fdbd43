\* Six processes: every role of the tournament, a winner with a bye included; hello_gtmpi.c calls
\* the barrier three times.
SPECIFICATION FairSpec
CONSTANTS
  num_procs = 6
  Episodes = 3
INVARIANTS
  TypeOK
  MessagesMatch
PROPERTIES
  ImplementsBarrier
  BarrierLiveness
CHECK_DEADLOCK FALSE
