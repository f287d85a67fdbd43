--------------------------- MODULE CounterBarrier ---------------------------
(***************************************************************************)
(* src/barrier/gtmp_counter.c: the sense-reversing centralized barrier.    *)
(* One step per access of a shared variable; the program is built without  *)
(* optimization, so the spin loop reads sense from memory every time.      *)
(***************************************************************************)
EXTENDS Integers, FiniteSets

CONSTANTS
  Thread,    \* the OpenMP threads
  Episodes   \* bound: how often each of them calls gtmp_barrier

ASSUME ThreadAssumption == IsFiniteSet(Thread)
ASSUME EpisodesAssumption == Episodes \in Nat

VARIABLES
  count,     \* threads still missing in this episode
  sense,     \* the global sense, 0 or 1
  my_sense,  \* my_sense[t]: the sense t waits for
  pc,        \* the access each thread makes next
  entered, left   \* history of calls and returns, as in Barrier

vars == <<count, sense, my_sense, pc, entered, left>>

my_num_threads == Cardinality(Thread)

Init ==
  /\ count = my_num_threads
  /\ sense = 0
  /\ my_sense = [t \in Thread |-> 0]
  /\ pc = [t \in Thread |-> "out"]
  /\ entered = [t \in Thread |-> 0]
  /\ left = [t \in Thread |-> 0]

(* A thread calls gtmp_barrier and reads the sense it must wait to change. *)
mutant_same_sense(t) ==
  /\ pc[t] = "out" /\ entered[t] < Episodes
  /\ my_sense' = [my_sense EXCEPT ![t] = sense]
  /\ pc' = [pc EXCEPT ![t] = "sub"]
  /\ entered' = [entered EXCEPT ![t] = @ + 1]
  /\ UNCHANGED <<count, sense, left>>

Call(t) ==
  /\ pc[t] = "out" /\ entered[t] < Episodes
  /\ my_sense' = [my_sense EXCEPT ![t] = 1 - sense]
  /\ pc' = [pc EXCEPT ![t] = "sub"]
  /\ entered' = [entered EXCEPT ![t] = @ + 1]
  /\ UNCHANGED <<count, sense, left>>

(* __sync_fetch_and_sub: the thread that takes the last 1 opens the next   *)
(* episode, the others spin.  A mutant lets the next to last one open it.  *)
mutant_sub_off_by_one(t) ==
  /\ pc[t] = "sub"
  /\ count' = count - 1
  /\ pc' = [pc EXCEPT ![t] = IF count \in {1, 2} THEN "reset" ELSE "spin"]
  /\ UNCHANGED <<sense, my_sense, entered, left>>

FetchAndSub(t) ==
  /\ pc[t] = "sub"
  /\ count' = count - 1
  /\ pc' = [pc EXCEPT ![t] = IF count = 1 THEN "reset" ELSE "spin"]
  /\ UNCHANGED <<sense, my_sense, entered, left>>

mutant_reset_skipped(t) ==
  /\ pc[t] = "reset"
  /\ count' = count
  /\ pc' = [pc EXCEPT ![t] = "flip"]
  /\ UNCHANGED <<sense, my_sense, entered, left>>

Reset(t) ==
  /\ pc[t] = "reset"
  /\ count' = my_num_threads
  /\ pc' = [pc EXCEPT ![t] = "flip"]
  /\ UNCHANGED <<sense, my_sense, entered, left>>

Flip(t) ==
  /\ pc[t] = "flip"
  /\ sense' = my_sense[t]
  /\ pc' = [pc EXCEPT ![t] = "out"]
  /\ left' = [left EXCEPT ![t] = @ + 1]
  /\ UNCHANGED <<count, my_sense, entered>>

Spin(t) ==
  /\ pc[t] = "spin" /\ sense = my_sense[t]
  /\ pc' = [pc EXCEPT ![t] = "out"]
  /\ left' = [left EXCEPT ![t] = @ + 1]
  /\ UNCHANGED <<count, sense, my_sense, entered>>

Step(t) == FetchAndSub(t) \/ Reset(t) \/ Flip(t) \/ Spin(t)

Next == \E t \in Thread : Call(t) \/ Step(t)

Spec == Init /\ [][Next]_vars

(* The operating system runs every OpenMP thread inside the barrier.       *)
FairSpec == Spec /\ \A t \in Thread : WF_vars(Step(t))

-----------------------------------------------------------------------------
(* Properties. *)

(* Types; count is unsigned and never goes below 0. *)
TypeOK ==
  /\ count \in 0 .. my_num_threads
  /\ sense \in {0, 1}
  /\ my_sense \in [Thread -> {0, 1}]
  /\ pc \in [Thread -> {"out", "sub", "reset", "flip", "spin"}]
  /\ entered \in [Thread -> 0 .. Episodes]
  /\ left \in [Thread -> 0 .. Episodes]

(* Nobody leaves an episode before everybody has entered it, across the    *)
(* re-use of count and sense by threads that are already one call ahead.   *)
BarrierSafety == \A p, q \in Thread : left[p] <= entered[q]

(* The counter barrier implements the barrier, liveness included: a thread *)
(* never spins for ever once all have called, the last episode included.   *)
Abstract == INSTANCE Barrier
ImplementsBarrier == Abstract!BSpec
BarrierLiveness == \A t \in Thread : WF_<<entered, left>>(Abstract!Leave(t))

(* The threads that have arrived and wait for the sense to change. *)
Arrived ==
  {t \in Thread : pc[t] \in {"spin", "reset", "flip"} /\ my_sense[t] # sense}

(* The episodes t knows to be over: those it left and the one whose new    *)
(* sense it has not seen yet.                                              *)
Over(t) ==
  IF pc[t] = "spin" /\ my_sense[t] = sense THEN entered[t] ELSE left[t]

(* The inductive invariant.  count is what is missing in Arrived; when one *)
(* thread resets, all have arrived; and all agree on the episode.          *)
CountOK ==
  /\ (\A t \in Thread : pc[t] # "flip")
       => count = my_num_threads - Cardinality(Arrived)
  /\ \A t \in Thread : pc[t] = "flip" => count = my_num_threads
OpenerOK ==
  \A t \in Thread : pc[t] \in {"reset", "flip"} =>
    /\ Arrived = Thread
    /\ \A u \in Thread : pc[u] \in {"reset", "flip"} => u = t
SenseOK == \A t \in Thread : pc[t] = "sub" => my_sense[t] # sense
EpisodeOK ==
  /\ \A t \in Thread : entered[t] = left[t] + (IF pc[t] = "out" THEN 0 ELSE 1)
  /\ \A t, u \in Thread : Over(t) = Over(u)

IInv == TypeOK /\ CountOK /\ OpenerOK /\ SenseOK /\ EpisodeOK

=============================================================================
