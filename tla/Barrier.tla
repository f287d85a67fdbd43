------------------------------ MODULE Barrier ------------------------------
(***************************************************************************)
(* What a barrier promises, whatever its algorithm: the contract that the  *)
(* callers of gtmp_barrier (src/barrier/gtmp.h, hello_gtmp.c) rely on.     *)
(* A thread leaves its n-th episode only after every thread has entered    *)
(* its n-th, and once all have entered, all leave.                         *)
(***************************************************************************)
EXTENDS Integers

CONSTANTS
  Thread,    \* the threads that meet at the barrier
  Episodes   \* bound: how often each of them calls the barrier

VARIABLES
  entered,   \* entered[t]: calls of gtmp_barrier that t has made
  left       \* left[t]: calls that have returned

bvars == <<entered, left>>

BInit ==
  /\ entered = [t \in Thread |-> 0]
  /\ left = [t \in Thread |-> 0]

Enter(t) ==
  /\ entered[t] = left[t] /\ entered[t] < Episodes
  /\ entered' = [entered EXCEPT ![t] = @ + 1]
  /\ UNCHANGED left

Leave(t) ==
  /\ left[t] < entered[t]
  /\ \A u \in Thread : entered[u] >= entered[t]
  /\ left' = [left EXCEPT ![t] = @ + 1]
  /\ UNCHANGED entered

BNext == \E t \in Thread : Enter(t) \/ Leave(t)

BSpec == BInit /\ [][BNext]_bvars

(* A barrier that everybody has entered lets everybody go. *)
BFairSpec == BSpec /\ \A t \in Thread : WF_bvars(Leave(t))

=============================================================================
