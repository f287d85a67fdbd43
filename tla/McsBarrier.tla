----------------------------- MODULE McsBarrier -----------------------------
(***************************************************************************)
(* src/barrier/gtmp_mcs.c: the MCS tree barrier, a 4-ary tree of arrivals  *)
(* and a binary tree of wake-ups.  A thread has no index of its own: each  *)
(* call takes the next one from vpid_next.  One step per access of shared  *)
(* memory; accesses of bytes that are constant or never read (havechild,   *)
(* dummy, childnotready of children that do not exist) are left out.       *)
(***************************************************************************)
EXTENDS Integers, FiniteSets

CONSTANTS
  num_procs,   \* the OpenMP threads
  Episodes,    \* bound: how often each of them calls gtmp_barrier
  VpidWrap     \* the range of the unsigned int vpid_next; 2 ^ 32 in the code,
               \* scaled down to a number with the same remainder

ASSUME NumProcsAssumption == num_procs \in Nat \ {0}
ASSUME EpisodesAssumption == Episodes \in Nat
ASSUME VpidWrapAssumption == VpidWrap \in Nat /\ VpidWrap >= num_procs

Thread == 1 .. num_procs
Node == 0 .. num_procs - 1

(* gtmp_init: the arrival tree, and the wake-up tree. *)
havechild(n) == {j \in 0 .. 3 : 4 * n + j + 1 < num_procs}
childpointer(n, c) == 2 * n + c + 1
parentnode(n) == (n - 1) \div 4
parentslot(n) == (n - 1) % 4

VARIABLES
  vpid_next,      \* the next index to be given out, modulo num_procs
  sense_init,     \* the sense the next call starts with
  parentsense,    \* parentsense[n]: set to wake the thread with index n
  childnotready,  \* childnotready[n]: the slots of children still missing
  vpid, sense,    \* the locals of each thread
  todo,           \* what is left of t's pass over the four slots
  pc,             \* the access each thread makes next
  entered, left   \* history of calls and returns, as in Barrier

shared == <<vpid_next, sense_init, parentsense, childnotready>>
vars == <<shared, vpid, sense, todo, pc, entered, left>>

Init ==
  /\ vpid_next = 0
  /\ sense_init = 1
  /\ parentsense = [n \in Node |-> 0]
  /\ childnotready = [n \in Node |-> havechild(n)]
  /\ vpid = [t \in Thread |-> 0]
  /\ sense = [t \in Thread |-> 0]
  /\ todo = [t \in Thread |-> {}]
  /\ pc = [t \in Thread |-> "out"]
  /\ entered = [t \in Thread |-> 0]
  /\ left = [t \in Thread |-> 0]

(* The index is taken in one atomic step; in the mutant the addition may   *)
(* be overwritten by that of another thread.                               *)
mutant_vpid_not_taken(t) ==
  /\ pc[t] = "out" /\ entered[t] < Episodes
  /\ vpid' = [vpid EXCEPT ![t] = vpid_next % num_procs]
  /\ \/ vpid_next' = (vpid_next + 1) % VpidWrap
     \/ vpid_next' = vpid_next
  /\ pc' = [pc EXCEPT ![t] = "sense"]
  /\ entered' = [entered EXCEPT ![t] = @ + 1]
  /\ UNCHANGED <<sense_init, parentsense, childnotready, sense, todo, left>>

Call(t) ==
  /\ pc[t] = "out" /\ entered[t] < Episodes
  /\ vpid' = [vpid EXCEPT ![t] = vpid_next % num_procs]
  /\ vpid_next' = (vpid_next + 1) % VpidWrap
  /\ pc' = [pc EXCEPT ![t] = "sense"]
  /\ entered' = [entered EXCEPT ![t] = @ + 1]
  /\ UNCHANGED <<sense_init, parentsense, childnotready, sense, todo, left>>

ReadSense(t) ==
  /\ pc[t] = "sense"
  /\ sense' = [sense EXCEPT ![t] = sense_init]
  /\ todo' = [todo EXCEPT ![t] = havechild(vpid[t])]
  /\ pc' = [pc EXCEPT ![t] = "scan"]
  /\ UNCHANGED <<shared, vpid, entered, left>>

(* One of the four reads of the loop condition, which C may do in any      *)
(* order; a slot that is not ready makes the pass begin again.             *)
Scan(t) ==
  /\ pc[t] = "scan"
  /\ \E j \in todo[t] :
       todo' = [todo EXCEPT ![t] =
                  IF j \in childnotready[vpid[t]] THEN havechild(vpid[t])
                                                  ELSE @ \ {j}]
  /\ UNCHANGED <<shared, vpid, sense, pc, entered, left>>

mutant_scanned_all_slots(t) ==
  /\ pc[t] = "scan" /\ todo[t] = {}
  /\ todo' = [todo EXCEPT ![t] = 0 .. 3]
  /\ pc' = [pc EXCEPT ![t] = "reset"]
  /\ UNCHANGED <<shared, vpid, sense, entered, left>>

Scanned(t) ==
  /\ pc[t] = "scan" /\ todo[t] = {}
  /\ todo' = [todo EXCEPT ![t] = havechild(vpid[t])]
  /\ pc' = [pc EXCEPT ![t] = "reset"]
  /\ UNCHANGED <<shared, vpid, sense, entered, left>>

(* childnotready := havechild, slot by slot from 0 up. *)
mutant_not_reset(t) ==
  /\ pc[t] = "reset"
  /\ pc' = [pc EXCEPT ![t] = "notify"]
  /\ UNCHANGED <<shared, vpid, sense, todo, entered, left>>

Reset(t) ==
  /\ pc[t] = "reset"
  /\ \/ /\ todo[t] = {}
        /\ pc' = [pc EXCEPT ![t] = "notify"]
        /\ UNCHANGED <<childnotready, todo>>
     \/ \E j \in todo[t] :
        /\ \A i \in todo[t] : j <= i
        /\ childnotready' = [childnotready EXCEPT ![vpid[t]] = @ \cup {j}]
        /\ todo' = [todo EXCEPT ![t] = @ \ {j}]
        /\ UNCHANGED pc
  /\ UNCHANGED <<vpid_next, sense_init, parentsense, vpid, sense, entered, left>>

(* *parentpointer = 0; the root has nobody to tell or to wait for. *)
Notify(t) ==
  /\ pc[t] = "notify"
  /\ IF vpid[t] = 0
       THEN /\ pc' = [pc EXCEPT ![t] = "wake0"]
            /\ UNCHANGED childnotready
       ELSE /\ pc' = [pc EXCEPT ![t] = "wait"]
            /\ childnotready' = [childnotready EXCEPT
                 ![parentnode(vpid[t])] = @ \ {parentslot(vpid[t])}]
  /\ UNCHANGED <<vpid_next, sense_init, parentsense, vpid, sense, todo, entered,
                 left>>

Wait(t) ==
  /\ pc[t] = "wait" /\ parentsense[vpid[t]] = sense[t]
  /\ pc' = [pc EXCEPT ![t] = "wake0"]
  /\ UNCHANGED <<shared, vpid, sense, todo, entered, left>>

(* Store the sense in the flag of one child of the wake-up tree. *)
mutant_wake_one_child(t, c, at, next) ==
  /\ pc[t] = at
  /\ pc' = [pc EXCEPT ![t] = next]
  /\ LET n == childpointer(vpid[t], c) IN
     IF n \in Node /\ c = 0 THEN parentsense' = [parentsense EXCEPT ![n] = sense[t]]
                            ELSE UNCHANGED parentsense
  /\ UNCHANGED <<vpid_next, sense_init, childnotready, vpid, sense, todo,
                 entered, left>>

Wake(t, c, at, next) ==
  /\ pc[t] = at
  /\ pc' = [pc EXCEPT ![t] = next]
  /\ LET n == childpointer(vpid[t], c) IN
     IF n \in Node THEN parentsense' = [parentsense EXCEPT ![n] = sense[t]]
                   ELSE UNCHANGED parentsense
  /\ UNCHANGED <<vpid_next, sense_init, childnotready, vpid, sense, todo,
                 entered, left>>

mutant_sense_kept(t) ==
  /\ pc[t] = "leave"
  /\ sense_init' = sense[t]
  /\ pc' = [pc EXCEPT ![t] = "out"]
  /\ left' = [left EXCEPT ![t] = @ + 1]
  /\ UNCHANGED <<vpid_next, parentsense, childnotready, vpid, sense, todo,
                 entered>>

Leave(t) ==
  /\ pc[t] = "leave"
  /\ sense_init' = 1 - sense[t]
  /\ pc' = [pc EXCEPT ![t] = "out"]
  /\ left' = [left EXCEPT ![t] = @ + 1]
  /\ UNCHANGED <<vpid_next, parentsense, childnotready, vpid, sense, todo,
                 entered>>

Step(t) ==
  \/ ReadSense(t) \/ Scan(t) \/ Scanned(t) \/ Reset(t) \/ Notify(t) \/ Wait(t)
  \/ Wake(t, 0, "wake0", "wake1") \/ Wake(t, 1, "wake1", "leave") \/ Leave(t)

Next == \E t \in Thread : Call(t) \/ Step(t)

Spec == Init /\ [][Next]_vars

(* The operating system runs every OpenMP thread inside the barrier; a     *)
(* pass over the slots reads each of them.                                 *)
FairSpec == Spec /\ \A t \in Thread : WF_vars(Step(t))

-----------------------------------------------------------------------------
(* Properties. *)

(* Types; childnotready only has slots of children that exist. *)
TypeOK ==
  /\ vpid_next \in 0 .. VpidWrap - 1
  /\ sense_init \in {0, 1}
  /\ parentsense \in [Node -> {0, 1}]
  /\ \A n \in Node : childnotready[n] \subseteq havechild(n)
  /\ vpid \in [Thread -> Node]
  /\ sense \in [Thread -> {0, 1}]
  /\ todo \in [Thread -> SUBSET (0 .. 3)]
  /\ pc \in [Thread -> {"out", "sense", "scan", "reset", "notify", "wait",
                        "wake0", "wake1", "leave"}]
  /\ entered \in [Thread -> 0 .. Episodes]
  /\ left \in [Thread -> 0 .. Episodes]

(* Nobody leaves an episode before everybody has entered it, although the  *)
(* indices move from thread to thread between episodes.                    *)
BarrierSafety == \A p, q \in Thread : left[p] <= entered[q]

(* vpid is "a unique virtual processor index" (line 20): two threads in    *)
(* the same episode have different ones.                                   *)
VpidUnique ==
  \A t, u \in Thread :
    /\ t # u /\ entered[t] = entered[u]
    /\ pc[t] # "out" /\ pc[u] # "out"
    => vpid[t] # vpid[u]

(* A call starts with the sense that its episode uses, although sense_init *)
(* is written by every thread on its way out of the one before.            *)
SenseAgrees ==
  \A t \in Thread : pc[t] \notin {"out", "sense"} => sense[t] = entered[t] % 2

(* The MCS barrier implements the barrier. *)
Abstract == INSTANCE Barrier
ImplementsBarrier == Abstract!BSpec
BarrierLiveness == \A t \in Thread : WF_<<entered, left>>(Abstract!Leave(t))

=============================================================================
