---------------------------- MODULE TreeBarrier ----------------------------
(***************************************************************************)
(* src/barrier/gtmp_tree.c and gtmp_tree_orig.c: the software combining    *)
(* tree.  Up to two threads share a leaf; the last to arrive at a node     *)
(* goes on to its parent, and when it comes back it releases the node.     *)
(* The recursion of gtmp_barrier_aux is a stack of nodes per thread.       *)
(*                                                                         *)
(* The two files differ in how a thread arrives: with one atomic           *)
(* instruction, or with plain accesses in an OpenMP critical section, one  *)
(* for all nodes, which does not cover the store that resets a node.       *)
(***************************************************************************)
EXTENDS Integers, Sequences, FiniteSets

CONSTANTS
  num_threads,   \* the OpenMP threads, numbered from 0
  Episodes       \* bound: how often each of them calls gtmp_barrier

(* With one thread gtmp_init allocates no node at all and writes to it, so *)
(* the program has no behaviour to speak of.                               *)
ASSUME NumThreadsAssumption == num_threads \in Nat /\ num_threads >= 2
ASSUME EpisodesAssumption == Episodes \in Nat

Thread == 0 .. num_threads - 1

(* gtmp_init: the leaves are the last num_leaves nodes of a heap-ordered   *)
(* complete tree; v is the least power of two that holds every thread.     *)
v == CHOOSE p \in {2 ^ e : e \in 1 .. num_threads} :
       p >= num_threads /\ p < 2 * num_threads
num_leaves == v \div 2
Node == 0 .. v - 2
parent(n) == (n - 1) \div 2

mutant_k(n) == 2
k(n) == IF n < num_threads - 1 THEN 2 ELSE 1

(* There is such a power of two, and it is even: true of every num_threads *)
(* from 2, but of 2 ^ e the provers know nothing.                          *)
ASSUME TreeSizeAssumption ==
  v \in Nat /\ v % 2 = 0 /\ num_threads <= v /\ v < 2 * num_threads

mynode(t) == (num_leaves - 1) + (t % num_leaves)

VARIABLES
  version,    \* which file is linked: "atomic" or "critical"
  critical,   \* the thread in the critical section, or Nobody
  test, load, \* what each thread read of its node's count in there
  count,      \* count[n]: arrivals still missing at node n
  locksense,  \* locksense[n]: flipped to release the threads at n
  sense,      \* sense[t]: the locksense t waits for
  stack,      \* the nodes of t's active calls of gtmp_barrier_aux, last first
  pc,         \* the shared access each thread makes next
  released,   \* history: how often each node was released
  entered, left   \* history of calls and returns, as in Barrier

section == <<version, critical, test, load>>
flags == <<locksense, released>>
vars == <<section, count, flags, sense, stack, pc, entered, left>>

Nobody == num_threads

Init ==
  /\ version \in {"atomic", "critical"}
  /\ critical = Nobody
  /\ test = [t \in Thread |-> 0]
  /\ load = [t \in Thread |-> 0]
  /\ count = [n \in Node |-> k(n)]
  /\ locksense = [n \in Node |-> 0]
  /\ sense = [t \in Thread |-> 0]
  /\ stack = [t \in Thread |-> <<>>]
  /\ pc = [t \in Thread |-> "out"]
  /\ released = [n \in Node |-> 0]
  /\ entered = [t \in Thread |-> 0]
  /\ left = [t \in Thread |-> 0]

node(t) == Head(stack[t])

(* gtmp_barrier reads its leaf's sense before it arrives there. *)
Call(t) ==
  /\ pc[t] = "out" /\ entered[t] < Episodes
  /\ sense' = [sense EXCEPT ![t] = 1 - locksense[mynode(t)]]
  /\ stack' = [stack EXCEPT ![t] = <<mynode(t)>>]
  /\ pc' = [pc EXCEPT ![t] = "sub"]
  /\ entered' = [entered EXCEPT ![t] = @ + 1]
  /\ UNCHANGED <<section, count, flags, left>>

(* The last thread to arrive at a node calls gtmp_barrier_aux on its       *)
(* parent, or at the root begins the release; the others spin.  before is  *)
(* what was missing at the node when t arrived.                            *)
mutant_stop_below_root(t, before) ==
  /\ pc' = [pc EXCEPT ![t] = IF before = 1 THEN "reset" ELSE "spin"]
  /\ UNCHANGED stack

Arrive(t, before) ==
  \/ /\ before = 1 /\ node(t) # 0
     /\ stack' = [stack EXCEPT ![t] = <<parent(node(t))>> \o @]
     /\ pc' = [pc EXCEPT ![t] = "sub"]
  \/ /\ before = 1 /\ node(t) = 0
     /\ pc' = [pc EXCEPT ![t] = "reset"]
     /\ UNCHANGED stack
  \/ /\ before # 1
     /\ pc' = [pc EXCEPT ![t] = "spin"]
     /\ UNCHANGED stack

FetchAndSub(t) ==
  /\ version = "atomic" /\ pc[t] = "sub"
  /\ count' = [count EXCEPT ![node(t)] = @ - 1]
  /\ Arrive(t, count[node(t)])
  /\ UNCHANGED <<section, flags, sense, entered, left>>

(* gtmp_tree_orig.c: enter the critical section and read count into test,  *)
(* read it again for the decrement, store it and leave.                    *)
mutant_no_critical(t) ==
  /\ version = "critical" /\ pc[t] = "sub"
  /\ test' = [test EXCEPT ![t] = count[node(t)]]
  /\ pc' = [pc EXCEPT ![t] = "load"]
  /\ UNCHANGED <<version, critical, load, count, flags, sense, stack, entered, left>>

CriticalTest(t) ==
  /\ version = "critical" /\ pc[t] = "sub"
  /\ critical = Nobody /\ critical' = t
  /\ test' = [test EXCEPT ![t] = count[node(t)]]
  /\ pc' = [pc EXCEPT ![t] = "load"]
  /\ UNCHANGED <<version, load, count, flags, sense, stack, entered, left>>

CriticalLoad(t) ==
  /\ pc[t] = "load"
  /\ load' = [load EXCEPT ![t] = count[node(t)]]
  /\ pc' = [pc EXCEPT ![t] = "store"]
  /\ UNCHANGED <<version, critical, test, count, flags, sense, stack, entered, left>>

CriticalStore(t) ==
  /\ pc[t] = "store"
  /\ count' = [count EXCEPT ![node(t)] = load[t] - 1]
  /\ critical' = Nobody
  /\ Arrive(t, test[t])
  /\ test' = [test EXCEPT ![t] = 0] /\ load' = [load EXCEPT ![t] = 0]
  /\ UNCHANGED <<version, flags, sense, entered, left>>

mutant_reset_skipped(t) ==
  /\ pc[t] = "reset"
  /\ pc' = [pc EXCEPT ![t] = "flip"]
  /\ UNCHANGED <<section, count, flags, sense, stack, entered, left>>

Reset(t) ==
  /\ pc[t] = "reset"
  /\ count' = [count EXCEPT ![node(t)] = k(node(t))]
  /\ pc' = [pc EXCEPT ![t] = "flip"]
  /\ UNCHANGED <<section, flags, sense, stack, entered, left>>

Flip(t) ==
  /\ pc[t] = "flip"
  /\ locksense' = [locksense EXCEPT ![node(t)] = 1 - @]
  /\ released' = [released EXCEPT ![node(t)] = @ + 1]
  /\ pc' = [pc EXCEPT ![t] = "spin"]
  /\ UNCHANGED <<section, count, sense, stack, entered, left>>

(* The spin at a node ends: back in the call for the child, which is then  *)
(* released in turn, or out of the barrier.                                *)
Spin(t) ==
  /\ pc[t] = "spin" /\ locksense[node(t)] = sense[t]
  /\ stack' = [stack EXCEPT ![t] = Tail(@)]
  /\ IF Len(stack[t]) > 1
       THEN /\ pc' = [pc EXCEPT ![t] = "reset"]
            /\ UNCHANGED left
       ELSE /\ pc' = [pc EXCEPT ![t] = "out"]
            /\ left' = [left EXCEPT ![t] = @ + 1]
  /\ UNCHANGED <<section, count, flags, sense, entered>>

Step(t) ==
  \/ FetchAndSub(t) \/ CriticalTest(t) \/ CriticalLoad(t) \/ CriticalStore(t)
  \/ Reset(t) \/ Flip(t) \/ Spin(t)

Next == \E t \in Thread : Call(t) \/ Step(t)

Spec == Init /\ [][Next]_vars

(* The operating system runs every OpenMP thread inside the barrier.  The  *)
(* critical section need not be fair: a thread in front of it waits for    *)
(* the others' arrivals only, and these are finitely many.                 *)
FairSpec == Spec /\ \A t \in Thread : WF_vars(Step(t))

-----------------------------------------------------------------------------
(* Properties. *)

(* Types; no node is decremented below 0. *)
TypeOK ==
  /\ version \in {"atomic", "critical"}
  /\ count \in [Node -> 0 .. 2] /\ \A n \in Node : count[n] <= k(n)
  /\ locksense \in [Node -> {0, 1}]
  /\ released \in [Node -> 0 .. Episodes]
  /\ sense \in [Thread -> {0, 1}]
  /\ stack \in [Thread -> Seq(Node)]
  /\ critical \in Thread \cup {Nobody}
  /\ test \in [Thread -> 0 .. 2] /\ load \in [Thread -> 0 .. 2]
  /\ pc \in [Thread -> {"out", "sub", "load", "store", "reset", "flip", "spin"}]
  /\ entered \in [Thread -> 0 .. Episodes]
  /\ left \in [Thread -> 0 .. Episodes]

(* Nobody leaves an episode before everybody has entered it. *)
BarrierSafety == \A p, q \in Thread : left[p] <= entered[q]

(* Releases go down the tree: a node is released only after its parent has *)
(* been, by the thread that arrived at it last and climbed to the parent.  *)
ReleaseTopDown ==
  [][\A n \in Node \ {0} :
       locksense'[n] # locksense[n] => locksense[parent(n)] = locksense'[n]]_vars

(* A node misses exactly the arrivals not made there in this episode, so   *)
(* it is ready for the next episode before anyone can arrive again, and no *)
(* reset falls between the accesses of a critical section.                 *)
Frames(t) == {stack[t][i] : i \in 1 .. Len(stack[t])}
ArrivedAt(n) ==
  {t \in Thread : /\ n \in Frames(t) /\ sense[t] # locksense[n]
                  /\ ~ (pc[t] \in {"sub", "load", "store"} /\ node(t) = n)}
CountOK ==
  \A n \in Node :
    (\A t \in Thread : pc[t] = "flip" => node(t) # n)
      => count[n] = k(n) - Cardinality(ArrivedAt(n))

(* The combining tree implements the barrier; a thread never spins for     *)
(* ever once all have called.                                              *)
Abstract == INSTANCE Barrier
ImplementsBarrier == Abstract!BSpec
BarrierLiveness == \A t \in Thread : WF_<<entered, left>>(Abstract!Leave(t))

=============================================================================
