------------------------ MODULE CounterBarrier_proof ------------------------
(***************************************************************************)
(* Proofs about CounterBarrier, for every finite set of threads and every  *)
(* number of episodes: IInv is an inductive invariant, so the barrier is   *)
(* safe, and every step is a step of Barrier or leaves it unchanged.       *)
(***************************************************************************)
EXTENDS CounterBarrier, FiniteSetTheorems, TLAPS

(* A set of threads has a cardinality in 0 .. my_num_threads, which tells  *)
(* the empty and the full set from the others.                             *)
LEMMA SubsetCardinality ==
  ASSUME NEW S, S \subseteq Thread
  PROVE  /\ IsFiniteSet(S)
         /\ Cardinality(S) \in Nat /\ my_num_threads \in Nat
         /\ Cardinality(S) <= my_num_threads
         /\ Cardinality(S) = my_num_threads => S = Thread
         /\ Cardinality(S) = 0 => S = {}
  BY FS_Subset, FS_CardinalityType, FS_EmptySet, ThreadAssumption
     DEF my_num_threads

(* Arriving adds one thread to those counted, and the last one fills it.   *)
LEMMA ArriveOne ==
  ASSUME NEW S, S \subseteq Thread, NEW t \in Thread, t \notin S
  PROVE  /\ Cardinality(S \cup {t}) = Cardinality(S) + 1
         /\ Cardinality(S) < my_num_threads
         /\ my_num_threads - Cardinality(S) = 1 => S \cup {t} = Thread
<1>1. Cardinality(S \cup {t}) = Cardinality(S) + 1
  BY SubsetCardinality, FS_AddElement
<1>2. /\ Cardinality(S \cup {t}) <= my_num_threads
      /\ Cardinality(S \cup {t}) = my_num_threads => S \cup {t} = Thread
      /\ Cardinality(S) \in Nat /\ my_num_threads \in Nat
  BY SubsetCardinality, S \cup {t} \subseteq Thread
<1>. QED  BY <1>1, <1>2

LEMMA InitInv == Init => IInv
<1>. SUFFICES ASSUME Init PROVE IInv
  OBVIOUS
<1>1. Arrived = {}
  BY DEF Init, Arrived
<1>2. Cardinality(Arrived) = 0 /\ my_num_threads \in Nat
  BY <1>1, FS_EmptySet, SubsetCardinality
<1>3. TypeOK
  BY <1>2, EpisodesAssumption DEF Init, TypeOK
<1>4. CountOK
  BY <1>2 DEF Init, CountOK
<1>5. OpenerOK /\ SenseOK /\ EpisodeOK
  BY DEF Init, OpenerOK, SenseOK, EpisodeOK, Over
<1>. QED  BY <1>3, <1>4, <1>5 DEF IInv

LEMMA NextInv == IInv /\ [Next]_vars => IInv'
<1>. SUFFICES ASSUME IInv, [Next]_vars PROVE IInv'
  OBVIOUS
<1>. USE DEF IInv
<1>a. Arrived \subseteq Thread /\ Arrived' \subseteq Thread
  BY DEF Arrived
<1>b. /\ Cardinality(Arrived) \in Nat /\ my_num_threads \in Nat
      /\ Cardinality(Arrived) <= my_num_threads
      /\ Cardinality(Thread) = my_num_threads
  BY <1>a, SubsetCardinality DEF my_num_threads
<1>1. ASSUME NEW t \in Thread, Call(t) PROVE IInv'
  <2>1. Arrived' = Arrived /\ my_num_threads' = my_num_threads
    BY <1>1 DEF Call, Arrived, TypeOK, my_num_threads
  <2>2. TypeOK'
    BY <1>1, <1>b, EpisodesAssumption DEF Call, TypeOK, my_num_threads
  <2>3. CountOK' /\ OpenerOK' /\ SenseOK'
    <3>1. CountOK'
      BY <1>1, <2>1 DEF Call, TypeOK, CountOK
    <3>2. OpenerOK'
      BY <1>1, <2>1 DEF Call, TypeOK, OpenerOK
    <3>3. SenseOK'
      BY <1>1 DEF Call, TypeOK, SenseOK
    <3>. QED  BY <3>1, <3>2, <3>3
  <2>4. EpisodeOK'
    <3>1. \A u \in Thread : Over(u)' = Over(u)
      BY <1>1 DEF Call, TypeOK, Over
    <3>. QED  BY <1>1, <3>1, EpisodesAssumption DEF Call, TypeOK, EpisodeOK
  <2>. QED  BY <2>2, <2>3, <2>4
<1>2. ASSUME NEW t \in Thread, FetchAndSub(t) PROVE IInv'
  <2>1. \A u \in Thread : pc[u] \notin {"reset", "flip"}
    BY <1>2 DEF FetchAndSub, OpenerOK, Arrived
  <2>2. t \notin Arrived /\ Arrived' = Arrived \cup {t}
    BY <1>2 DEF FetchAndSub, Arrived, TypeOK, SenseOK
  <2>3. count = my_num_threads - Cardinality(Arrived)
    BY <2>1 DEF CountOK
  <2>4. /\ Cardinality(Arrived') = Cardinality(Arrived) + 1
        /\ Cardinality(Arrived) < my_num_threads
        /\ count = 1 => Arrived' = Thread
    BY <1>a, <2>2, <2>3, ArriveOne
  <2>5. my_num_threads' = my_num_threads
    BY DEF my_num_threads
  <2>6. TypeOK'
    BY <1>2, <1>b, <2>3, <2>4, <2>5 DEF FetchAndSub, TypeOK
  <2>7. CountOK'
    <3>1. count' = my_num_threads - Cardinality(Arrived')
      BY <1>2, <1>b, <2>3, <2>4 DEF FetchAndSub
    <3>2. \A u \in Thread : pc'[u] # "flip"
      BY <1>2, <2>1 DEF FetchAndSub, TypeOK
    <3>. QED  BY <2>5, <3>1, <3>2 DEF CountOK
  <2>8. OpenerOK'
    BY <1>2, <2>1, <2>4 DEF FetchAndSub, TypeOK, OpenerOK
  <2>9. SenseOK'
    BY <1>2 DEF FetchAndSub, TypeOK, SenseOK
  <2>10. EpisodeOK'
    <3>1. \A u \in Thread : Over(u)' = Over(u)
      BY <1>2 DEF FetchAndSub, TypeOK, SenseOK, Over
    <3>. QED  BY <1>2, <3>1 DEF FetchAndSub, TypeOK, EpisodeOK
  <2>. QED  BY <2>6, <2>7, <2>8, <2>9, <2>10
<1>3. ASSUME NEW t \in Thread, Reset(t) PROVE IInv'
  <2>1. Arrived' = Arrived /\ my_num_threads' = my_num_threads
    BY <1>3 DEF Reset, Arrived, TypeOK, my_num_threads
  <2>2. TypeOK'
    BY <1>3, <1>b, <2>1 DEF Reset, TypeOK
  <2>3. CountOK'
    BY <1>3, <2>1 DEF Reset, TypeOK, CountOK
  <2>4. OpenerOK'
    BY <1>3, <2>1 DEF Reset, TypeOK, OpenerOK
  <2>5. SenseOK'
    BY <1>3 DEF Reset, TypeOK, SenseOK
  <2>6. EpisodeOK'
    <3>1. \A u \in Thread : Over(u)' = Over(u)
      BY <1>3 DEF Reset, TypeOK, Over
    <3>. QED  BY <1>3, <3>1 DEF Reset, TypeOK, EpisodeOK
  <2>. QED  BY <2>2, <2>3, <2>4, <2>5, <2>6
<1>4. ASSUME NEW t \in Thread, Flip(t) PROVE IInv'
  <2>1. /\ Arrived = Thread
        /\ \A u \in Thread : u # t => pc[u] = "spin"
        /\ \A u \in Thread : my_sense[u] # sense
    BY <1>4 DEF Flip, OpenerOK, Arrived
  <2>2. \A u \in Thread : my_sense[u] = sense'
    BY <1>4, <2>1 DEF Flip, TypeOK
  <2>3. Arrived' = {} /\ Cardinality(Arrived') = 0
    <3>1. Arrived' = {}
      BY <1>4, <2>2 DEF Flip, Arrived
    <3>. QED  BY <3>1, FS_EmptySet
  <2>4. my_num_threads' = my_num_threads
    BY DEF my_num_threads
  <2>5. TypeOK'
    <3>1. entered[t] = left[t] + 1
      BY <1>4 DEF Flip, EpisodeOK
    <3>2. left[t] + 1 \in 0 .. Episodes
      BY <3>1 DEF TypeOK
    <3>. QED  BY <1>4, <3>2, <2>4 DEF Flip, TypeOK
  <2>6. CountOK'
    <3>1. count = my_num_threads
      BY <1>4 DEF Flip, CountOK
    <3>2. \A u \in Thread : pc'[u] # "flip"
      BY <1>4, <2>1 DEF Flip, TypeOK
    <3>. QED  BY <1>4, <1>b, <2>3, <2>4, <3>1, <3>2 DEF Flip, CountOK
  <2>7. OpenerOK' /\ SenseOK'
    <3>1. \A u \in Thread : pc'[u] \in {"spin", "out"}
      BY <1>4, <2>1 DEF Flip, TypeOK
    <3>. QED  BY <3>1 DEF OpenerOK, SenseOK
  <2>8. EpisodeOK'
    <3>1. \A u \in Thread : Over(u) = left[u]
      BY <2>1 DEF Over
    <3>2. \A u \in Thread : Over(u)' = left[u] + 1
      BY <1>4, <2>1, <2>2 DEF Flip, TypeOK, EpisodeOK, Over
    <3>. QED  BY <1>4, <3>1, <3>2 DEF Flip, TypeOK, EpisodeOK
  <2>. QED  BY <2>5, <2>6, <2>7, <2>8
<1>5. ASSUME NEW t \in Thread, Spin(t) PROVE IInv'
  <2>1. Arrived' = Arrived /\ my_num_threads' = my_num_threads
    BY <1>5 DEF Spin, Arrived, TypeOK, my_num_threads
  <2>2. TypeOK'
    <3>1. entered[t] = left[t] + 1
      BY <1>5 DEF Spin, EpisodeOK
    <3>2. left[t] + 1 \in 0 .. Episodes
      BY <3>1 DEF TypeOK
    <3>. QED  BY <1>5, <3>2, <2>1 DEF Spin, TypeOK
  <2>3. CountOK'
    BY <1>5, <2>1 DEF Spin, TypeOK, CountOK
  <2>4. OpenerOK'
    BY <1>5, <2>1 DEF Spin, TypeOK, OpenerOK
  <2>5. SenseOK'
    BY <1>5 DEF Spin, TypeOK, SenseOK
  <2>6. EpisodeOK'
    <3>1. \A u \in Thread : Over(u)' = Over(u)
      BY <1>5 DEF Spin, TypeOK, EpisodeOK, Over
    <3>. QED  BY <1>5, <3>1 DEF Spin, TypeOK, EpisodeOK
  <2>. QED  BY <2>2, <2>3, <2>4, <2>5, <2>6
<1>6. CASE UNCHANGED vars
  BY <1>6 DEF vars, TypeOK, CountOK, OpenerOK, SenseOK, EpisodeOK, Over,
              Arrived, my_num_threads
<1>. QED  BY <1>1, <1>2, <1>3, <1>4, <1>5, <1>6 DEF Next, Step

(* IInv holds in every reachable state, TypeOK with it: count never goes   *)
(* below 0 and never exceeds the number of threads.                        *)
THEOREM Invariance == Spec => []IInv
<1>. QED  BY InitInv, NextInv, PTL DEF Spec

(* What a thread has left is at most what the invariant says all agree on. *)
LEMMA OverBounds ==
  ASSUME IInv, NEW t \in Thread
  PROVE  left[t] <= Over(t) /\ Over(t) <= entered[t]
  BY DEF IInv, TypeOK, EpisodeOK, Over

LEMMA InvSafe == IInv => BarrierSafety
<1>. SUFFICES ASSUME IInv, NEW p \in Thread, NEW q \in Thread
              PROVE  left[p] <= entered[q]
  BY DEF BarrierSafety
<1>1. left[p] <= Over(p) /\ Over(q) <= entered[q] /\ Over(p) = Over(q)
  BY OverBounds DEF IInv, EpisodeOK
<1>. QED  BY <1>1 DEF IInv, TypeOK, Over

(* No thread leaves the counter barrier before all have entered it. *)
THEOREM Safety == Spec => []BarrierSafety
<1>. QED  BY Invariance, InvSafe, PTL

(* Every step of gtmp_counter.c is a step of the abstract barrier: the     *)
(* call enters, the flip and the end of the spin leave, the rest stutters. *)
LEMMA StepSimulates ==
  IInv /\ [Next]_vars => [Abstract!BNext]_(Abstract!bvars)
<1>. SUFFICES ASSUME IInv, [Next]_vars
              PROVE  [Abstract!BNext]_(Abstract!bvars)
  OBVIOUS
<1>. USE DEF IInv, Abstract!bvars
<1>1. ASSUME NEW t \in Thread, Call(t) PROVE Abstract!Enter(t)
  BY <1>1 DEF Call, TypeOK, EpisodeOK, Abstract!Enter
<1>2. ASSUME NEW t \in Thread, FetchAndSub(t) \/ Reset(t)
      PROVE  UNCHANGED <<entered, left>>
  BY <1>2 DEF FetchAndSub, Reset
<1>3. ASSUME NEW t \in Thread, Flip(t) PROVE Abstract!Leave(t)
  <2>1. \A u \in Thread : pc[u] # "out" /\ Over(u) = left[u]
    BY <1>3 DEF Flip, OpenerOK, Arrived, Over
  <2>2. \A u \in Thread : entered[u] = entered[t]
    BY <1>3, <2>1 DEF TypeOK, EpisodeOK
  <2>. QED  BY <1>3, <2>1, <2>2 DEF Flip, TypeOK, EpisodeOK, Abstract!Leave
<1>4. ASSUME NEW t \in Thread, Spin(t) PROVE Abstract!Leave(t)
  <2>1. \A u \in Thread : entered[u] >= entered[t]
    <3>. SUFFICES ASSUME NEW u \in Thread PROVE entered[u] >= entered[t]
      OBVIOUS
    <3>1. Over(t) = entered[t] /\ Over(t) = Over(u)
      BY <1>4 DEF Spin, EpisodeOK, Over
    <3>. QED  BY <3>1, OverBounds DEF TypeOK
  <2>. QED  BY <1>4, <2>1 DEF Spin, TypeOK, EpisodeOK, Abstract!Leave
<1>5. CASE UNCHANGED vars
  BY <1>5 DEF vars
<1>. QED  BY <1>1, <1>2, <1>3, <1>4, <1>5 DEF Next, Step, Abstract!BNext

(* The counter barrier implements the safety part of Barrier. *)
THEOREM Refinement == Spec => ImplementsBarrier
<1>1. Init => Abstract!BInit
  BY DEF Init, Abstract!BInit
<1>. QED  BY <1>1, Invariance, StepSimulates, PTL
          DEF Spec, ImplementsBarrier, Abstract!BSpec

=============================================================================
