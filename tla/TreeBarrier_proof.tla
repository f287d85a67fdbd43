------------------------- MODULE TreeBarrier_proof -------------------------
(***************************************************************************)
(* Proofs about TreeBarrier, for any number of threads and both versions:  *)
(* types, the counters, the order of the releases, that nobody leaves      *)
(* early, and that the tree implements Barrier.                            *)
(***************************************************************************)
EXTENDS TreeBarrier, WellFoundedInduction, FiniteSetTheorems,
        SequenceTheorems, TLAPS

-----------------------------------------------------------------------------
(* The tree.  Below a leaf hang the threads that share it: slot numbers    *)
(* them as a heap would, so that every arrival at a node, of a thread at   *)
(* its leaf or from a child, is an arrival of one of the two numbers whose *)
(* parent the node is.                                                     *)

slot(t) == IF t < num_leaves THEN v - 1 + 2 * t ELSE v + 2 * (t - num_leaves)
Child == (Node \ {0}) \cup {slot(t) : t \in Thread}

LEMMA LeastNumber ==
  ASSUME NEW S \in SUBSET Nat, S # {}
  PROVE  \E n \in S : \A m \in S : n <= m
<1>. DEFINE Less == OpToRel(<, Nat)
<1>1. \A x, y \in Nat : x < y => <<x, y>> \in Less
  BY Zenon DEF OpToRel
<1>. HIDE DEF Less
<1>2. IsWellFoundedOn(Less, Nat)
  BY Zenon, NatLessThanWellFounded DEF Less
<1>3. PICK n \in S : \A m \in S : ~ (<<m, n>> \in Less)
  BY <1>2, WFMin
<1>4. ASSUME NEW m \in S PROVE n <= m
  <2>1. m \in Nat /\ n \in Nat
    OBVIOUS
  <2>2. ~ (m < n)
    BY Zenon, <1>1, <1>3, <2>1
  <2>. QED  BY <2>1, <2>2
<1>. QED  BY <1>4

LEMMA TreeSize ==
  /\ v \in Nat /\ num_leaves \in Nat \ {0} /\ v = 2 * num_leaves
  /\ num_threads \in Nat /\ num_leaves < num_threads /\ num_threads <= v
  /\ Node \subseteq Nat /\ 0 \in Node
  BY TreeSizeAssumption, NumThreadsAssumption DEF num_leaves, Node

LEMMA SmallRemainder ==
  ASSUME NEW m \in Nat \ {0}, NEW t \in Nat, t < m
  PROVE  t % m = t
  OBVIOUS

LEMMA NextRemainder ==
  ASSUME NEW m \in Nat \ {0}, NEW t \in Nat, t >= m, t < 2 * m
  PROVE  t % m = t - m
  OBVIOUS

LEMMA Leaf ==
  ASSUME NEW t \in Thread
  PROVE  /\ mynode(t) \in Node
         /\ mynode(t) = num_leaves - 1 + (IF t < num_leaves THEN t ELSE t - num_leaves)
<1>1. t \in Nat /\ t < num_threads
  BY NumThreadsAssumption DEF Thread
<1>2. CASE t < num_leaves
  <2>1. t % num_leaves = t
    BY <1>1, <1>2, TreeSize, SmallRemainder
  <2>2. mynode(t) = num_leaves - 1 + t
    BY <2>1 DEF mynode
  <2>. QED  BY <1>1, <1>2, <2>2, TreeSize DEF Node
<1>3. CASE t >= num_leaves
  <2>1. t % num_leaves = t - num_leaves
    <3>1. t \in Nat /\ num_leaves \in Nat \ {0} /\ t >= num_leaves /\ t < 2 * num_leaves
      BY <1>1, <1>3, TreeSize
    <3>. QED  BY <3>1, NextRemainder
  <2>2. mynode(t) = num_leaves - 1 + (t - num_leaves)
    BY <2>1 DEF mynode
  <2>. QED  BY <1>1, <1>3, <2>2, TreeSize DEF Node
<1>. QED  BY <1>1, <1>2, <1>3, TreeSize

LEMMA Halves ==
  ASSUME NEW n \in Nat, NEW c \in Nat \ {0}
  PROVE  parent(c) = n <=> c \in {2 * n + 1, 2 * n + 2}
  BY DEF parent

LEMMA Slot ==
  ASSUME NEW t \in Thread
  PROVE  /\ slot(t) \in Nat /\ slot(t) > v - 2 /\ slot(t) \notin Node
         /\ parent(slot(t)) = mynode(t)
         /\ \A u \in Thread : slot(u) = slot(t) => u = t
<1>1. \A u \in Thread : u \in Nat
  BY NumThreadsAssumption DEF Thread
<1>2. /\ slot(t) \in Nat /\ slot(t) > v - 2 /\ slot(t) \notin Node /\ slot(t) \in Nat \ {0}
  BY <1>1, TreeSize DEF slot, Node
<1>3. parent(slot(t)) = mynode(t)
  <2>1. mynode(t) \in Nat
    BY Leaf, TreeSize
  <2>2. slot(t) \in {2 * mynode(t) + 1, 2 * mynode(t) + 2}
    BY <1>1, Leaf, TreeSize DEF slot
  <2>. QED  BY <1>2, <2>1, <2>2, Halves
<1>4. \A u \in Thread : slot(u) = slot(t) => u = t
  BY <1>1, TreeSize DEF slot
<1>. QED  BY <1>2, <1>3, <1>4

LEMMA Parent ==
  ASSUME NEW c \in Child
  PROVE  c \in Nat \ {0} /\ parent(c) \in Node /\ parent(c) < c
<1>1. CASE c \in Node \ {0}
  <2>1. c \in Nat /\ c > 0 /\ c <= v - 2
    BY <1>1, TreeSize DEF Node
  <2>2. parent(c) \in Nat /\ parent(c) < c
    BY <2>1 DEF parent
  <2>. QED  BY <2>1, <2>2, TreeSize DEF Node
<1>2. CASE c \in {slot(t) : t \in Thread}
  <2>1. PICK t \in Thread : c = slot(t)
    BY <1>2
  <2>2. c \in Nat \ {0}
    BY <2>1, Slot, TreeSize
  <2>3. parent(c) \in Node /\ parent(c) \in Nat /\ parent(c) <= v - 2
    BY <2>1, Slot, Leaf, TreeSize DEF Node
  <2>4. c > v - 2
    BY <2>1, Slot
  <2>. QED  BY <2>2, <2>3, <2>4, TreeSize
<1>. QED  BY <1>1, <1>2 DEF Child

(* A node expects as many arrivals as it has children.  *)
LEMMA Children ==
  ASSUME NEW n \in Node
  PROVE  /\ 2 * n + 1 \in Child
         /\ k(n) = IF 2 * n + 2 \in Child THEN 2 ELSE 1
<1>1. n \in Nat /\ n <= v - 2
  BY TreeSize DEF Node
<1>2. 2 * n + 1 \in Child
  <2>1. CASE 2 * n + 1 <= v - 2
    BY <1>1, <2>1, TreeSize DEF Child, Node
  <2>2. CASE 2 * n + 1 > v - 2
    <3>. DEFINE t == n - (num_leaves - 1)
    <3>1. t \in Thread /\ t < num_leaves
      BY <1>1, <2>2, TreeSize, NumThreadsAssumption DEF Thread
    <3>2. slot(t) = 2 * n + 1
      BY <1>1, <3>1, TreeSize DEF slot
    <3>. QED  BY <3>1, <3>2 DEF Child
  <2>. QED  BY <1>1, <2>1, <2>2, TreeSize
<1>3. CASE n < num_threads - 1
  <2>1. CASE 2 * n + 2 <= v - 2
    <3>1. 2 * n + 2 \in Node \ {0}
      BY <1>1, <2>1, TreeSize DEF Node
    <3>. QED  BY <1>2, <1>3, <3>1 DEF Child, k
  <2>2. CASE 2 * n + 2 > v - 2
    <3>. DEFINE t == n + 1
    <3>1. t \in Thread /\ t >= num_leaves
      BY <1>1, <1>3, <2>2, TreeSize, NumThreadsAssumption DEF Thread
    <3>2. slot(t) = 2 * n + 2
      BY <1>1, <3>1, TreeSize DEF slot
    <3>. QED  BY <1>2, <1>3, <3>1, <3>2 DEF Child, k
  <2>. QED  BY <1>1, <2>1, <2>2, TreeSize
<1>4. CASE n >= num_threads - 1
  <2>1. 2 * n + 2 \notin Node
    <3>1. 2 * n + 2 > v - 2
      BY <1>1, <1>4, TreeSize, NumThreadsAssumption
    <3>. QED  BY <1>1, <3>1, TreeSize DEF Node
  <2>2. \A t \in Thread : slot(t) # 2 * n + 2
    <3>. SUFFICES ASSUME NEW t \in Thread, slot(t) = 2 * n + 2 PROVE FALSE
      OBVIOUS
    <3>1. t \in Nat /\ t < num_threads
      BY NumThreadsAssumption DEF Thread
    <3>2. n >= num_leaves
      BY <1>1, <1>4, TreeSize, NumThreadsAssumption
    <3>. QED  BY <1>1, <1>4, <3>1, <3>2, TreeSize, NumThreadsAssumption DEF slot
  <2>. QED  BY <1>1, <1>2, <1>4, <2>1, <2>2, NumThreadsAssumption DEF Child, k
<1>. QED  BY <1>1, <1>2, <1>3, <1>4, NumThreadsAssumption

-----------------------------------------------------------------------------
(* The invariant. *)

(* The children through which t has arrived on its way up, its own slot    *)
(* first, and the one through which it has come to the node it is at.      *)
Carries(t) ==
  IF pc[t] = "out" THEN {}
  ELSE {slot(t)} \cup {stack[t][i] : i \in 2 .. Len(stack[t])}

into(t) == IF Len(stack[t]) = 1 THEN slot(t) ELSE stack[t][2]

Arriving(t) == pc[t] \in {"sub", "load", "store"}
Releasing(t) == pc[t] \in {"reset", "flip"}

(* The nodes that t is responsible for: it arrived there last, and will    *)
(* release them.                                                           *)
Holds(t) == Carries(t) \cup {n \in Node : Releasing(t) /\ node(t) = n}

(* The arrival of child c in the present episode of its parent is counted. *)
DeliveredBy(t, c) ==
  /\ c \in Carries(t)
  /\ released[parent(c)] = left[t]
  /\ ~ (Arriving(t) /\ node(t) = parent(c))
Delivered(c) == \E t \in Thread : DeliveredBy(t, c)

Arrived(c) == IF Delivered(c) THEN 1 ELSE 0
Full(n) == \A c \in Child : parent(c) = n => Delivered(c)

(* A stack is a path from a leaf towards the root. *)
StackOK ==
  \A t \in Thread :
    IF pc[t] = "out" THEN stack[t] = <<>>
    ELSE /\ Len(stack[t]) > 0 /\ stack[t][Len(stack[t])] = mynode(t)
         /\ \A i \in 1 .. Len(stack[t]) - 1 : stack[t][i] = parent(stack[t][i + 1])
         /\ \A i, j \in 1 .. Len(stack[t]) : i < j => stack[t][i] < stack[t][j]

(* Every sense a thread waits for is that of the episode it is in.         *)
SenseOK ==
  /\ \A n \in Node : locksense[n] = released[n] % 2
  /\ \A t \in Thread : IF pc[t] = "out" THEN entered[t] = left[t]
                       ELSE entered[t] = left[t] + 1 /\ sense[t] = entered[t] % 2

(* A thread in its episode e finds the nodes it holds, and the one at which*)
(* it arrives, released e - 1 times, and spins until that is e.            *)
EpisodeOK ==
  /\ \A t \in Thread : pc[t] = "out" => released[mynode(t)] = left[t]
  /\ \A t \in Thread : pc[t] # "out" =>
       \/ released[node(t)] = left[t]
       \/ pc[t] = "spin" /\ released[node(t)] = left[t] + 1
  /\ \A t \in Thread : \A c \in Carries(t) \cap Node : released[c] = left[t]

(* Releases descend: a node is as far as its parent or one release behind, *)
(* when somebody is on the way down to release it, and only then.          *)
DescentOK ==
  /\ \A n \in Node \ {0} :
       \/ released[parent(n)] = released[n]
       \/ released[parent(n)] = released[n] + 1 /\ \E t \in Thread : n \in Holds(t)
  /\ \A t \in Thread : Releasing(t) /\ node(t) # 0 => released[parent(node(t))] = left[t] + 1

(* One thread at most holds a node, and only after all arrivals there.     *)
HolderOK ==
  /\ \A t, u \in Thread : t # u => Holds(t) \cap Holds(u) = {}
  /\ \A t \in Thread : \A n \in Holds(t) \cap Node : Full(n)

(* A node misses the arrivals that are not counted, or all between the     *)
(* reset and the release.                                                  *)
BeingFlipped(n) == \E t \in Thread : pc[t] = "flip" /\ node(t) = n
MissingOK ==
  \A n \in Node :
    count[n] = IF BeingFlipped(n) THEN k(n)
               ELSE k(n) - Arrived(2 * n + 1) - Arrived(2 * n + 2)

(* Nothing comes between the accesses of a critical section.               *)
SectionOK ==
  /\ version = "atomic" => \A t \in Thread : pc[t] \notin {"load", "store"}
  /\ \A t \in Thread :
       /\ pc[t] \in {"load", "store"} <=> critical = t
       /\ pc[t] \in {"load", "store"} => test[t] = count[node(t)]
       /\ pc[t] = "store" => load[t] = count[node(t)]

(* The root is released when everybody has entered. *)
RootOK == \A t \in Thread : released[0] <= entered[t]

TreeInv == StackOK /\ SenseOK /\ EpisodeOK /\ DescentOK /\ HolderOK /\ MissingOK /\ RootOK
IInv == TypeOK /\ TreeInv /\ SectionOK

-----------------------------------------------------------------------------
(* The stacks: what a thread carries, and how that changes. *)

LEMMA CarriedBy ==
  ASSUME NEW t \in Thread, NEW c
  PROVE  c \in Carries(t) <=>
           pc[t] # "out" /\ (c = slot(t) \/ \E i \in 2 .. Len(stack[t]) : c = stack[t][i])
  BY Zenon DEF Carries

LEMMA Path ==
  ASSUME TypeOK, StackOK, NEW t \in Thread, pc[t] # "out"
  PROVE  /\ Len(stack[t]) \in Nat \ {0}
         /\ node(t) = stack[t][1] /\ node(t) \in Node
         /\ \A i \in 1 .. Len(stack[t]) : stack[t][i] \in Node /\ stack[t][i] \in Nat
         /\ \A i \in 2 .. Len(stack[t]) :
              stack[t][i] # 0 /\ stack[t][i - 1] = parent(stack[t][i]) /\ stack[t][i] > node(t)
<1>1. stack[t] \in Seq(Node) /\ Len(stack[t]) \in Nat \ {0}
  BY DEF TypeOK, StackOK
<1>2. \A i \in 1 .. Len(stack[t]) : stack[t][i] \in Node /\ stack[t][i] \in Nat
  <2>. SUFFICES ASSUME NEW i \in 1 .. Len(stack[t]) PROVE stack[t][i] \in Node
    BY TreeSize
  <2>. QED  BY <1>1
<1>3. node(t) = stack[t][1]
  BY <1>1 DEF node
<1>4. ASSUME NEW i \in 2 .. Len(stack[t])
      PROVE  stack[t][i] # 0 /\ stack[t][i - 1] = parent(stack[t][i]) /\ stack[t][i] > node(t)
  <2>1. i - 1 \in 1 .. Len(stack[t]) - 1 /\ i \in 1 .. Len(stack[t]) /\ 1 \in 1 .. Len(stack[t]) /\ 1 < i
        /\ (i - 1) + 1 = i
    BY <1>1
  <2>2. stack[t][i - 1] = parent(stack[t][i])
    BY <2>1 DEF StackOK
  <2>3. stack[t][1] < stack[t][i]
    BY <2>1 DEF StackOK
  <2>4. stack[t][1] \in Nat /\ stack[t][i] \in Nat
    BY <1>2, <2>1
  <2>. QED  BY <1>3, <2>2, <2>3, <2>4
<1>. QED  BY <1>1, <1>2, <1>3, <1>4

LEMMA Carried ==
  ASSUME TypeOK, StackOK, NEW t \in Thread, pc[t] # "out"
  PROVE  /\ into(t) \in Carries(t) /\ parent(into(t)) = node(t)
         /\ slot(t) \in Carries(t)
         /\ \A c \in Carries(t) :
              /\ c \in Child /\ c > node(t) /\ parent(c) >= node(t)
              /\ parent(c) = node(t) => c = into(t)
<1>0. Len(stack[t]) \in Nat \ {0}
  BY Path
<1>1. into(t) \in Carries(t) /\ parent(into(t)) = node(t)
  <2>1. CASE Len(stack[t]) = 1
    <3>1. node(t) = mynode(t)
      BY <2>1, Path DEF StackOK
    <3>. QED  BY <2>1, <3>1, CarriedBy, Slot DEF into
  <2>2. CASE Len(stack[t]) # 1
    <3>1. 2 \in 2 .. Len(stack[t]) /\ 2 - 1 = 1
      BY <1>0, <2>2
    <3>. QED  BY <2>2, <3>1, CarriedBy, Path DEF into
  <2>. QED  BY <2>1, <2>2
<1>2. ASSUME NEW c \in Carries(t)
      PROVE  /\ c \in Child /\ c > node(t) /\ parent(c) >= node(t)
             /\ parent(c) = node(t) => c = into(t)
  <2>1. CASE c = slot(t)
    <3>1. c \in Child /\ c > node(t)
      BY <2>1, Slot, Path, TreeSize DEF Child, Node
    <3>2. ASSUME parent(c) = node(t), Len(stack[t]) # 1 PROVE FALSE
      <4>1. Len(stack[t]) \in 2 .. Len(stack[t])
        <5>1. \A n \in Nat \ {0} : n # 1 => n \in 2 .. n
          OBVIOUS
        <5>. QED  BY Zenon, <1>0, <3>2, <5>1
      <4>2. stack[t][Len(stack[t])] > node(t) /\ stack[t][Len(stack[t])] = mynode(t)
        BY <4>1, Path DEF StackOK
      <4>3. mynode(t) = node(t) /\ mynode(t) \in Nat
        BY <2>1, <3>2, Slot, Leaf, TreeSize
      <4>. QED  BY <4>2, <4>3
    <3>3. parent(c) >= node(t)
      <4>1. parent(c) = stack[t][Len(stack[t])] /\ Len(stack[t]) \in 1 .. Len(stack[t])
        BY <1>0, <2>1, Slot DEF StackOK
      <4>2. CASE Len(stack[t]) = 1
        BY <4>1, <4>2, Path
      <4>3. CASE Len(stack[t]) # 1
        <5>1. \A n \in Nat \ {0} : n # 1 => n \in 2 .. n
          OBVIOUS
        <5>2. stack[t][Len(stack[t])] > node(t)
          BY Zenon, <1>0, <4>3, <5>1, Path
        <5>3. stack[t][Len(stack[t])] \in Nat /\ node(t) \in Nat
          BY <4>1, Path, TreeSize
        <5>. QED  BY <4>1, <5>2, <5>3
      <4>. QED  BY <4>2, <4>3
    <3>. QED  BY <2>1, <3>1, <3>2, <3>3 DEF into
  <2>2. CASE c # slot(t)
    <3>1. PICK i \in 2 .. Len(stack[t]) : c = stack[t][i]
        BY <2>2, CarriedBy
    <3>2. c \in Child /\ c > node(t)
      <4>1. i \in 1 .. Len(stack[t])
        BY <1>0
      <4>. QED  BY <3>1, <4>1, Path DEF Child
    <3>3. ASSUME parent(c) = node(t) PROVE c = into(t)
      <4>1. CASE i = 2
        BY <1>0, <3>1, <4>1 DEF into
      <4>2. CASE i # 2
        <5>1. i - 1 \in 2 .. Len(stack[t]) /\ i - 1 \in 1 .. Len(stack[t])
          BY <1>0, <4>2
        <5>2. stack[t][i - 1] > node(t) /\ stack[t][i - 1] = parent(c) /\ stack[t][i - 1] \in Nat
          BY <3>1, <5>1, Path
        <5>. QED  BY <3>3, <5>2
      <4>. QED  BY <4>1, <4>2
    <3>4. parent(c) >= node(t)
      <4>1. parent(c) = stack[t][i - 1] /\ i - 1 \in 1 .. Len(stack[t])
        BY <1>0, <3>1, Path
      <4>2. stack[t][i - 1] \in Nat /\ node(t) \in Nat
        BY <4>1, Path, TreeSize
      <4>3. CASE i = 2
        BY <4>1, <4>2, <4>3, Path
      <4>4. CASE i # 2
        <5>1. i - 1 \in 2 .. Len(stack[t])
          BY <1>0, <4>4
        <5>2. stack[t][i - 1] > node(t)
          BY <5>1, Path
        <5>. QED  BY <4>1, <4>2, <5>2
      <4>. QED  BY <4>3, <4>4
    <3>. QED  BY <3>2, <3>3, <3>4
  <2>. QED  BY <2>1, <2>2
<1>. QED  BY <1>1, <1>2, CarriedBy

(* A thread of which neither pc nor stack changes. *)
LEMMA CarriesSame ==
  ASSUME NEW u \in Thread, stack'[u] = stack[u], pc'[u] = "out" <=> pc[u] = "out"
  PROVE  Carries(u)' = Carries(u) /\ node(u)' = node(u) /\ into(u)' = into(u)
  BY DEF Carries, node, into, slot

LEMMA CarriesFirst ==
  ASSUME TypeOK, StackOK, NEW t \in Thread, pc[t] = "out",
         stack' = [stack EXCEPT ![t] = <<mynode(t)>>],
         pc' = [pc EXCEPT ![t] = "sub"]
  PROVE  StackOK' /\ Carries(t)' = {slot(t)} /\ node(t)' = mynode(t)
<1>1. stack'[t] = <<mynode(t)>> /\ pc'[t] = "sub"
  BY DEF TypeOK
<1>2. Len(stack'[t]) = 1 /\ stack'[t][1] = mynode(t)
  BY <1>1
<1>3. \A u \in Thread : u # t => stack'[u] = stack[u] /\ pc'[u] = pc[u]
  BY DEF TypeOK
<1>4. StackOK'
  <2>. SUFFICES ASSUME NEW u \in Thread
                PROVE  (IF pc[u] = "out" THEN stack[u] = <<>>
    ELSE /\ Len(stack[u]) > 0 /\ stack[u][Len(stack[u])] = mynode(u)
         /\ \A i \in 1 .. Len(stack[u]) - 1 : stack[u][i] = parent(stack[u][i + 1])
         /\ \A i, j \in 1 .. Len(stack[u]) : i < j => stack[u][i] < stack[u][j])'
    BY DEF StackOK
  <2>1. CASE u = t
    BY <1>1, <1>2, <2>1 DEF mynode
  <2>2. CASE u # t
    BY <1>3, <2>2 DEF StackOK, mynode
  <2>. QED  BY <2>1, <2>2
<1>5. Carries(t)' = {slot(t)}
  BY <1>1, <1>2 DEF Carries, slot
<1>. QED  BY <1>1, <1>2, <1>4, <1>5 DEF node


LEMMA CarriesPushed ==
  ASSUME TypeOK, StackOK, NEW t \in Thread, pc[t] # "out", node(t) # 0,
         stack' = [stack EXCEPT ![t] = <<parent(node(t))>> \o @],
         pc' = [pc EXCEPT ![t] = "sub"]
  PROVE  StackOK' /\ Carries(t)' = Carries(t) \cup {node(t)} /\ node(t)' = parent(node(t))
<1>. DEFINE s == stack[t]
            p == parent(node(t))
<1>1. stack'[t] = <<p>> \o s /\ pc'[t] = "sub" /\ s \in Seq(Node)
  BY DEF TypeOK
<1>2. Len(s) \in Nat \ {0} /\ node(t) = s[1] /\ node(t) \in Node \ {0} /\ 1 \in 1 .. Len(s)
  BY Path
<1>3. p \in Node /\ p \in Nat /\ p < node(t)
  BY <1>2, Parent, TreeSize DEF Child
<1>4. Len(stack'[t]) = Len(s) + 1 /\ stack'[t][1] = p
      /\ \A i \in 1 .. Len(s) : stack'[t][i + 1] = s[i]
  BY <1>1, <1>3
<1>5. \A i \in 2 .. Len(s) + 1 : i - 1 \in 1 .. Len(s) /\ stack'[t][i] = s[i - 1]
  <2>. SUFFICES ASSUME NEW i \in 2 .. Len(s) + 1
                PROVE  i - 1 \in 1 .. Len(s) /\ stack'[t][i] = s[i - 1]
    OBVIOUS
  <2>1. i - 1 \in 1 .. Len(s) /\ (i - 1) + 1 = i
    BY <1>2
  <2>. QED  BY <1>4, <2>1
<1>6. \A i \in 1 .. Len(s) : s[i] \in Nat /\ p < s[i]
  <2>. SUFFICES ASSUME NEW i \in 1 .. Len(s) PROVE s[i] \in Nat /\ p < s[i]
    OBVIOUS
  <2>1. CASE i = 1
    BY <1>2, <1>3, <2>1, Path
  <2>2. CASE i # 1
    <3>1. i \in 2 .. Len(s)
      BY <1>2, <2>2
    <3>2. s[i] \in Nat /\ s[i] > node(t) /\ node(t) \in Nat
      BY <1>2, <3>1, Path, TreeSize
    <3>. QED  BY <1>3, <3>2
  <2>. QED  BY <2>1, <2>2
<1>7. Len(stack'[t]) > 0 /\ stack'[t][Len(stack'[t])] = mynode(t)
  <2>1. Len(s) \in 1 .. Len(s) /\ s[Len(s)] = mynode(t)
    BY <1>2 DEF StackOK
  <2>. QED  BY <1>2, <1>4, <2>1
<1>8. \A i \in 1 .. Len(stack'[t]) - 1 : stack'[t][i] = parent(stack'[t][i + 1])
  <2>. SUFFICES ASSUME NEW i \in 1 .. Len(s) PROVE stack'[t][i] = parent(stack'[t][i + 1])
    BY <1>2, <1>4
  <2>1. CASE i = 1
    BY <1>2, <1>4, <2>1
  <2>2. CASE i # 1
    <3>1. i \in 2 .. Len(s) /\ i \in 2 .. Len(s) + 1
      BY <1>2, <2>2
    <3>2. stack'[t][i] = s[i - 1] /\ s[i - 1] = parent(s[i])
      BY <1>5, <3>1, Path
    <3>. QED  BY <1>4, <3>2
  <2>. QED  BY <2>1, <2>2
<1>9. \A i, j \in 1 .. Len(stack'[t]) : i < j => stack'[t][i] < stack'[t][j]
  <2>. SUFFICES ASSUME NEW i \in 1 .. Len(s) + 1, NEW j \in 1 .. Len(s) + 1, i < j
                PROVE  stack'[t][i] < stack'[t][j]
    BY <1>4
  <2>1. j \in 2 .. Len(s) + 1
    BY <1>2
  <2>2. stack'[t][j] = s[j - 1] /\ j - 1 \in 1 .. Len(s)
    BY <1>5, <2>1
  <2>3. CASE i = 1
    BY <1>4, <1>6, <2>2, <2>3
  <2>4. CASE i # 1
    <3>1. i \in 2 .. Len(s) + 1
      BY <1>2, <2>4
    <3>2. stack'[t][i] = s[i - 1] /\ i - 1 \in 1 .. Len(s) /\ i - 1 < j - 1
      BY <1>2, <1>5, <3>1
    <3>3. s[i - 1] < s[j - 1]
      BY <2>2, <3>2 DEF StackOK
    <3>. QED  BY <2>2, <3>2, <3>3
  <2>. QED  BY <2>3, <2>4
<1>10. StackOK'
  <2>. SUFFICES ASSUME NEW u \in Thread
                PROVE  (IF pc[u] = "out" THEN stack[u] = <<>>
    ELSE /\ Len(stack[u]) > 0 /\ stack[u][Len(stack[u])] = mynode(u)
         /\ \A i \in 1 .. Len(stack[u]) - 1 : stack[u][i] = parent(stack[u][i + 1])
         /\ \A i, j \in 1 .. Len(stack[u]) : i < j => stack[u][i] < stack[u][j])'
    BY DEF StackOK
  <2>1. CASE u = t
    BY Zenon, <1>1, <1>7, <1>8, <1>9, <2>1 DEF mynode, parent
  <2>2. CASE u # t
    <3>1. stack'[u] = stack[u] /\ pc'[u] = pc[u]
      BY <2>2 DEF TypeOK
    <3>. QED  BY <3>1 DEF StackOK, mynode, parent
  <2>. QED  BY <2>1, <2>2
<1>11. Carries(t)' = Carries(t) \cup {node(t)}
  <2>. SUFFICES ASSUME NEW c PROVE c \in Carries(t)' <=> c \in Carries(t) \/ c = s[1]
    BY <1>2
  <2>1. c \in Carries(t)' <=> c = slot(t) \/ \E i \in 2 .. Len(s) + 1 : c = stack'[t][i]
    BY <1>1, <1>4 DEF Carries, slot
  <2>2. (\E i \in 2 .. Len(s) + 1 : c = stack'[t][i]) <=> \E i \in 1 .. Len(s) : c = s[i]
    <3>1. \A i \in 1 .. Len(s) : i + 1 \in 2 .. Len(s) + 1 /\ stack'[t][i + 1] = s[i]
      BY <1>2, <1>4
    <3>. QED  BY Zenon, <1>5, <3>1
  <2>3. (\E i \in 1 .. Len(s) : c = s[i]) <=> (\E i \in 2 .. Len(s) : c = s[i]) \/ c = s[1]
    <3>1. /\ \A i \in 1 .. Len(s) : i = 1 \/ i \in 2 .. Len(s)
          /\ \A i \in 2 .. Len(s) : i \in 1 .. Len(s)
          /\ 1 \in 1 .. Len(s)
      BY <1>2
    <3>. QED  BY Zenon, <3>1
  <2>4. c \in Carries(t) <=> c = slot(t) \/ \E i \in 2 .. Len(s) : c = s[i]
    BY CarriedBy
  <2>. QED  BY Zenon, <2>1, <2>2, <2>3, <2>4
<1>12. node(t)' = p
  BY <1>1, <1>3, <1>4 DEF node
<1>. QED  BY <1>10, <1>11, <1>12

LEMMA CarriesPopped ==
  ASSUME TypeOK, StackOK, NEW t \in Thread, pc[t] # "out", Len(stack[t]) > 1,
         stack' = [stack EXCEPT ![t] = Tail(@)],
         pc' = [pc EXCEPT ![t] = "reset"]
  PROVE  StackOK' /\ Carries(t)' = Carries(t) \ {into(t)} /\ node(t)' = into(t)
<1>. DEFINE s == stack[t]
<1>1. stack'[t] = Tail(s) /\ pc'[t] = "reset" /\ s \in Seq(Node) /\ s # <<>>
  BY DEF TypeOK
<1>2. Len(s) \in Nat /\ Len(s) > 1
  BY Path
<1>3. Len(stack'[t]) = Len(s) - 1 /\ \A i \in 1 .. Len(s) - 1 : stack'[t][i] = s[i + 1]
  <2>1. \A q \in Seq(Node) : q # <<>> =>
          Len(Tail(q)) = Len(q) - 1 /\ \A i \in 1 .. Len(q) - 1 : Tail(q)[i] = q[i + 1]
    OBVIOUS
  <2>. QED  BY Zenon, <1>1, <2>1
<1>4. Len(stack'[t]) > 0 /\ stack'[t][Len(stack'[t])] = mynode(t)
  <2>1. Len(s) - 1 \in 1 .. Len(s) - 1 /\ (Len(s) - 1) + 1 = Len(s) /\ s[Len(s)] = mynode(t)
    <3>1. \A n \in Nat : n > 1 => n - 1 \in 1 .. n - 1 /\ (n - 1) + 1 = n
      OBVIOUS
    <3>2. s[Len(s)] = mynode(t)
      BY DEF StackOK
    <3>. QED  BY Zenon, <1>2, <3>1, <3>2
  <2>2. Len(stack'[t]) > 0
    BY <1>2, <1>3
  <2>3. stack'[t][Len(s) - 1] = s[(Len(s) - 1) + 1]
    BY Zenon, <1>3, <2>1
  <2>4. stack'[t][Len(stack'[t])] = stack'[t][Len(s) - 1]
    <3>1. \A m, n : m = n => stack'[t][m] = stack'[t][n]
      OBVIOUS
    <3>2. Len(stack'[t]) = Len(s) - 1
      BY <1>3
    <3>. QED  BY Zenon, <3>1, <3>2
  <2>. QED  BY Zenon, <2>1, <2>2, <2>3, <2>4
<1>5. \A i \in 1 .. Len(stack'[t]) - 1 : stack'[t][i] = parent(stack'[t][i + 1])
  <2>. SUFFICES ASSUME NEW i \in 1 .. (Len(s) - 1) - 1
                PROVE  stack'[t][i] = parent(stack'[t][i + 1])
    BY Zenon, <1>3
  <2>1. i \in 1 .. Len(s) - 1 /\ i + 1 \in 1 .. Len(s) - 1
    BY <1>2
  <2>2. s[i + 1] = parent(s[(i + 1) + 1])
    BY <2>1 DEF StackOK
  <2>. QED  BY <1>3, <2>1, <2>2
<1>6. \A i, j \in 1 .. Len(stack'[t]) : i < j => stack'[t][i] < stack'[t][j]
  <2>. SUFFICES ASSUME NEW i \in 1 .. Len(s) - 1, NEW j \in 1 .. Len(s) - 1, i < j
                PROVE  stack'[t][i] < stack'[t][j]
    BY <1>3
  <2>1. i + 1 \in 1 .. Len(s) /\ j + 1 \in 1 .. Len(s) /\ i + 1 < j + 1
    BY <1>2
  <2>2. s[i + 1] < s[j + 1]
    BY <2>1 DEF StackOK
  <2>. QED  BY <1>3, <2>2
<1>7. StackOK'
  <2>. SUFFICES ASSUME NEW u \in Thread
                PROVE  (IF pc[u] = "out" THEN stack[u] = <<>>
    ELSE /\ Len(stack[u]) > 0 /\ stack[u][Len(stack[u])] = mynode(u)
         /\ \A i \in 1 .. Len(stack[u]) - 1 : stack[u][i] = parent(stack[u][i + 1])
         /\ \A i, j \in 1 .. Len(stack[u]) : i < j => stack[u][i] < stack[u][j])'
    BY DEF StackOK
  <2>1. CASE u = t
    BY Zenon, <1>1, <1>4, <1>5, <1>6, <2>1 DEF mynode, parent
  <2>2. CASE u # t
    <3>1. stack'[u] = stack[u] /\ pc'[u] = pc[u]
      BY <2>2 DEF TypeOK
    <3>. QED  BY <3>1 DEF StackOK, mynode, parent
  <2>. QED  BY <2>1, <2>2
<1>8. into(t) = s[2]
  BY <1>2 DEF into
<1>9. Carries(t)' = Carries(t) \ {into(t)}
  <2>. SUFFICES ASSUME NEW c PROVE c \in Carries(t)' <=> c \in Carries(t) /\ c # s[2]
    BY <1>8
  <2>1. c \in Carries(t)' <=> c = slot(t) \/ \E i \in 2 .. Len(s) - 1 : c = stack'[t][i]
    BY <1>1, <1>3 DEF Carries, slot
  <2>2. (\E i \in 2 .. Len(s) - 1 : c = stack'[t][i]) <=> \E i \in 3 .. Len(s) : c = s[i]
    <3>1. ASSUME NEW i \in 2 .. Len(s) - 1, c = stack'[t][i] PROVE \E j \in 3 .. Len(s) : c = s[j]
      <4>1. i \in 1 .. Len(s) - 1 /\ i + 1 \in 3 .. Len(s)
        BY <1>2
      <4>. QED  BY <1>3, <3>1, <4>1
    <3>2. ASSUME NEW j \in 3 .. Len(s), c = s[j] PROVE \E i \in 2 .. Len(s) - 1 : c = stack'[t][i]
      <4>1. j - 1 \in 1 .. Len(s) - 1 /\ j - 1 \in 2 .. Len(s) - 1 /\ (j - 1) + 1 = j
        BY <1>2
      <4>. QED  BY <1>3, <3>2, <4>1
    <3>. QED  BY <3>1, <3>2
  <2>3. s[2] # slot(t)
    <3>1. 2 \in 1 .. Len(s)
      BY <1>2
    <3>. QED  BY <3>1, Path, Slot
  <2>4. (\E i \in 2 .. Len(s) : c = s[i]) /\ c # s[2] <=> \E i \in 3 .. Len(s) : c = s[i]
    <3>1. \A i \in 3 .. Len(s) : i \in 2 .. Len(s) /\ s[i] # s[2]
      <4>. SUFFICES ASSUME NEW i \in 3 .. Len(s) PROVE i \in 2 .. Len(s) /\ s[i] # s[2]
        OBVIOUS
      <4>1. 2 \in 1 .. Len(s) /\ i \in 1 .. Len(s) /\ 2 < i /\ i \in 2 .. Len(s)
        BY <1>2
      <4>2. s[2] < s[i] /\ s[2] \in Nat /\ s[i] \in Nat
        BY <4>1, Path DEF StackOK
      <4>. QED  BY <4>1, <4>2
    <3>2. \A i \in 2 .. Len(s) : i = 2 \/ i \in 3 .. Len(s)
      BY <1>2
    <3>. QED  BY Zenon, <3>1, <3>2
  <2>5. c \in Carries(t) <=> c = slot(t) \/ \E i \in 2 .. Len(s) : c = s[i]
    BY CarriedBy
  <2>. QED  BY Zenon, <2>1, <2>2, <2>3, <2>4, <2>5
<1>10. node(t)' = s[2]
  <2>1. 1 \in 1 .. Len(s) - 1 /\ stack'[t] \in Seq(Node)
    BY <1>1, <1>2
  <2>2. stack'[t][1] = s[2]
    BY <1>3, <2>1
  <2>. QED  BY <2>1, <2>2 DEF node
<1>. QED  BY <1>7, <1>8, <1>9, <1>10

LEMMA CarriesNone ==
  ASSUME TypeOK, StackOK, NEW t \in Thread, pc[t] # "out", Len(stack[t]) = 1,
         stack' = [stack EXCEPT ![t] = Tail(@)],
         pc' = [pc EXCEPT ![t] = "out"]
  PROVE  StackOK' /\ Carries(t)' = {} /\ Carries(t) = {slot(t)} /\ node(t) = mynode(t)
<1>1. stack'[t] = <<>> /\ pc'[t] = "out"
  <2>1. \A q \in Seq(Node) : Len(q) = 1 => Tail(q) = <<>>
    <3>. SUFFICES ASSUME NEW q \in Seq(Node), Len(q) = 1 PROVE Tail(q) = <<>>
      OBVIOUS
    <3>1. Tail(q) \in Seq(Node) /\ Len(Tail(q)) = 0
      OBVIOUS
    <3>. QED  BY <3>1, EmptySeq
  <2>2. stack'[t] = Tail(stack[t]) /\ stack[t] \in Seq(Node) /\ pc'[t] = "out"
    BY DEF TypeOK
  <2>. QED  BY Zenon, <2>1, <2>2
<1>2. StackOK'
  <2>. SUFFICES ASSUME NEW u \in Thread
                PROVE  (IF pc[u] = "out" THEN stack[u] = <<>>
    ELSE /\ Len(stack[u]) > 0 /\ stack[u][Len(stack[u])] = mynode(u)
         /\ \A i \in 1 .. Len(stack[u]) - 1 : stack[u][i] = parent(stack[u][i + 1])
         /\ \A i, j \in 1 .. Len(stack[u]) : i < j => stack[u][i] < stack[u][j])'
    BY DEF StackOK
  <2>1. CASE u = t
    BY <1>1, <2>1
  <2>2. CASE u # t
    <3>1. stack'[u] = stack[u] /\ pc'[u] = pc[u]
      BY <2>2 DEF TypeOK
    <3>. QED  BY <3>1 DEF StackOK, mynode, parent
  <2>. QED  BY <2>1, <2>2
<1>3. Carries(t)' = {}
  BY <1>1 DEF Carries
<1>4. Carries(t) = {slot(t)}
  BY DEF Carries
<1>5. node(t) = mynode(t)
  BY Path DEF StackOK
<1>. QED  BY <1>2, <1>3, <1>4, <1>5


-----------------------------------------------------------------------------
(* What the invariant says of a node. *)

LEMMA DeliveredChild ==
  ASSUME TypeOK, StackOK, NEW c, Delivered(c)
  PROVE  c \in Child
<1>1. PICK t \in Thread : c \in Carries(t)
  BY DEF Delivered, DeliveredBy
<1>2. pc[t] # "out"
  BY <1>1, CarriedBy
<1>. QED  BY <1>1, <1>2, Carried

(* Whoever has come to a full node in this episode is counted there. *)
LEMMA CarrierCounted ==
  ASSUME TypeOK, TreeInv, NEW n \in Node, Full(n), NEW t \in Thread,
         NEW c \in Carries(t), parent(c) = n
  PROVE  released[n] = left[t] /\ ~ (Arriving(t) /\ node(t) = n)
<1>1. pc[t] # "out"
  BY CarriedBy
<1>2. c \in Child
  BY <1>1, Carried DEF TreeInv
<1>3. PICK w \in Thread : /\ c \in Carries(w)
                          /\ released[parent(c)] = left[w]
                          /\ ~ (Arriving(w) /\ node(w) = parent(c))
  BY <1>2 DEF Full, Delivered, DeliveredBy
<1>4. w = t
  BY <1>3 DEF TreeInv, HolderOK, Holds
<1>. QED  BY <1>3, <1>4

LEMMA FullChild ==
  ASSUME TypeOK, TreeInv, NEW n \in Node, Full(n), NEW c \in Child, parent(c) = n
  PROVE  /\ c \in Node => released[c] = released[n] /\ Full(c)
         /\ \A t \in Thread : c = slot(t) => pc[t] # "out" /\ left[t] = released[n]
<1>1. PICK w \in Thread : c \in Carries(w) /\ released[n] = left[w]
  BY DEF Full, Delivered, DeliveredBy
<1>2. c \in Node => released[c] = released[n] /\ Full(c)
  BY <1>1 DEF TreeInv, EpisodeOK, HolderOK, Holds
<1>3. ASSUME NEW t \in Thread, c = slot(t) PROVE t = w
  <2>1. pc[w] # "out"
    BY <1>1, CarriedBy
  <2>2. CASE c = slot(w)
    BY <1>3, <2>2, Slot
  <2>3. CASE c # slot(w)
    <3>1. PICK i \in 2 .. Len(stack[w]) : c = stack[w][i]
      BY <1>1, <2>3, CarriedBy
    <3>2. i \in 1 .. Len(stack[w])
      BY <2>1, Path DEF TreeInv
    <3>3. c \in Node
      BY <2>1, <3>1, <3>2, Path DEF TreeInv
    <3>. QED  BY <1>3, <3>3, Slot
  <2>. QED  BY <2>2, <2>3
<1>4. pc[w] # "out"
  BY <1>1, CarriedBy
<1>. QED  BY <1>1, <1>2, <1>3, <1>4

LEMMA ReleaserFacts ==
  ASSUME TypeOK, TreeInv, NEW t \in Thread, Releasing(t)
  PROVE  /\ pc[t] # "out" /\ node(t) \in Node /\ node(t) \in Holds(t)
         /\ Full(node(t)) /\ released[node(t)] = left[t]
         /\ node(t) \notin Carries(t)
         /\ \A u \in Thread : u # t => node(t) \notin Holds(u)
<1>1. pc[t] # "out" /\ pc[t] # "spin"
  BY DEF Releasing
<1>2. node(t) \in Node /\ node(t) \in Nat
  BY <1>1, Path, TreeSize DEF TreeInv
<1>3. node(t) \in Holds(t)
  BY <1>2 DEF Holds
<1>4. Full(node(t)) /\ \A u \in Thread : u # t => node(t) \notin Holds(u)
  BY <1>2, <1>3 DEF TreeInv, HolderOK
<1>5. released[node(t)] = left[t]
  BY <1>1 DEF TreeInv, EpisodeOK
<1>6. node(t) \notin Carries(t)
  <2>. SUFFICES ASSUME node(t) \in Carries(t) PROVE FALSE
    OBVIOUS
  <2>1. node(t) > node(t)
    BY <1>1, Carried DEF TreeInv
  <2>. QED  BY <1>2, <2>1
<1>. QED  BY <1>1, <1>2, <1>3, <1>4, <1>5, <1>6

(* A thread that arrives at a node is awaited there. *)
LEMMA ArriverFacts ==
  ASSUME TypeOK, TreeInv, NEW t \in Thread, Arriving(t)
  PROVE  /\ pc[t] # "out" /\ node(t) \in Node /\ released[node(t)] = left[t]
         /\ into(t) \in {2 * node(t) + 1, 2 * node(t) + 2} /\ into(t) \in Child
         /\ ~ Delivered(into(t)) /\ ~ Full(node(t))
         /\ \A u \in Thread : node(t) \notin Holds(u)
         /\ ~ BeingFlipped(node(t))
         /\ count[node(t)] \in {1, 2}
         /\ count[node(t)] = 1 =>
              \A c \in Child : parent(c) = node(t) /\ c # into(t) => Delivered(c)
<1>. DEFINE n == node(t)
<1>1. pc[t] # "out" /\ pc[t] # "spin"
  BY DEF Arriving
<1>2. n \in Node /\ n \in Nat
  BY <1>1, Path, TreeSize DEF TreeInv
<1>3. released[n] = left[t]
  BY <1>1 DEF TreeInv, EpisodeOK
<1>4. into(t) \in Carries(t) /\ into(t) \in Child /\ parent(into(t)) = n
  BY <1>1, Carried DEF TreeInv
<1>5. into(t) \in {2 * n + 1, 2 * n + 2}
  BY <1>2, <1>4, Parent, Halves
<1>6. ~ Delivered(into(t))
  <2>. SUFFICES ASSUME NEW w \in Thread, into(t) \in Carries(w),
                       ~ (Arriving(w) /\ node(w) = n)
                PROVE  FALSE
    BY <1>4 DEF Delivered, DeliveredBy
  <2>1. w = t
    BY <1>4 DEF TreeInv, HolderOK, Holds
  <2>. QED  BY <2>1
<1>7. ~ Full(n)
  BY <1>4, <1>6 DEF Full
<1>8. \A u \in Thread : n \notin Holds(u)
  BY <1>2, <1>7 DEF TreeInv, HolderOK
<1>9. ~ BeingFlipped(n)
  BY <1>2, <1>8 DEF BeingFlipped, Holds, Releasing
<1>10. count[n] = k(n) - Arrived(2 * n + 1) - Arrived(2 * n + 2)
  BY <1>2, <1>9 DEF TreeInv, MissingOK
<1>11. k(n) = (IF 2 * n + 2 \in Child THEN 2 ELSE 1) /\ 2 * n + 1 \in Child
  BY <1>2, Children
<1>12. \A c \in Child : parent(c) = n => c \in {2 * n + 1, 2 * n + 2}
  BY <1>2, Parent, Halves
<1>13. 2 * n + 2 \notin Child => Arrived(2 * n + 2) = 0
  BY DeliveredChild DEF TreeInv, Arrived
<1>14. count[n] \in {1, 2}
  <2>1. CASE 2 * n + 2 \in Child
    BY <1>2, <1>5, <1>6, <1>10, <1>11, <2>1 DEF Arrived
  <2>2. CASE 2 * n + 2 \notin Child
    BY <1>2, <1>4, <1>5, <1>6, <1>10, <1>11, <1>13, <2>2 DEF Arrived
  <2>. QED  BY <2>1, <2>2
<1>15. ASSUME count[n] = 1, NEW c \in Child, parent(c) = n, c # into(t) PROVE Delivered(c)
  <2>1. c \in {2 * n + 1, 2 * n + 2} /\ 2 * n + 2 \in Child
    BY <1>4, <1>5, <1>12, <1>15
  <2>2. Arrived(2 * n + 1) + Arrived(2 * n + 2) = 1
    BY <1>10, <1>11, <1>15, <2>1 DEF Arrived
  <2>. QED  BY <1>2, <1>5, <1>6, <1>15, <2>1, <2>2 DEF Arrived
<1>. QED  BY <1>1, <1>2, <1>3, <1>4, <1>5, <1>6, <1>7, <1>8, <1>9, <1>14, <1>15


-----------------------------------------------------------------------------
(* The steps. *)

(* An arrival: the count goes down, and the last to arrive goes on to the  *)
(* parent or, at the root, starts the release.                             *)
LEMMA ArriveStep ==
  ASSUME TypeOK, TreeInv, NEW t \in Thread, Arriving(t), Arrive(t, count[node(t)]),
         count' = [count EXCEPT ![node(t)] = count[node(t)] - 1],
         UNCHANGED <<flags, sense, entered, left>>
  PROVE  TreeInv'
<1>0. PICK n, b : n = node(t) /\ b = into(t)
  OBVIOUS
<1>. DEFINE last == count[n] = 1
<1>1. /\ pc[t] # "out" /\ n \in Node /\ released[n] = left[t]
      /\ b \in {2 * n + 1, 2 * n + 2} /\ b \in Child
      /\ ~ Delivered(b) /\ ~ Full(n)
      /\ \A u \in Thread : n \notin Holds(u)
      /\ ~ BeingFlipped(n)
      /\ count[n] \in {1, 2}
      /\ last => \A c \in Child : parent(c) = n /\ c # b => Delivered(c)
  BY <1>0, ArriverFacts
<1>2. StackOK
  BY DEF TreeInv
<1>3. b \in Carries(t) /\ parent(b) = n /\ n \notin Carries(t)
  BY <1>0, <1>1, <1>2, Carried DEF Holds
<1>4. \A u \in Thread : u # t => stack'[u] = stack[u] /\ pc'[u] = pc[u]
  BY DEF Arrive, TypeOK
<1>5. \A u \in Thread : u # t => Carries(u)' = Carries(u) /\ node(u)' = node(u)
  BY <1>4, CarriesSame
<1>6. released' = released /\ locksense' = locksense /\ sense' = sense /\ entered' = entered /\ left' = left
  BY DEF flags
<1>7. /\ StackOK'
      /\ pc'[t] \in {"sub", "reset", "spin"}
      /\ pc'[t] = "sub" => /\ last /\ n # 0 /\ node(t)' = parent(n)
                           /\ Carries(t)' = Carries(t) \cup {n}
      /\ pc'[t] # "sub" => node(t)' = n /\ Carries(t)' = Carries(t)
      /\ pc'[t] = "reset" => last /\ n = 0
  <2>1. CASE last /\ n # 0
    <3>1. stack' = [stack EXCEPT ![t] = <<parent(n)>> \o @] /\ pc' = [pc EXCEPT ![t] = "sub"]
      BY <1>0, <2>1 DEF Arrive
    <3>2. pc'[t] = "sub"
      BY <3>1 DEF TypeOK
    <3>. QED  BY <1>0, <1>1, <1>2, <2>1, <3>1, <3>2, CarriesPushed
  <2>2. CASE ~ (last /\ n # 0)
    <3>1. stack' = stack /\ pc'[t] \in {"reset", "spin"} /\ (pc'[t] = "reset" => last /\ n = 0)
      BY <1>0, <2>2 DEF Arrive, TypeOK
    <3>2. Carries(t)' = Carries(t) /\ node(t)' = n
      BY <1>0, <1>1, <3>1, CarriesSame
    <3>3. StackOK'
      BY <1>1, <1>2, <1>4, <3>1 DEF StackOK, mynode, parent
    <3>. QED  BY <3>1, <3>2, <3>3
  <2>. QED  BY <2>1, <2>2
<1>8. \A u \in Thread : u # t => (Arriving(u)' <=> Arriving(u)) /\ (Releasing(u)' <=> Releasing(u))
  BY <1>4 DEF Arriving, Releasing
<1>9. /\ Arriving(t)' <=> pc'[t] = "sub"
      /\ Releasing(t)' => last /\ n = 0
  BY <1>7 DEF Arriving, Releasing
<1>10. DeliveredBy(t, b)'
  <2>1. pc'[t] = "sub" => node(t)' # n
    <3>1. n # 0 => parent(n) < n /\ n \in Nat /\ parent(n) \in Nat
      BY <1>1, Parent, TreeSize DEF Child
    <3>. QED  BY <1>7, <3>1
  <2>. QED  BY <1>1, <1>3, <1>6, <1>7, <1>9, <2>1 DEF DeliveredBy, parent, into
<1>11. \A c : c # b => (Delivered(c)' <=> Delivered(c))
  <2>. SUFFICES ASSUME NEW c, c # b, NEW u \in Thread
                PROVE  DeliveredBy(u, c)' <=> DeliveredBy(u, c)
    BY DEF Delivered
  <2>1. CASE u # t
    BY <1>5, <1>6, <1>8, <2>1 DEF DeliveredBy, parent
  <2>2. CASE u = t
    <3>1. CASE c \in Carries(t)
      <4>1. parent(c) # n /\ parent(c) >= n /\ parent(c) \in Nat /\ n \in Nat
        BY <1>0, <1>1, <1>2, <3>1, Carried, Parent, TreeSize
      <4>2. pc'[t] = "sub" => node(t)' < n /\ node(t)' \in Nat
        BY <1>1, <1>7, Parent, TreeSize DEF Child
      <4>3. c \in Carries(t)'
        BY <1>7, <3>1
      <4>4. ~ (Arriving(t)' /\ node(t)' = parent(c))
        BY <1>9, <4>1, <4>2
      <4>. QED  BY <1>0, <1>6, <2>2, <3>1, <4>1, <4>3, <4>4 DEF DeliveredBy, parent
    <3>2. CASE c \notin Carries(t)
      <4>1. c \in Carries(t)' => c = n /\ pc'[t] = "sub"
        BY <1>7, <3>2
      <4>2. c \in Carries(t)' => Arriving(t)' /\ node(t)' = parent(c)
        BY <1>7, <1>9, <4>1
      <4>. QED  BY <2>2, <3>2, <4>2 DEF DeliveredBy, parent
    <3>. QED  BY <3>1, <3>2
  <2>. QED  BY <2>1, <2>2
<1>12. \A c \in Child : Delivered(c) => Delivered(c)'
  BY <1>1, <1>11
<1>13. \A m \in Node : Full(m) => Full(m)'
  BY <1>12 DEF Full, Child, parent, slot
<1>14. Delivered(b)' /\ (last => Full(n)')
  <2>1. \E u \in Thread : DeliveredBy(u, b)'
    BY <1>10
  <2>2. Delivered(b)'
    BY <2>1 DEF Delivered
  <2>3. last => Full(n)'
    <3>1. last => \A c \in Child : parent(c) = n => Delivered(c)'
      BY <1>1, <1>12, <2>2
    <3>. QED  BY <3>1 DEF Full, Child, parent, slot
  <2>. QED  BY <2>2, <2>3
<1>15. \A m \in Node : BeingFlipped(m)' <=> BeingFlipped(m)
  <2>. SUFFICES ASSUME NEW m \in Node, NEW u \in Thread
                PROVE  (pc[u] = "flip" /\ node(u) = m)' <=> pc[u] = "flip" /\ node(u) = m
    BY DEF BeingFlipped
  <2>1. CASE u = t
    BY <1>7, <2>1 DEF Arriving
  <2>2. CASE u # t
    BY <1>4, <1>5, <2>2
  <2>. QED  BY <2>1, <2>2
<1>16. MissingOK'
  <2>1. \A c : c # b => Arrived(c)' = Arrived(c)
    BY <1>11 DEF Arrived
  <2>2. Arrived(b) = 0 /\ Arrived(b)' = 1
    BY <1>1, <1>14 DEF Arrived
  <2>3. \A c : Arrived(c) \in {0, 1}
    BY DEF Arrived
  <2>4. n \in Nat /\ count'[n] = count[n] - 1 /\ \A m \in Node : m # n => count'[m] = count[m]
    BY <1>0, <1>1, TreeSize DEF TypeOK
  <2>. SUFFICES ASSUME NEW m \in Node
                PROVE  (count[m] = IF BeingFlipped(m) THEN k(m)
                                   ELSE k(m) - Arrived(2 * m + 1) - Arrived(2 * m + 2))'
    BY DEF MissingOK
  <2>5. CASE m = n
    <3>1. count[n] = k(n) - Arrived(2 * n + 1) - Arrived(2 * n + 2)
      BY <1>1 DEF TreeInv, MissingOK
    <3>2. k(n) \in {1, 2}
      BY DEF k
    <3>3. count'[n] = k(n) - Arrived(2 * n + 1)' - Arrived(2 * n + 2)'
      BY <1>1, <2>1, <2>2, <2>3, <2>4, <3>1, <3>2
    <3>. QED  BY <1>1, <1>15, <2>5, <3>3 DEF k
  <2>6. CASE m # n
    <3>1. m \in Nat /\ n \in Nat
      BY <1>1, TreeSize
    <3>2. 2 * m + 1 # b /\ 2 * m + 2 # b
      BY <1>1, <2>6, <3>1
    <3>. QED  BY <1>15, <2>1, <2>4, <2>6, <3>2 DEF TreeInv, MissingOK, k
  <2>. QED  BY <2>5, <2>6
<1>17. HolderOK'
  <2>1. \A u \in Thread : u # t => Holds(u)' = Holds(u)
    BY <1>5, <1>8 DEF Holds, Node
  <2>2. Holds(t)' \subseteq Carries(t) \cup {n}
    BY <1>7, <1>9 DEF Holds, Node
  <2>3. n \in Holds(t)' => last
    BY <1>3, <1>7, <1>9 DEF Holds, Node
  <2>4. Carries(t) \subseteq Holds(t)
    BY DEF Holds
  <2>5. \A u, w \in Thread : u # w => Holds(u)' \cap Holds(w)' = {}
    BY <1>1, <2>1, <2>2, <2>4 DEF TreeInv, HolderOK
  <2>6. \A u \in Thread : \A m \in Holds(u)' \cap Node : Full(m)'
    <3>. SUFFICES ASSUME NEW u \in Thread, NEW m \in Holds(u)', m \in Node PROVE Full(m)'
      OBVIOUS
    <3>1. CASE u # t \/ m # n
      <4>1. m \in Holds(u)
        BY <2>1, <2>2, <2>4, <3>1
      <4>. QED  BY <1>13, <4>1 DEF TreeInv, HolderOK
    <3>2. CASE u = t /\ m = n
      BY <1>14, <2>3, <3>2
    <3>. QED  BY <3>1, <3>2
  <2>. QED  BY <2>5, <2>6 DEF HolderOK, Node
<1>18. SenseOK'
  <2>1. \A u \in Thread : pc'[u] = "out" <=> pc[u] = "out"
    BY <1>1, <1>4, <1>7
  <2>. QED  BY <1>6, <2>1 DEF TreeInv, SenseOK, Node
<1>19. EpisodeOK'
  <2>1. \A u \in Thread : pc'[u] = "out" => released'[mynode(u)] = left'[u]
    BY <1>4, <1>6, <1>7 DEF TreeInv, EpisodeOK
  <2>2. ASSUME NEW u \in Thread, pc'[u] # "out"
        PROVE  \/ released'[node(u)'] = left'[u]
               \/ pc'[u] = "spin" /\ released'[node(u)'] = left'[u] + 1
    <3>1. CASE u # t
      BY <1>4, <1>5, <1>6, <2>2, <3>1 DEF TreeInv, EpisodeOK
    <3>2. CASE u = t /\ pc'[t] # "sub"
      BY <1>1, <1>6, <1>7, <3>2
    <3>3. CASE u = t /\ pc'[t] = "sub"
      <4>1. n \in Node \ {0} /\ node(t)' = parent(n)
        BY <1>1, <1>7, <3>3
      <4>2. released[parent(n)] = released[n]
        BY <1>1, <4>1 DEF TreeInv, DescentOK
      <4>. QED  BY <1>1, <1>6, <3>3, <4>1, <4>2
    <3>. QED  BY <3>1, <3>2, <3>3
  <2>3. \A u \in Thread : \A c \in Carries(u)' \cap Node : released'[c] = left'[u]
    BY <1>1, <1>5, <1>6, <1>7 DEF TreeInv, EpisodeOK
  <2>. QED  BY <2>1, <2>2, <2>3 DEF EpisodeOK, mynode, Node
<1>20. DescentOK'
  <2>1. \A u \in Thread : Releasing(u)' /\ node(u)' # 0 => released'[parent(node(u)')] = left'[u] + 1
    BY <1>5, <1>6, <1>7, <1>8, <1>9 DEF TreeInv, DescentOK
  <2>2. \A u \in Thread : Holds(u) \subseteq Holds(u)'
    <3>1. \A u \in Thread : u # t => Holds(u)' = Holds(u)
      BY <1>5, <1>8 DEF Holds, Node
    <3>2. Holds(t) = Carries(t) /\ Carries(t) \subseteq Holds(t)'
      BY <1>7 DEF Holds, Arriving, Releasing
    <3>. QED  BY <3>1, <3>2
  <2>3. \A m \in Node \ {0} :
          \/ released'[parent(m)] = released'[m]
          \/ released'[parent(m)] = released'[m] + 1 /\ \E u \in Thread : m \in Holds(u)'
    BY <1>6, <2>2 DEF TreeInv, DescentOK
  <2>. QED  BY <2>1, <2>3 DEF DescentOK, Node, parent
<1>21. RootOK'
  BY <1>6 DEF TreeInv, RootOK
<1>. QED  BY <1>7, <1>16, <1>17, <1>18, <1>19, <1>20, <1>21 DEF TreeInv


LEMMA CallStep ==
  ASSUME TypeOK, TreeInv, NEW t \in Thread, Call(t)
  PROVE  TreeInv'
<1>1. /\ pc[t] = "out" /\ StackOK /\ mynode(t) \in Node
      /\ stack' = [stack EXCEPT ![t] = <<mynode(t)>>] /\ pc' = [pc EXCEPT ![t] = "sub"]
      /\ released' = released /\ locksense' = locksense /\ count' = count /\ left' = left
  BY Leaf DEF Call, TreeInv, flags
<1>2. StackOK' /\ Carries(t)' = {slot(t)} /\ node(t)' = mynode(t) /\ pc'[t] = "sub"
  <2>1. pc'[t] = "sub"
    BY <1>1 DEF TypeOK
  <2>. QED  BY <1>1, <2>1, CarriesFirst
<1>3. \A u \in Thread : u # t => stack'[u] = stack[u] /\ pc'[u] = pc[u]
  BY <1>1 DEF TypeOK
<1>4. \A u \in Thread : u # t => Carries(u)' = Carries(u) /\ node(u)' = node(u)
  BY <1>3, CarriesSame
<1>5. \A u \in Thread : u # t => (Arriving(u)' <=> Arriving(u)) /\ (Releasing(u)' <=> Releasing(u))
  BY <1>3 DEF Arriving, Releasing
<1>6. /\ Arriving(t)' /\ ~ Releasing(t)' /\ ~ Releasing(t) /\ Carries(t) = {}
      /\ Holds(t) = {} /\ Holds(t)' = {slot(t)}
  <2>1. Arriving(t)' /\ ~ Releasing(t)' /\ ~ Releasing(t) /\ Carries(t) = {}
    BY <1>1, <1>2 DEF Arriving, Releasing, Carries
  <2>. QED  BY <1>2, <2>1 DEF Holds
<1>7. \A c : Delivered(c)' <=> Delivered(c)
  <2>. SUFFICES ASSUME NEW c, NEW u \in Thread
                PROVE  DeliveredBy(u, c)' <=> DeliveredBy(u, c)
    BY DEF Delivered
  <2>1. CASE u # t
    BY <1>1, <1>4, <1>5, <2>1 DEF DeliveredBy, parent
  <2>2. CASE u = t
    BY <1>2, <1>6, <2>2, Slot DEF DeliveredBy, parent
  <2>. QED  BY <2>1, <2>2
<1>8. \A m : Full(m)' <=> Full(m)
  BY <1>7 DEF Full, Child, parent, slot
<1>9. \A u \in Thread : u # t => Holds(u)' = Holds(u)
  BY <1>4, <1>5 DEF Holds, Node
<1>10. MissingOK'
  <2>1. \A m : BeingFlipped(m)' <=> BeingFlipped(m)
    BY <1>1, <1>2, <1>3, <1>4 DEF BeingFlipped
  <2>2. \A c : Arrived(c)' = Arrived(c)
    BY <1>7 DEF Arrived
  <2>. QED  BY <1>1, <2>1, <2>2 DEF TreeInv, MissingOK, Node, k
<1>11. HolderOK'
  <2>1. \A u \in Thread : u # t => slot(t) \notin Holds(u)
    <3>. SUFFICES ASSUME NEW u \in Thread, u # t, slot(t) \in Holds(u) PROVE FALSE
      OBVIOUS
    <3>1. slot(t) \in Carries(u) /\ slot(t) \notin Node
      BY Slot DEF Holds
    <3>2. pc[u] # "out"
      BY <3>1, CarriedBy
    <3>3. slot(t) # slot(u)
      BY Slot
    <3>4. PICK i \in 2 .. Len(stack[u]) : slot(t) = stack[u][i]
      BY <3>1, <3>3, CarriedBy
    <3>5. i \in 1 .. Len(stack[u])
      BY <1>1, <3>2, Path
    <3>. QED  BY <1>1, <3>1, <3>2, <3>4, <3>5, Path
  <2>2. \A u, w \in Thread : u # w => Holds(u)' \cap Holds(w)' = {}
    BY <1>6, <1>9, <2>1 DEF TreeInv, HolderOK
  <2>3. \A u \in Thread : \A m \in Holds(u)' \cap Node : Full(m)'
    BY <1>6, <1>8, <1>9, Slot DEF TreeInv, HolderOK
  <2>. QED  BY <2>2, <2>3 DEF HolderOK, Node
<1>12. SenseOK'
  <2>1. released[mynode(t)] = left[t] /\ entered[t] = left[t] /\ left[t] \in Nat
    BY <1>1, EpisodesAssumption DEF TreeInv, EpisodeOK, SenseOK, TypeOK
  <2>2. locksense[mynode(t)] = left[t] % 2
    BY <1>1, <2>1 DEF TreeInv, SenseOK
  <2>3. entered'[t] = left[t] + 1 /\ sense'[t] = 1 - locksense[mynode(t)]
    BY <2>1 DEF Call, TypeOK
  <2>4. sense'[t] = entered'[t] % 2
    BY <2>1, <2>2, <2>3
  <2>5. \A u \in Thread : u # t => entered'[u] = entered[u] /\ sense'[u] = sense[u]
    BY DEF Call, TypeOK
  <2>6. ASSUME NEW u \in Thread
        PROVE  (IF pc[u] = "out" THEN entered[u] = left[u]
                ELSE entered[u] = left[u] + 1 /\ sense[u] = entered[u] % 2)'
    <3>1. CASE u = t
      BY <1>1, <1>2, <2>3, <2>4, <3>1
    <3>2. CASE u # t
      BY <1>1, <1>3, <2>5, <3>2 DEF TreeInv, SenseOK
    <3>. QED  BY <3>1, <3>2
  <2>. QED  BY <1>1, <2>6 DEF TreeInv, SenseOK, Node
<1>13. EpisodeOK'
  <2>1. \A u \in Thread : pc'[u] = "out" => released'[mynode(u)] = left'[u]
    BY <1>1, <1>2, <1>3 DEF TreeInv, EpisodeOK
  <2>2. ASSUME NEW u \in Thread, pc'[u] # "out"
        PROVE  \/ released'[node(u)'] = left'[u]
               \/ pc'[u] = "spin" /\ released'[node(u)'] = left'[u] + 1
    <3>1. CASE u # t
      BY <1>1, <1>3, <1>4, <2>2, <3>1 DEF TreeInv, EpisodeOK
    <3>2. CASE u = t
      BY <1>1, <1>2, <3>2 DEF TreeInv, EpisodeOK
    <3>. QED  BY <3>1, <3>2
  <2>3. \A u \in Thread : \A c \in Carries(u)' \cap Node : released'[c] = left'[u]
    BY <1>1, <1>2, <1>4, Slot DEF TreeInv, EpisodeOK
  <2>. QED  BY <2>1, <2>2, <2>3 DEF EpisodeOK, mynode, Node
<1>14. DescentOK'
  <2>1. \A u \in Thread : Releasing(u)' /\ node(u)' # 0 => released'[parent(node(u)')] = left'[u] + 1
    BY <1>1, <1>4, <1>5, <1>6 DEF TreeInv, DescentOK
  <2>2. \A m \in Node \ {0} :
          \/ released'[parent(m)] = released'[m]
          \/ released'[parent(m)] = released'[m] + 1 /\ \E u \in Thread : m \in Holds(u)'
    BY <1>1, <1>6, <1>9 DEF TreeInv, DescentOK
  <2>. QED  BY <2>1, <2>2 DEF DescentOK, Node, parent
<1>15. RootOK'
  <2>1. \A u \in Thread : entered[u] <= entered'[u] /\ entered[u] \in Nat /\ entered'[u] \in Nat
    BY EpisodesAssumption DEF Call, TypeOK
  <2>2. released[0] \in Nat
    BY TreeSize, EpisodesAssumption DEF TypeOK
  <2>. QED  BY <1>1, <2>1, <2>2 DEF TreeInv, RootOK
<1>. QED  BY <1>2, <1>10, <1>11, <1>12, <1>13, <1>14, <1>15 DEF TreeInv

(* The accesses before the store in a critical section. *)
LEMMA SectionStep ==
  ASSUME TypeOK, TreeInv, NEW t \in Thread, NEW next \in {"load", "store"},
         Arriving(t), pc' = [pc EXCEPT ![t] = next],
         UNCHANGED <<count, flags, sense, stack, entered, left>>
  PROVE  TreeInv'
<1>1. /\ released' = released /\ locksense' = locksense /\ count' = count /\ left' = left
      /\ stack' = stack /\ sense' = sense /\ entered' = entered
  BY DEF flags
<1>2. /\ \A u \in Thread : u # t => pc'[u] = pc[u]
      /\ pc[t] \in {"sub", "load", "store"} /\ pc'[t] \in {"load", "store"}
  BY DEF TypeOK, Arriving
<1>3. \A u \in Thread : /\ (Arriving(u)' <=> Arriving(u)) /\ (Releasing(u)' <=> Releasing(u))
                        /\ (pc'[u] = "out" <=> pc[u] = "out")
                        /\ (pc'[u] = "flip" <=> pc[u] = "flip")
                        /\ (pc'[u] = "spin" <=> pc[u] = "spin")
  BY <1>2 DEF Arriving, Releasing
<1>4. \A u \in Thread : Carries(u)' = Carries(u) /\ node(u)' = node(u)
  BY <1>1, <1>3, CarriesSame
<1>5. \A c : Delivered(c)' <=> Delivered(c)
  BY <1>1, <1>3, <1>4 DEF Delivered, DeliveredBy, parent
<1>6. \A m : Full(m)' <=> Full(m)
  BY <1>5 DEF Full, Child, parent, slot
<1>7. \A u \in Thread : Holds(u)' = Holds(u)
  BY <1>3, <1>4 DEF Holds, Node
<1>8. StackOK'
  BY <1>1, <1>3 DEF TreeInv, StackOK, mynode, parent
<1>9. SenseOK'
  BY <1>1, <1>3 DEF TreeInv, SenseOK, Node
<1>10. EpisodeOK'
  BY <1>1, <1>3, <1>4 DEF TreeInv, EpisodeOK, Node, mynode
<1>11. DescentOK'
  BY <1>1, <1>3, <1>4, <1>7 DEF TreeInv, DescentOK, Node, parent
<1>12. HolderOK'
  BY <1>6, <1>7 DEF TreeInv, HolderOK, Node
<1>13. MissingOK'
  <2>1. \A m : BeingFlipped(m)' <=> BeingFlipped(m)
    BY <1>3, <1>4 DEF BeingFlipped
  <2>2. \A c : Arrived(c)' = Arrived(c)
    BY <1>5 DEF Arrived
  <2>. QED  BY <1>1, <2>1, <2>2 DEF TreeInv, MissingOK, Node, k
<1>14. RootOK'
  BY <1>1 DEF TreeInv, RootOK
<1>. QED  BY <1>8, <1>9, <1>10, <1>11, <1>12, <1>13, <1>14 DEF TreeInv

LEMMA ResetStep ==
  ASSUME TypeOK, TreeInv, NEW t \in Thread, Reset(t)
  PROVE  TreeInv'
<1>0. PICK n : n = node(t)
  OBVIOUS
<1>1. /\ released' = released /\ locksense' = locksense /\ left' = left
      /\ stack' = stack /\ sense' = sense /\ entered' = entered
      /\ count' = [count EXCEPT ![n] = k(n)]
      /\ pc[t] = "reset" /\ pc' = [pc EXCEPT ![t] = "flip"]
  BY <1>0 DEF flags, Reset
<1>2. Releasing(t) /\ n \in Node
  <2>1. Releasing(t)
    BY <1>1 DEF Releasing
  <2>. QED  BY <1>0, <2>1, ReleaserFacts
<1>3. (\A u \in Thread : u # t => pc'[u] = pc[u]) /\ pc'[t] = "flip"
  BY <1>1 DEF TypeOK
<1>4. \A u \in Thread : /\ (Arriving(u)' <=> Arriving(u)) /\ (Releasing(u)' <=> Releasing(u))
                        /\ (pc'[u] = "out" <=> pc[u] = "out")
                        /\ (pc'[u] = "spin" <=> pc[u] = "spin")
  BY <1>1, <1>3 DEF Arriving, Releasing
<1>5. \A u \in Thread : Carries(u)' = Carries(u) /\ node(u)' = node(u)
  BY <1>1, <1>4, CarriesSame
<1>6. \A c : Delivered(c)' <=> Delivered(c)
  BY <1>1, <1>4, <1>5 DEF Delivered, DeliveredBy, parent
<1>7. \A m : Full(m)' <=> Full(m)
  BY <1>6 DEF Full, Child, parent, slot
<1>8. \A u \in Thread : Holds(u)' = Holds(u)
  BY <1>4, <1>5 DEF Holds, Node
<1>9. StackOK'
  BY <1>1, <1>4 DEF TreeInv, StackOK, mynode, parent
<1>10. SenseOK'
  BY <1>1, <1>4 DEF TreeInv, SenseOK, Node
<1>11. EpisodeOK'
  BY <1>1, <1>4, <1>5 DEF TreeInv, EpisodeOK, Node, mynode
<1>12. DescentOK'
  BY <1>1, <1>4, <1>5, <1>8 DEF TreeInv, DescentOK, Node, parent
<1>13. HolderOK'
  BY <1>7, <1>8 DEF TreeInv, HolderOK, Node
<1>14. MissingOK'
  <2>1. \A m : BeingFlipped(m)' <=> BeingFlipped(m) \/ m = n
    BY <1>0, <1>1, <1>3, <1>5 DEF BeingFlipped
  <2>2. \A c : Arrived(c)' = Arrived(c)
    BY <1>6 DEF Arrived
  <2>3. count'[n] = k(n) /\ \A m \in Node : m # n => count'[m] = count[m]
    BY <1>1, <1>2 DEF TypeOK
  <2>. QED  BY <2>1, <2>2, <2>3 DEF TreeInv, MissingOK, Node, k
<1>15. RootOK'
  BY <1>1 DEF TreeInv, RootOK
<1>. QED  BY <1>9, <1>10, <1>11, <1>12, <1>13, <1>14, <1>15 DEF TreeInv


(* When everybody has arrived at the root, everybody has at every node,    *)
(* and no node is ahead or behind.                                         *)
LEMMA RootFull ==
  ASSUME TypeOK, TreeInv, Full(0)
  PROVE  \A t \in Thread : left[t] = released[0] /\ pc[t] # "out"
<1>1. \A m \in Node : Full(m) /\ released[m] = released[0]
  <2>. DEFINE Bad == {m \in Node : ~ (Full(m) /\ released[m] = released[0])}
  <2>. SUFFICES ASSUME Bad # {} PROVE FALSE
    OBVIOUS
  <2>1. PICK m \in Bad : \A o \in Bad : m <= o
    <3>1. Bad \in SUBSET Nat
      BY TreeSize
    <3>. HIDE DEF Bad
    <3>. QED  BY <3>1, LeastNumber
  <2>2. m \in Node \ {0} /\ m \in Child
    BY <2>1 DEF Child
  <2>3. parent(m) \in Node /\ parent(m) < m /\ parent(m) \in Nat /\ m \in Nat
    BY <2>2, Parent, TreeSize
  <2>4. parent(m) \notin Bad
    <3>. HIDE DEF Bad
    <3>. QED  BY <2>1, <2>3
  <2>5. Full(parent(m)) /\ released[parent(m)] = released[0]
    BY <2>3, <2>4
  <2>6. Full(m) /\ released[m] = released[0]
    BY <2>2, <2>3, <2>5, FullChild
  <2>. QED  BY <2>1, <2>6
<1>2. ASSUME NEW t \in Thread PROVE left[t] = released[0] /\ pc[t] # "out"
  <2>1. mynode(t) \in Node /\ slot(t) \in Child /\ parent(slot(t)) = mynode(t)
    BY Leaf, Slot DEF Child
  <2>2. Full(mynode(t)) /\ released[mynode(t)] = released[0]
    BY <1>1, <2>1
  <2>. QED  BY <2>1, <2>2, FullChild
<1>. QED  BY <1>2

LEMMA FlipStep ==
  ASSUME TypeOK, TreeInv, NEW t \in Thread, Flip(t)
  PROVE  TreeInv'
<1>0. PICK n : n = node(t)
  OBVIOUS
<1>1. /\ left' = left /\ stack' = stack /\ sense' = sense /\ entered' = entered /\ count' = count
      /\ released' = [released EXCEPT ![n] = @ + 1]
      /\ locksense' = [locksense EXCEPT ![n] = 1 - @]
      /\ pc[t] = "flip" /\ pc' = [pc EXCEPT ![t] = "spin"]
  BY <1>0 DEF Flip
<1>2. /\ n \in Node /\ n \in Nat /\ n \in Holds(t) /\ Full(n) /\ released[n] = left[t]
      /\ n \notin Carries(t) /\ \A u \in Thread : u # t => n \notin Holds(u)
  <2>1. Releasing(t)
    BY <1>1 DEF Releasing
  <2>. QED  BY <1>0, <2>1, ReleaserFacts, TreeSize
<1>3. (\A u \in Thread : u # t => pc'[u] = pc[u]) /\ pc'[t] = "spin"
  BY <1>1 DEF TypeOK
<1>4. /\ \A u \in Thread : /\ (Arriving(u)' <=> Arriving(u))
                           /\ (pc'[u] = "out" <=> pc[u] = "out")
                           /\ (Releasing(u)' <=> Releasing(u) /\ u # t)
      /\ ~ Arriving(t) /\ Releasing(t)
  BY <1>1, <1>3 DEF Arriving, Releasing
<1>5. \A u \in Thread : Carries(u)' = Carries(u) /\ node(u)' = node(u)
  BY <1>1, <1>4, CarriesSame
<1>6. /\ released'[n] = released[n] + 1 /\ \A m \in Node : m # n => released'[m] = released[m]
      /\ \A m \in Node : released[m] \in Nat
      /\ \A u \in Thread : left[u] \in Nat
  BY <1>1, <1>2, EpisodesAssumption DEF TypeOK
<1>7. \A u \in Thread : \A c \in Carries(u) :
        parent(c) = n => released[n] = left[u] /\ ~ (Arriving(u) /\ node(u) = n)
  BY <1>2, CarrierCounted
<1>8. \A u \in Thread : \A c \in Carries(u) : parent(c) \in Node
  <2>. SUFFICES ASSUME NEW u \in Thread, NEW c \in Carries(u) PROVE parent(c) \in Node
    OBVIOUS
  <2>1. pc[u] # "out"
    BY CarriedBy
  <2>. QED  BY <2>1, Carried, Parent DEF TreeInv
<1>9. \A c : Delivered(c)' <=> Delivered(c) /\ parent(c) # n
  <2>. SUFFICES ASSUME NEW c, NEW u \in Thread
                PROVE  DeliveredBy(u, c)' <=> DeliveredBy(u, c) /\ parent(c) # n
    BY DEF Delivered
  <2>1. CASE c \notin Carries(u)
    BY <1>5, <2>1 DEF DeliveredBy
  <2>2. CASE c \in Carries(u) /\ parent(c) = n
    <3>1. released'[n] # left[u]
      BY <1>2, <1>6, <1>7, <2>2
    <3>. QED  BY <1>1, <2>2, <3>1 DEF DeliveredBy, parent
  <2>3. CASE c \in Carries(u) /\ parent(c) # n
    <3>1. released'[parent(c)] = released[parent(c)]
      BY <1>6, <1>8, <2>3
    <3>. QED  BY <1>1, <1>4, <1>5, <2>3, <3>1 DEF DeliveredBy, parent
  <2>. QED  BY <2>1, <2>2, <2>3
<1>10. \A m \in Node : m # n /\ Full(m) => Full(m)'
  BY <1>9 DEF Full, Child, parent, slot
<1>11. /\ \A u \in Thread : u # t => Holds(u)' = Holds(u)
       /\ \A u \in Thread : Holds(u)' = Holds(u) \ {n}
  <2>1. \A u \in Thread : u # t => Holds(u)' = Holds(u)
    BY <1>4, <1>5 DEF Holds, Node
  <2>2. Holds(t)' = Carries(t)
    BY <1>4, <1>5 DEF Holds, Node
  <2>3. Holds(t) = Carries(t) \cup {n}
    BY <1>0, <1>2, <1>4 DEF Holds
  <2>. QED  BY <1>2, <2>1, <2>2, <2>3
<1>12. StackOK'
  BY <1>1, <1>4 DEF TreeInv, StackOK, mynode, parent
<1>13. SenseOK'
  <2>1. locksense'[n] = released'[n] % 2
    <3>1. locksense'[n] = 1 - locksense[n] /\ locksense[n] = released[n] % 2
      BY <1>1, <1>2 DEF TreeInv, SenseOK, TypeOK
    <3>. QED  BY <1>2, <1>6, <3>1
  <2>2. \A m \in Node : m # n => locksense'[m] = locksense[m]
    BY <1>1 DEF TypeOK
  <2>3. \A m \in Node : locksense'[m] = released'[m] % 2
    BY <1>6, <2>1, <2>2 DEF TreeInv, SenseOK
  <2>4. \A u \in Thread : IF pc'[u] = "out" THEN entered'[u] = left'[u]
                          ELSE entered'[u] = left'[u] + 1 /\ sense'[u] = entered'[u] % 2
    BY <1>1, <1>4 DEF TreeInv, SenseOK
  <2>. QED  BY <2>3, <2>4 DEF SenseOK, Node
<1>14. EpisodeOK'
  <2>1. ASSUME NEW u \in Thread, pc'[u] = "out" PROVE released'[mynode(u)] = left'[u]
    <3>1. mynode(u) # n
      <4>1. slot(u) \in Child /\ parent(slot(u)) = mynode(u)
        BY Slot DEF Child
      <4>. QED  BY <1>2, <1>4, <2>1, <4>1, FullChild
    <3>2. mynode(u) \in Node /\ released[mynode(u)] = left[u]
      BY <1>4, <2>1, Leaf DEF TreeInv, EpisodeOK
    <3>. QED  BY <1>1, <1>6, <3>1, <3>2
  <2>2. ASSUME NEW u \in Thread, pc'[u] # "out"
        PROVE  \/ released'[node(u)'] = left'[u]
               \/ pc'[u] = "spin" /\ released'[node(u)'] = left'[u] + 1
    <3>0. pc[u] # "out" /\ node(u) \in Node
      BY <1>4, <2>2, Path DEF TreeInv
    <3>1. CASE node(u) # n
      <4>1. u # t
        BY <1>0, <3>1
      <4>. QED  BY <1>1, <1>3, <1>5, <1>6, <3>0, <3>1, <4>1 DEF TreeInv, EpisodeOK
    <3>2. CASE node(u) = n
      <4>1. into(u) \in Carries(u) /\ parent(into(u)) = n
        BY <3>0, <3>2, Carried DEF TreeInv
      <4>2. released[n] = left[u] /\ ~ Arriving(u)
        BY <1>7, <3>2, <4>1
      <4>3. u # t => ~ Releasing(u)
        BY <1>2, <3>2 DEF Holds
      <4>4. pc'[u] = "spin"
        BY <1>3, <3>0, <4>2, <4>3 DEF Arriving, Releasing, TypeOK
      <4>. QED  BY <1>1, <1>5, <1>6, <3>2, <4>2, <4>4
    <3>. QED  BY <3>1, <3>2
  <2>3. ASSUME NEW u \in Thread, NEW c \in Carries(u)', c \in Node
        PROVE  released'[c] = left'[u]
    <3>1. c \in Carries(u) /\ released[c] = left[u]
      BY <1>5, <2>3 DEF TreeInv, EpisodeOK
    <3>2. c # n
      BY <1>2, <3>1 DEF Holds
    <3>. QED  BY <1>1, <1>6, <2>3, <3>1, <3>2
  <2>. QED  BY <2>1, <2>2, <2>3 DEF EpisodeOK, mynode, Node
<1>15. DescentOK'
  <2>1. ASSUME NEW u \in Thread, Releasing(u)', node(u)' # 0
        PROVE  released'[parent(node(u)')] = left'[u] + 1
    <3>1. /\ Releasing(u) /\ node(u) # 0 /\ node(u) \in Node \ {0} /\ node(u) \in Child
          /\ released[node(u)] = left[u] /\ released[parent(node(u))] = left[u] + 1
      BY <1>4, <1>5, <2>1, ReleaserFacts DEF TreeInv, DescentOK, Child
    <3>2. parent(node(u)) # n
      <4>. SUFFICES ASSUME parent(node(u)) = n PROVE FALSE
        OBVIOUS
      <4>1. released[node(u)] = released[n]
        BY <1>2, <3>1, FullChild
      <4>. QED  BY <1>6, <3>1, <4>1
    <3>3. parent(node(u)) \in Node
      BY <3>1, Parent
    <3>. QED  BY <1>1, <1>5, <1>6, <3>1, <3>2, <3>3
  <2>2. ASSUME NEW m \in Node \ {0}
        PROVE  \/ released'[parent(m)] = released'[m]
               \/ released'[parent(m)] = released'[m] + 1 /\ \E u \in Thread : m \in Holds(u)'
    <3>1. m \in Child /\ parent(m) \in Node /\ parent(m) # m
      <4>1. m \in Child
        BY DEF Child
      <4>2. parent(m) \in Node /\ parent(m) < m /\ m \in Nat
        BY <4>1, Parent
      <4>. QED  BY <4>1, <4>2
    <3>2. CASE m = n
      <4>1. released[parent(n)] = left[t] + 1
        BY <1>0, <1>4, <3>2 DEF TreeInv, DescentOK
      <4>. QED  BY <1>2, <1>6, <3>1, <3>2, <4>1
    <3>3. CASE parent(m) = n
      <4>1. released[m] = released[n]
        BY <1>2, <3>1, <3>3, FullChild
      <4>2. PICK w \in Thread : m \in Carries(w)
        BY <1>2, <3>1, <3>3 DEF Full, Delivered, DeliveredBy
      <4>3. m \in Holds(w)'
        BY <1>5, <4>2 DEF Holds
      <4>. QED  BY <1>6, <3>1, <3>3, <4>1, <4>3
    <3>4. CASE m # n /\ parent(m) # n
      <4>1. \A u \in Thread : m \in Holds(u) => m \in Holds(u)'
        BY <1>11, <3>4
      <4>. QED  BY <1>6, <3>1, <3>4, <4>1 DEF TreeInv, DescentOK
    <3>. QED  BY <3>2, <3>3, <3>4
  <2>. QED  BY <2>1, <2>2 DEF DescentOK, Node, parent
<1>16. HolderOK'
  <2>1. \A u, w \in Thread : u # w => Holds(u)' \cap Holds(w)' = {}
    BY <1>11 DEF TreeInv, HolderOK
  <2>2. \A u \in Thread : \A m \in Holds(u)' \cap Node : Full(m)'
    BY <1>10, <1>11 DEF TreeInv, HolderOK
  <2>. QED  BY <2>1, <2>2 DEF HolderOK, Node
<1>17. MissingOK'
  <2>1. \A m : BeingFlipped(m)' <=> BeingFlipped(m) /\ m # n
    <3>1. \A u \in Thread : u # t => ~ (pc[u] = "flip" /\ node(u) = n)
      BY <1>2 DEF Holds, Releasing
    <3>. QED  BY <1>0, <1>1, <1>3, <1>5, <3>1 DEF BeingFlipped
  <2>2. BeingFlipped(n)
    BY <1>0, <1>1 DEF BeingFlipped
  <2>3. \A c : Arrived(c)' = IF parent(c) = n THEN 0 ELSE Arrived(c)
    BY <1>9 DEF Arrived
  <2>. SUFFICES ASSUME NEW m \in Node
                PROVE  (count[m] = IF BeingFlipped(m) THEN k(m)
                                   ELSE k(m) - Arrived(2 * m + 1) - Arrived(2 * m + 2))'
    BY DEF MissingOK, Node
  <2>4. m \in Nat /\ parent(2 * m + 1) = m /\ parent(2 * m + 2) = m
    <3>1. m \in Nat
      BY TreeSize
    <3>2. 2 * m + 1 \in Nat \ {0} /\ 2 * m + 2 \in Nat \ {0}
      BY <3>1
    <3>. QED  BY <3>1, <3>2, Halves
  <2>5. CASE m = n
    <3>1. count[n] = k(n) /\ k(n) \in Nat
      BY <1>2, <2>2 DEF TreeInv, MissingOK, k
    <3>2. Arrived(2 * m + 1)' = 0 /\ Arrived(2 * m + 2)' = 0 /\ ~ BeingFlipped(m)'
      BY <2>1, <2>3, <2>4, <2>5
    <3>. QED  BY <1>1, <2>5, <3>1, <3>2 DEF k
  <2>6. CASE m # n
    BY <1>1, <2>1, <2>3, <2>4, <2>6 DEF TreeInv, MissingOK, k
  <2>. QED  BY <2>5, <2>6
<1>18. RootOK'
  <2>1. CASE n = 0
    <3>1. \A u \in Thread : left[u] = released[0] /\ pc[u] # "out"
      BY <1>2, <2>1, RootFull
    <3>2. \A u \in Thread : entered[u] = released[0] + 1
      BY <3>1 DEF TreeInv, SenseOK
    <3>3. \A u \in Thread : released'[0] <= entered'[u]
      BY <1>1, <1>2, <1>6, <2>1, <3>2
    <3>. QED  BY <3>3 DEF RootOK
  <2>2. CASE n # 0
    BY <1>1, <1>6, <2>2, TreeSize DEF TreeInv, RootOK
  <2>. QED  BY <2>1, <2>2
<1>. QED  BY <1>12, <1>13, <1>14, <1>15, <1>16, <1>17, <1>18 DEF TreeInv


(* The sense a thread waits for appears when its node has been released in *)
(* the thread's episode, and the thread is counted there no more.          *)
LEMMA SpinEnds ==
  ASSUME TypeOK, TreeInv, NEW t \in Thread, pc[t] = "spin", locksense[node(t)] = sense[t]
  PROVE  /\ released[node(t)] = left[t] + 1 /\ left[t] \in Nat /\ node(t) \in Node
         /\ ~ Delivered(into(t)) /\ into(t) \in Carries(t) /\ parent(into(t)) = node(t)
         /\ \A u \in Thread : u # t => into(t) \notin Holds(u)
<1>1. pc[t] # "out" /\ StackOK
  BY DEF TreeInv
<1>2. node(t) \in Node /\ into(t) \in Carries(t) /\ parent(into(t)) = node(t)
  BY <1>1, Path, Carried
<1>3. left[t] \in Nat /\ released[node(t)] \in Nat
  BY <1>2, EpisodesAssumption DEF TypeOK
<1>4. released[node(t)] = left[t] \/ released[node(t)] = left[t] + 1
  BY <1>1 DEF TreeInv, EpisodeOK
<1>5. released[node(t)] % 2 = (left[t] + 1) % 2
  BY <1>1, <1>2 DEF TreeInv, SenseOK
<1>6. released[node(t)] = left[t] + 1
  <2>1. left[t] % 2 # (left[t] + 1) % 2
    BY <1>3
  <2>. QED  BY <1>4, <1>5, <2>1
<1>7. \A u \in Thread : u # t => into(t) \notin Holds(u)
  BY <1>2 DEF TreeInv, HolderOK, Holds
<1>8. ~ Delivered(into(t))
  <2>. SUFFICES ASSUME NEW u \in Thread, into(t) \in Carries(u), released[node(t)] = left[u]
                PROVE  FALSE
    BY <1>2 DEF Delivered, DeliveredBy
  <2>1. released[node(t)] = left[t]
    BY <1>7 DEF Holds
  <2>2. \A x \in Nat : x # x + 1
    OBVIOUS
  <2>. QED  BY Zenon, <1>3, <1>6, <2>1, <2>2
<1>. QED  BY <1>2, <1>3, <1>6, <1>7, <1>8

LEMMA PopStep ==
  ASSUME TypeOK, TreeInv, NEW t \in Thread, Spin(t), Len(stack[t]) > 1
  PROVE  TreeInv'
<1>0. PICK n, b : n = node(t) /\ b = into(t)
  OBVIOUS
<1>1. /\ released' = released /\ locksense' = locksense /\ left' = left /\ count' = count
      /\ sense' = sense /\ entered' = entered
      /\ pc[t] = "spin" /\ pc' = [pc EXCEPT ![t] = "reset"]
      /\ stack' = [stack EXCEPT ![t] = Tail(@)] /\ locksense[n] = sense[t]
  BY <1>0 DEF Spin, flags
<1>2. /\ released[n] = left[t] + 1 /\ ~ Delivered(b) /\ b \in Carries(t) /\ parent(b) = n
      /\ \A u \in Thread : u # t => b \notin Holds(u)
  BY <1>0, <1>1, SpinEnds
<1>3. b \in Node
  <2>1. 2 \in 1 .. Len(stack[t]) /\ Len(stack[t]) # 1
    <3>1. \A m \in Nat \ {0} : m > 1 => 2 \in 1 .. m /\ m # 1
      OBVIOUS
    <3>2. Len(stack[t]) \in Nat \ {0}
      BY <1>1, Path DEF TreeInv
    <3>. QED  BY Zenon, <3>1, <3>2
  <2>. QED  BY <1>0, <1>1, <2>1, Path DEF into, TreeInv
<1>4. (\A u \in Thread : u # t => pc'[u] = pc[u] /\ stack'[u] = stack[u]) /\ pc'[t] = "reset"
  BY <1>1 DEF TypeOK
<1>5. StackOK' /\ Carries(t)' = Carries(t) \ {b} /\ node(t)' = b
  BY <1>0, <1>1, CarriesPopped DEF TreeInv
<1>6. \A u \in Thread : u # t => Carries(u)' = Carries(u) /\ node(u)' = node(u)
  BY <1>4, CarriesSame
<1>7. /\ \A u \in Thread : /\ (Arriving(u)' <=> Arriving(u))
                           /\ (pc'[u] = "out" <=> pc[u] = "out")
                           /\ (pc'[u] = "flip" <=> pc[u] = "flip")
                           /\ u # t => (Releasing(u)' <=> Releasing(u))
      /\ ~ Arriving(t) /\ Releasing(t)' /\ ~ Releasing(t)
  BY <1>1, <1>4 DEF Arriving, Releasing
<1>8. \A u \in Thread : Holds(u)' = Holds(u)
  <2>1. \A u \in Thread : u # t => Holds(u)' = Holds(u)
    BY <1>6, <1>7 DEF Holds, Node
  <2>2. Holds(t) = Carries(t)
    BY <1>7 DEF Holds
  <2>3. Holds(t)' = (Carries(t) \ {b}) \cup {b}
    BY <1>3, <1>5, <1>7 DEF Holds, Node
  <2>. QED  BY <1>2, <2>1, <2>2, <2>3
<1>9. \A c : Delivered(c)' <=> Delivered(c)
  <2>. SUFFICES ASSUME NEW c, NEW u \in Thread
                PROVE  DeliveredBy(u, c)' <=> DeliveredBy(u, c)
    BY DEF Delivered
  <2>1. CASE u # t
    BY <1>1, <1>6, <1>7, <2>1 DEF DeliveredBy, parent
  <2>2. CASE u = t /\ c # b
    BY <1>1, <1>5, <1>7, <2>2 DEF DeliveredBy, parent
  <2>3. CASE u = t /\ c = b
    BY <1>2, <1>5, <2>3 DEF DeliveredBy, Delivered
  <2>. QED  BY <2>1, <2>2, <2>3
<1>10. \A m : Full(m)' <=> Full(m)
  BY <1>9 DEF Full, Child, parent, slot
<1>11. SenseOK'
  BY <1>1, <1>7 DEF TreeInv, SenseOK, Node
<1>12. EpisodeOK'
  <2>1. \A u \in Thread : pc'[u] = "out" => released'[mynode(u)] = left'[u]
    BY <1>1, <1>7 DEF TreeInv, EpisodeOK
  <2>2. ASSUME NEW u \in Thread, pc'[u] # "out"
        PROVE  \/ released'[node(u)'] = left'[u]
               \/ pc'[u] = "spin" /\ released'[node(u)'] = left'[u] + 1
    <3>1. CASE u # t
      BY <1>1, <1>4, <1>6, <2>2, <3>1 DEF TreeInv, EpisodeOK
    <3>2. CASE u = t
      BY <1>1, <1>2, <1>3, <1>5, <3>2 DEF TreeInv, EpisodeOK
    <3>. QED  BY <3>1, <3>2
  <2>3. \A u \in Thread : \A c \in Carries(u)' \cap Node : released'[c] = left'[u]
    BY <1>1, <1>5, <1>6 DEF TreeInv, EpisodeOK
  <2>. QED  BY <2>1, <2>2, <2>3 DEF EpisodeOK, mynode, Node
<1>13. DescentOK'
  <2>1. \A u \in Thread : Releasing(u)' /\ node(u)' # 0 => released'[parent(node(u)')] = left'[u] + 1
    BY <1>1, <1>2, <1>5, <1>6, <1>7 DEF TreeInv, DescentOK
  <2>2. \A m \in Node \ {0} :
          \/ released'[parent(m)] = released'[m]
          \/ released'[parent(m)] = released'[m] + 1 /\ \E u \in Thread : m \in Holds(u)'
    BY <1>1, <1>8 DEF TreeInv, DescentOK
  <2>. QED  BY <2>1, <2>2 DEF DescentOK, Node, parent
<1>14. HolderOK'
  BY <1>8, <1>10 DEF TreeInv, HolderOK, Node
<1>15. MissingOK'
  <2>1. \A m : BeingFlipped(m)' <=> BeingFlipped(m)
    <3>. SUFFICES ASSUME NEW m, NEW u \in Thread
                  PROVE  (pc[u] = "flip" /\ node(u) = m)' <=> pc[u] = "flip" /\ node(u) = m
      BY DEF BeingFlipped
    <3>. QED  BY <1>1, <1>4, <1>6
  <2>2. \A c : Arrived(c)' = Arrived(c)
    BY <1>9 DEF Arrived
  <2>. QED  BY <1>1, <2>1, <2>2 DEF TreeInv, MissingOK, Node, k
<1>16. RootOK'
  BY <1>1 DEF TreeInv, RootOK
<1>. QED  BY <1>5, <1>11, <1>12, <1>13, <1>14, <1>15, <1>16 DEF TreeInv

LEMMA ReturnStep ==
  ASSUME TypeOK, TreeInv, NEW t \in Thread, Spin(t), ~ (Len(stack[t]) > 1)
  PROVE  TreeInv'
<1>0. PICK n, b : n = node(t) /\ b = into(t)
  OBVIOUS
<1>1. /\ released' = released /\ locksense' = locksense /\ count' = count
      /\ sense' = sense /\ entered' = entered
      /\ left' = [left EXCEPT ![t] = @ + 1]
      /\ pc[t] = "spin" /\ pc' = [pc EXCEPT ![t] = "out"]
      /\ stack' = [stack EXCEPT ![t] = Tail(@)] /\ locksense[n] = sense[t]
  BY <1>0 DEF Spin, flags
<1>2. /\ released[n] = left[t] + 1 /\ left[t] \in Nat /\ ~ Delivered(b) /\ parent(b) = n
  BY <1>0, <1>1, SpinEnds
<1>3. Len(stack[t]) = 1 /\ stack[t] \in Seq(Node) /\ n = mynode(t) /\ b = slot(t)
  <2>1. Len(stack[t]) = 1 /\ stack[t] \in Seq(Node)
    <3>1. Len(stack[t]) \in Nat \ {0}
      BY <1>1, Path DEF TreeInv
    <3>2. \A m \in Nat \ {0} : ~ (m > 1) => m = 1
      OBVIOUS
    <3>3. stack[t] \in Seq(Node)
      BY DEF TypeOK
    <3>. QED  BY Zenon, <3>1, <3>2, <3>3
  <2>2. n = stack[t][1]
    BY <1>0, <1>1, Path DEF TreeInv
  <2>. QED  BY <1>0, <1>1, <2>1, <2>2 DEF into, TreeInv, StackOK
<1>4. /\ \A u \in Thread : u # t => pc'[u] = pc[u] /\ stack'[u] = stack[u] /\ left'[u] = left[u]
      /\ pc'[t] = "out" /\ left'[t] = left[t] + 1 /\ stack'[t] = <<>>
  <2>1. Tail(stack[t]) = <<>>
    <3>1. stack[t] # <<>>
      <4>1. Len(<<>>) = 0 /\ 0 # 1
        BY EmptySeq
      <4>. QED  BY Zenon, <1>3, <4>1
    <3>2. Tail(stack[t]) \in Seq(Node) /\ Len(Tail(stack[t])) = Len(stack[t]) - 1
      BY Zenon, <1>3, <3>1, HeadTailProperties
    <3>3. Len(Tail(stack[t])) \notin Nat \ {0}
      BY <1>3, <3>2
    <3>. QED  BY Zenon, <3>2, <3>3, EmptySeq
  <2>. QED  BY <1>1, <2>1 DEF TypeOK
<1>5. Carries(t)' = {} /\ Carries(t) = {b}
  <2>1. Carries(t)' = {}
    BY <1>4 DEF Carries
  <2>2. \A c : c \in Carries(t) <=> c = b
    BY <1>1, <1>3, CarriedBy
  <2>. QED  BY <2>1, <2>2
<1>6. \A u \in Thread : u # t => Carries(u)' = Carries(u) /\ node(u)' = node(u)
  BY <1>4, CarriesSame
<1>7. /\ \A u \in Thread : /\ (Arriving(u)' <=> Arriving(u))
                           /\ (Releasing(u)' <=> Releasing(u))
                           /\ (pc'[u] = "flip" <=> pc[u] = "flip")
      /\ ~ Arriving(t) /\ ~ Releasing(t) /\ ~ Releasing(t)'
  BY <1>1, <1>4 DEF Arriving, Releasing
<1>8. (\A u \in Thread : u # t => Holds(u)' = Holds(u)) /\ Holds(t)' = {} /\ Holds(t) = {b}
  BY <1>5, <1>6, <1>7 DEF Holds, Node
<1>9. \A c : Delivered(c)' <=> Delivered(c)
  <2>. SUFFICES ASSUME NEW c, NEW u \in Thread
                PROVE  DeliveredBy(u, c)' <=> DeliveredBy(u, c)
    BY DEF Delivered
  <2>1. CASE u # t
    BY <1>1, <1>4, <1>6, <1>7, <2>1 DEF DeliveredBy, parent
  <2>2. CASE u = t
    BY <1>2, <1>5, <2>2 DEF DeliveredBy, Delivered
  <2>. QED  BY <2>1, <2>2
<1>10. \A m : Full(m)' <=> Full(m)
  BY <1>9 DEF Full, Child, parent, slot
<1>11. b \notin Node
  BY <1>3, Slot
<1>12. StackOK'
  <2>. SUFFICES ASSUME NEW u \in Thread
                PROVE  (IF pc[u] = "out" THEN stack[u] = <<>>
    ELSE /\ Len(stack[u]) > 0 /\ stack[u][Len(stack[u])] = mynode(u)
         /\ \A i \in 1 .. Len(stack[u]) - 1 : stack[u][i] = parent(stack[u][i + 1])
         /\ \A i, j \in 1 .. Len(stack[u]) : i < j => stack[u][i] < stack[u][j])'
    BY DEF StackOK
  <2>1. CASE u = t
    BY <1>4, <2>1
  <2>2. CASE u # t
    BY <1>4, <2>2 DEF TreeInv, StackOK, mynode, parent
  <2>. QED  BY <2>1, <2>2
<1>13. SenseOK'
  <2>1. entered[t] = left[t] + 1
    BY <1>1 DEF TreeInv, SenseOK
  <2>2. \A u \in Thread : IF pc'[u] = "out" THEN entered'[u] = left'[u]
                          ELSE entered'[u] = left'[u] + 1 /\ sense'[u] = entered'[u] % 2
    BY <1>1, <1>4, <2>1 DEF TreeInv, SenseOK
  <2>. QED  BY <1>1, <2>2 DEF TreeInv, SenseOK, Node
<1>14. EpisodeOK'
  <2>1. \A u \in Thread : pc'[u] = "out" => released'[mynode(u)] = left'[u]
    BY <1>1, <1>2, <1>3, <1>4 DEF TreeInv, EpisodeOK
  <2>2. ASSUME NEW u \in Thread, pc'[u] # "out"
        PROVE  \/ released'[node(u)'] = left'[u]
               \/ pc'[u] = "spin" /\ released'[node(u)'] = left'[u] + 1
    BY <1>1, <1>4, <1>6, <2>2 DEF TreeInv, EpisodeOK
  <2>3. \A u \in Thread : \A c \in Carries(u)' \cap Node : released'[c] = left'[u]
    BY <1>1, <1>4, <1>5, <1>6 DEF TreeInv, EpisodeOK
  <2>. QED  BY <2>1, <2>2, <2>3 DEF EpisodeOK, mynode, Node
<1>15. DescentOK'
  <2>1. \A u \in Thread : Releasing(u)' /\ node(u)' # 0 => released'[parent(node(u)')] = left'[u] + 1
    BY <1>1, <1>4, <1>6, <1>7 DEF TreeInv, DescentOK
  <2>2. \A m \in Node \ {0} :
          \/ released'[parent(m)] = released'[m]
          \/ released'[parent(m)] = released'[m] + 1 /\ \E u \in Thread : m \in Holds(u)'
    BY <1>1, <1>8, <1>11 DEF TreeInv, DescentOK
  <2>. QED  BY <2>1, <2>2 DEF DescentOK, Node, parent
<1>16. HolderOK'
  <2>1. \A u \in Thread : Holds(u)' \subseteq Holds(u)
    BY <1>8
  <2>. QED  BY <1>10, <2>1 DEF TreeInv, HolderOK, Node
<1>17. MissingOK'
  <2>1. \A m : BeingFlipped(m)' <=> BeingFlipped(m)
    BY <1>1, <1>4, <1>6, <1>7 DEF BeingFlipped
  <2>2. \A c : Arrived(c)' = Arrived(c)
    BY <1>9 DEF Arrived
  <2>. QED  BY <1>1, <2>1, <2>2 DEF TreeInv, MissingOK, Node, k
<1>18. RootOK'
  BY <1>1 DEF TreeInv, RootOK
<1>. QED  BY <1>12, <1>13, <1>14, <1>15, <1>16, <1>17, <1>18 DEF TreeInv


-----------------------------------------------------------------------------
(* Invariance. *)

LEMMA ArriverAlone ==
  ASSUME TypeOK, TreeInv, SectionOK, NEW t \in Thread, Releasing(t), NEW u \in Thread, Arriving(u)
  PROVE  node(u) # node(t) /\ u # t
  BY ReleaserFacts, ArriverFacts DEF Arriving, Releasing

LEMMA TypesAtCall ==
  ASSUME TypeOK, TreeInv, SectionOK, NEW t \in Thread, Call(t)
  PROVE  TypeOK' /\ SectionOK'
<1>1. mynode(t) \in Node /\ <<mynode(t)>> \in Seq(Node)
  <2>1. mynode(t) \in Node
    BY Leaf
  <2>. QED  BY <2>1
<1>2. entered[t] + 1 \in 0 .. Episodes
  BY EpisodesAssumption DEF Call, TypeOK
<1>3. 1 - locksense[mynode(t)] \in {0, 1}
  <2>1. \A x \in {0, 1} : 1 - x \in {0, 1}
    OBVIOUS
  <2>2. locksense[mynode(t)] \in {0, 1}
    BY <1>1 DEF TypeOK
  <2>. QED  BY Zenon, <2>1, <2>2
<1>4. TypeOK'
  <2>1. stack' \in [Thread -> Seq(Node)]
    BY <1>1 DEF Call, TypeOK
  <2>2. sense' \in [Thread -> {0, 1}] /\ entered' \in [Thread -> 0 .. Episodes]
    BY <1>2, <1>3 DEF Call, TypeOK
  <2>3. pc' \in [Thread -> {"out", "sub", "load", "store", "reset", "flip", "spin"}]
    BY DEF Call, TypeOK
  <2>. QED  BY <2>1, <2>2, <2>3 DEF Call, TypeOK, section, flags, Thread, Node, Nobody, k
<1>5. SectionOK'
  <2>1. \A u \in Thread : u # t => pc'[u] = pc[u] /\ stack'[u] = stack[u]
    BY DEF Call, TypeOK
  <2>2. pc'[t] = "sub" /\ pc[t] = "out"
    BY DEF Call, TypeOK
  <2>. QED  BY <2>1, <2>2 DEF Call, SectionOK, section, node
<1>. QED  BY <1>4, <1>5

(* What every arrival does to the types. *)
LEMMA TypesAtArrival ==
  ASSUME TypeOK, TreeInv, NEW t \in Thread, Arriving(t), Arrive(t, count[node(t)]),
         count' = [count EXCEPT ![node(t)] = count[node(t)] - 1]
  PROVE  /\ count' \in [Node -> 0 .. 2] /\ \A n \in Node : count'[n] <= k(n)
         /\ stack' \in [Thread -> Seq(Node)]
         /\ pc' \in [Thread -> {"out", "sub", "load", "store", "reset", "flip", "spin"}]
         /\ pc'[t] \in {"sub", "reset", "spin"}
         /\ \A u \in Thread : u # t => pc'[u] = pc[u] /\ stack'[u] = stack[u]
<1>0. PICK n : n = node(t)
  OBVIOUS
<1>1. n \in Node /\ count[n] \in {1, 2}
  BY <1>0, ArriverFacts
<1>2. count' \in [Node -> 0 .. 2] /\ \A m \in Node : count'[m] <= k(m)
  <2>1. count[n] - 1 \in 0 .. 2 /\ count[n] - 1 <= k(n)
    BY <1>1 DEF TypeOK, k
  <2>. QED  BY <1>0, <1>1, <2>1 DEF TypeOK
<1>3. /\ stack' \in [Thread -> Seq(Node)]
      /\ \A u \in Thread : u # t => stack'[u] = stack[u]
  <2>1. CASE count[n] = 1 /\ n # 0
    <3>1. parent(n) \in Node
      BY <1>1, <2>1, Parent DEF Child
    <3>2. stack[t] \in Seq(Node) /\ <<parent(n)>> \in Seq(Node)
      BY <3>1 DEF TypeOK
    <3>3. <<parent(n)>> \o stack[t] \in Seq(Node)
      BY <3>2
    <3>. QED  BY <1>0, <2>1, <3>3 DEF Arrive, TypeOK
  <2>2. CASE ~ (count[n] = 1 /\ n # 0)
    BY <1>0, <2>2 DEF Arrive, TypeOK
  <2>. QED  BY <2>1, <2>2
<1>. QED  BY <1>2, <1>3 DEF Arrive, TypeOK

LEMMA TypesAtFetchAndSub ==
  ASSUME TypeOK, TreeInv, SectionOK, NEW t \in Thread, FetchAndSub(t)
  PROVE  TypeOK' /\ SectionOK' /\ TreeInv'
<1>1. Arriving(t)
  BY DEF FetchAndSub, Arriving
<1>2. /\ count' \in [Node -> 0 .. 2] /\ \A n \in Node : count'[n] <= k(n)
      /\ stack' \in [Thread -> Seq(Node)]
      /\ pc' \in [Thread -> {"out", "sub", "load", "store", "reset", "flip", "spin"}]
      /\ pc'[t] \in {"sub", "reset", "spin"}
      /\ \A u \in Thread : u # t => pc'[u] = pc[u] /\ stack'[u] = stack[u]
  BY <1>1, TypesAtArrival DEF FetchAndSub
<1>3. TypeOK'
  BY <1>2 DEF FetchAndSub, TypeOK, section, flags, Thread, Node, Nobody, k
<1>4. SectionOK'
  BY <1>2 DEF FetchAndSub, SectionOK, section
<1>. QED  BY <1>1, <1>3, <1>4, ArriveStep DEF FetchAndSub

LEMMA TypesAtTest ==
  ASSUME TypeOK, TreeInv, SectionOK, NEW t \in Thread, CriticalTest(t)
  PROVE  TypeOK' /\ SectionOK' /\ TreeInv'
<1>1. Arriving(t)
  BY DEF CriticalTest, Arriving
<1>2. node(t) \in Node /\ count[node(t)] \in 0 .. 2
  BY <1>1, ArriverFacts DEF TypeOK
<1>3. TypeOK'
  BY <1>2 DEF CriticalTest, TypeOK, flags, Thread, Node, Nobody, k
<1>4. SectionOK'
  <2>1. \A u \in Thread : pc[u] \notin {"load", "store"}
    BY NumThreadsAssumption DEF CriticalTest, SectionOK, Nobody, Thread
  <2>2. /\ pc'[t] = "load" /\ test'[t] = count[node(t)] /\ critical' = t
        /\ \A u \in Thread : u # t => pc'[u] = pc[u]
        /\ stack' = stack /\ count' = count /\ version' = version /\ version = "critical"
    BY DEF CriticalTest, TypeOK
  <2>. QED  BY <2>1, <2>2 DEF SectionOK, node
<1>. QED  BY <1>1, <1>3, <1>4, SectionStep DEF CriticalTest

LEMMA TypesAtLoad ==
  ASSUME TypeOK, TreeInv, SectionOK, NEW t \in Thread, CriticalLoad(t)
  PROVE  TypeOK' /\ SectionOK' /\ TreeInv'
<1>1. Arriving(t)
  BY DEF CriticalLoad, Arriving
<1>2. node(t) \in Node /\ count[node(t)] \in 0 .. 2
  BY <1>1, ArriverFacts DEF TypeOK
<1>3. TypeOK'
  BY <1>2 DEF CriticalLoad, TypeOK, flags, Thread, Node, Nobody, k
<1>4. SectionOK'
  <2>1. /\ pc'[t] = "store" /\ load'[t] = count[node(t)] /\ pc[t] = "load"
        /\ \A u \in Thread : u # t => pc'[u] = pc[u] /\ load'[u] = load[u]
        /\ stack' = stack /\ count' = count /\ version' = version
        /\ critical' = critical /\ test' = test
    BY DEF CriticalLoad, TypeOK
  <2>. QED  BY <2>1 DEF SectionOK, node
<1>. QED  BY <1>1, <1>3, <1>4, SectionStep DEF CriticalLoad

LEMMA TypesAtStore ==
  ASSUME TypeOK, TreeInv, SectionOK, NEW t \in Thread, CriticalStore(t)
  PROVE  TypeOK' /\ SectionOK' /\ TreeInv'
<1>1. Arriving(t) /\ test[t] = count[node(t)] /\ load[t] = count[node(t)] /\ critical = t
  BY DEF CriticalStore, Arriving, SectionOK
<1>2. Arrive(t, count[node(t)]) /\ count' = [count EXCEPT ![node(t)] = count[node(t)] - 1]
  BY <1>1 DEF CriticalStore
<1>3. /\ count' \in [Node -> 0 .. 2] /\ \A n \in Node : count'[n] <= k(n)
      /\ stack' \in [Thread -> Seq(Node)]
      /\ pc' \in [Thread -> {"out", "sub", "load", "store", "reset", "flip", "spin"}]
      /\ pc'[t] \in {"sub", "reset", "spin"}
      /\ \A u \in Thread : u # t => pc'[u] = pc[u] /\ stack'[u] = stack[u]
  BY <1>1, <1>2, TypesAtArrival
<1>4. TypeOK'
  BY <1>3 DEF CriticalStore, TypeOK, flags, Thread, Node, Nobody, k
<1>5. SectionOK'
  <2>1. \A u \in Thread : u # t => pc[u] \notin {"load", "store"}
    BY <1>1 DEF SectionOK
  <2>2. Nobody \notin Thread
    BY NumThreadsAssumption DEF Nobody, Thread
  <2>. QED  BY <1>3, <2>1, <2>2 DEF CriticalStore, SectionOK, Nobody
<1>. QED  BY <1>1, <1>2, <1>4, <1>5, ArriveStep DEF CriticalStore

LEMMA TypesAtReset ==
  ASSUME TypeOK, TreeInv, SectionOK, NEW t \in Thread, Reset(t)
  PROVE  TypeOK' /\ SectionOK'
<1>0. PICK n : n = node(t)
  OBVIOUS
<1>1. Releasing(t) /\ n \in Node
  BY <1>0, ReleaserFacts DEF Reset, Releasing
<1>2. /\ count' \in [Node -> 0 .. 2] /\ \A m \in Node : count'[m] <= k(m)
      /\ \A m \in Node : m # n => count'[m] = count[m]
  BY <1>0, <1>1 DEF Reset, TypeOK, k
<1>3. TypeOK'
  BY <1>2 DEF Reset, TypeOK, section, flags, Thread, Node, Nobody, k
<1>4. SectionOK'
  <2>1. /\ pc[t] = "reset" /\ pc'[t] = "flip" /\ \A u \in Thread : u # t => pc'[u] = pc[u]
        /\ stack' = stack /\ version' = version /\ critical' = critical /\ test' = test /\ load' = load
    BY DEF Reset, TypeOK, section
  <2>2. \A u \in Thread : pc[u] \in {"load", "store"} => count'[node(u)] = count[node(u)]
    <3>. SUFFICES ASSUME NEW u \in Thread, pc[u] \in {"load", "store"}
                  PROVE  count'[node(u)] = count[node(u)]
      OBVIOUS
    <3>1. Arriving(u)
      BY DEF Arriving
    <3>2. node(u) \in Node /\ node(u) # n
      BY <1>0, <1>1, <3>1, ArriverAlone, ArriverFacts
    <3>. QED  BY <1>2, <3>2
  <2>. QED  BY <2>1, <2>2 DEF SectionOK, node
<1>. QED  BY <1>3, <1>4

LEMMA TypesAtFlip ==
  ASSUME TypeOK, TreeInv, SectionOK, NEW t \in Thread, Flip(t)
  PROVE  TypeOK' /\ SectionOK'
<1>0. PICK n : n = node(t)
  OBVIOUS
<1>1. n \in Node /\ released[n] = left[t] /\ pc[t] # "out"
  BY <1>0, ReleaserFacts DEF Flip, Releasing
<1>2. released[n] + 1 \in 0 .. Episodes
  BY <1>1, EpisodesAssumption DEF TreeInv, SenseOK, TypeOK
<1>3. 1 - locksense[n] \in {0, 1}
  <2>1. \A x \in {0, 1} : 1 - x \in {0, 1}
    OBVIOUS
  <2>2. locksense[n] \in {0, 1}
    BY <1>1 DEF TypeOK
  <2>. QED  BY Zenon, <2>1, <2>2
<1>4. TypeOK'
  <2>1. locksense' \in [Node -> {0, 1}] /\ released' \in [Node -> 0 .. Episodes]
    BY <1>0, <1>1, <1>2, <1>3 DEF Flip, TypeOK
  <2>2. pc' \in [Thread -> {"out", "sub", "load", "store", "reset", "flip", "spin"}]
    BY DEF Flip, TypeOK
  <2>. QED  BY <2>1, <2>2 DEF Flip, TypeOK, section, Thread, Node, Nobody, k
<1>5. SectionOK'
  <2>1. /\ pc[t] = "flip" /\ pc'[t] = "spin" /\ \A u \in Thread : u # t => pc'[u] = pc[u]
        /\ stack' = stack /\ version' = version /\ critical' = critical
        /\ test' = test /\ load' = load /\ count' = count
    BY DEF Flip, TypeOK, section
  <2>. QED  BY <2>1 DEF SectionOK, node
<1>. QED  BY <1>4, <1>5

LEMMA TypesAtSpin ==
  ASSUME TypeOK, TreeInv, SectionOK, NEW t \in Thread, Spin(t)
  PROVE  TypeOK' /\ SectionOK'
<1>1. pc[t] = "spin" /\ entered[t] = left[t] + 1
  BY DEF Spin, TreeInv, SenseOK
<1>2. left[t] + 1 \in 0 .. Episodes
  BY <1>1, EpisodesAssumption DEF TypeOK
<1>3. stack[t] \in Seq(Node) /\ stack[t] # <<>>
  <2>1. Len(stack[t]) \in Nat \ {0}
    BY <1>1, Path DEF TreeInv
  <2>2. Len(<<>>) = 0
    BY EmptySeq
  <2>3. stack[t] \in Seq(Node)
    BY DEF TypeOK
  <2>. QED  BY <2>1, <2>2, <2>3
<1>4. Tail(stack[t]) \in Seq(Node)
  BY <1>3, HeadTailProperties
<1>5. /\ left' \in [Thread -> 0 .. Episodes] /\ stack' \in [Thread -> Seq(Node)]
      /\ pc' \in [Thread -> {"out", "sub", "load", "store", "reset", "flip", "spin"}]
  <2>1. CASE Len(stack[t]) > 1
    BY <1>4, <2>1 DEF Spin, TypeOK
  <2>2. CASE ~ (Len(stack[t]) > 1)
    BY <1>2, <1>4, <2>2 DEF Spin, TypeOK
  <2>. QED  BY <2>1, <2>2
<1>6. TypeOK'
  BY <1>5 DEF Spin, TypeOK, section, flags, Thread, Node, Nobody, k
<1>7. SectionOK'
  <2>1. /\ pc'[t] \in {"reset", "out"}
        /\ \A u \in Thread : u # t => pc'[u] = pc[u] /\ stack'[u] = stack[u]
        /\ version' = version /\ critical' = critical
        /\ test' = test /\ load' = load /\ count' = count
    <3>1. CASE Len(stack[t]) > 1
      BY <3>1 DEF Spin, TypeOK, section
    <3>2. CASE ~ (Len(stack[t]) > 1)
      BY <3>2 DEF Spin, TypeOK, section
    <3>. QED  BY <3>1, <3>2
  <2>. QED  BY <1>1, <2>1 DEF SectionOK, node
<1>. QED  BY <1>6, <1>7


LEMMA InitInv == Init => IInv
<1>. SUFFICES ASSUME Init PROVE IInv
  OBVIOUS
<1>1. /\ \A t \in Thread : /\ pc[t] = "out" /\ stack[t] = <<>>
                           /\ entered[t] = 0 /\ left[t] = 0 /\ sense[t] = 0
      /\ \A n \in Node : count[n] = k(n) /\ locksense[n] = 0 /\ released[n] = 0
      /\ critical = Nobody
  BY DEF Init
<1>2. \A t \in Thread : Carries(t) = {} /\ Holds(t) = {}
  BY <1>1 DEF Carries, Holds, Releasing
<1>3. \A c : Arrived(c) = 0
  BY <1>2 DEF Arrived, Delivered, DeliveredBy
<1>4. TypeOK
  <2>1. <<>> \in Seq(Node)
    BY EmptySeq
  <2>2. stack \in [Thread -> Seq(Node)]
    BY <2>1 DEF Init
  <2>3. count \in [Node -> 0 .. 2] /\ \A n \in Node : count[n] <= k(n)
    BY DEF Init, k
  <2>. QED  BY <2>2, <2>3, EpisodesAssumption DEF Init, TypeOK
<1>5. SectionOK
  BY <1>1, NumThreadsAssumption DEF SectionOK, Nobody, Thread
<1>6. StackOK /\ SenseOK /\ RootOK
  BY <1>1, TreeSize DEF StackOK, SenseOK, RootOK
<1>7. EpisodeOK
  BY <1>1, <1>2, Leaf DEF EpisodeOK
<1>8. DescentOK
  <2>1. \A n \in Node \ {0} : parent(n) \in Node
    BY Parent DEF Child
  <2>. QED  BY <1>1, <2>1 DEF DescentOK, Releasing
<1>9. HolderOK
  BY <1>2 DEF HolderOK
<1>10. MissingOK
  BY <1>1, <1>3 DEF MissingOK, BeingFlipped, k
<1>. QED  BY <1>4, <1>5, <1>6, <1>7, <1>8, <1>9, <1>10 DEF IInv, TreeInv

LEMMA StepInv == IInv /\ [Next]_vars => IInv'
<1>. SUFFICES ASSUME TypeOK, TreeInv, SectionOK, [Next]_vars PROVE IInv'
  BY DEF IInv
<1>1. ASSUME NEW t \in Thread, Call(t) PROVE IInv'
  BY <1>1, CallStep, TypesAtCall DEF IInv
<1>2. ASSUME NEW t \in Thread, FetchAndSub(t) PROVE IInv'
  BY <1>2, TypesAtFetchAndSub DEF IInv
<1>3. ASSUME NEW t \in Thread, CriticalTest(t) PROVE IInv'
  BY <1>3, TypesAtTest DEF IInv
<1>4. ASSUME NEW t \in Thread, CriticalLoad(t) PROVE IInv'
  BY <1>4, TypesAtLoad DEF IInv
<1>5. ASSUME NEW t \in Thread, CriticalStore(t) PROVE IInv'
  BY <1>5, TypesAtStore DEF IInv
<1>6. ASSUME NEW t \in Thread, Reset(t) PROVE IInv'
  BY <1>6, ResetStep, TypesAtReset DEF IInv
<1>7. ASSUME NEW t \in Thread, Flip(t) PROVE IInv'
  BY <1>7, FlipStep, TypesAtFlip DEF IInv
<1>8. ASSUME NEW t \in Thread, Spin(t) PROVE IInv'
  BY <1>8, PopStep, ReturnStep, TypesAtSpin DEF IInv
<1>9. CASE UNCHANGED vars
  <2>1. TypeOK'
    BY <1>9 DEF vars, section, flags, TypeOK, Thread, Node, Nobody, k
  <2>2. SectionOK'
    BY <1>9 DEF vars, section, SectionOK, node
  <2>3. TreeInv'
    <3>1. \A u \in Thread : Carries(u)' = Carries(u) /\ node(u)' = node(u)
      BY <1>9 DEF vars, Carries, node, slot
    <3>2. \A u \in Thread : (Arriving(u)' <=> Arriving(u)) /\ (Releasing(u)' <=> Releasing(u))
      BY <1>9 DEF vars, Arriving, Releasing
    <3>3. \A c : Delivered(c)' <=> Delivered(c)
      BY <1>9, <3>1, <3>2 DEF vars, flags, Delivered, DeliveredBy, parent
    <3>4. \A m : Full(m)' <=> Full(m)
      BY <3>3 DEF Full, Child, parent, slot
    <3>5. \A u \in Thread : Holds(u)' = Holds(u)
      BY <3>1, <3>2 DEF Holds, Node
    <3>6. StackOK' /\ SenseOK' /\ RootOK'
      BY <1>9 DEF vars, flags, TreeInv, StackOK, SenseOK, RootOK, mynode, parent, Node
    <3>7. EpisodeOK'
      BY <1>9, <3>1 DEF vars, flags, TreeInv, EpisodeOK, Node, mynode
    <3>8. DescentOK'
      BY <1>9, <3>1, <3>2, <3>5 DEF vars, flags, TreeInv, DescentOK, Node, parent
    <3>9. HolderOK'
      BY <3>4, <3>5 DEF TreeInv, HolderOK, Node
    <3>10. MissingOK'
      <4>1. \A m : BeingFlipped(m)' <=> BeingFlipped(m)
        BY <1>9, <3>1 DEF vars, BeingFlipped
      <4>2. \A c : Arrived(c)' = Arrived(c)
        BY <3>3 DEF Arrived
      <4>. QED  BY <1>9, <4>1, <4>2 DEF vars, TreeInv, MissingOK, Node, k
    <3>. QED  BY <3>6, <3>7, <3>8, <3>9, <3>10 DEF TreeInv
  <2>. QED  BY <2>1, <2>2, <2>3 DEF IInv
<1>. QED  BY <1>1, <1>2, <1>3, <1>4, <1>5, <1>6, <1>7, <1>8, <1>9 DEF Next, Step

LEMMA Invariance == Spec => []IInv
  BY InitInv, StepInv, PTL DEF Spec

-----------------------------------------------------------------------------
(* The theorems. *)

(* Counts, senses and stacks stay in range: no node is decremented below 0 *)
(* or counts more than it expects.                                         *)
THEOREM TypeCorrectness == Spec => []TypeOK
  BY Invariance, PTL DEF IInv

(* No node is ahead of the root. *)
LEMMA RootFirst ==
  ASSUME TypeOK, TreeInv
  PROVE  \A m \in Node : released[m] <= released[0]
<1>. DEFINE Bad == {m \in Node : ~ (released[m] <= released[0])}
<1>. SUFFICES ASSUME Bad # {} PROVE FALSE
  OBVIOUS
<1>0. \A m \in Node : released[m] \in Nat /\ m \in Nat
  BY EpisodesAssumption, TreeSize DEF TypeOK
<1>1. PICK m \in Bad : \A o \in Bad : m <= o
  <2>1. Bad \in SUBSET Nat
    BY TreeSize
  <2>. HIDE DEF Bad
  <2>. QED  BY <2>1, LeastNumber
<1>2. m \in Node \ {0} /\ m \in Child
  BY <1>0, <1>1, TreeSize DEF Child
<1>3. parent(m) \in Node /\ parent(m) < m /\ parent(m) \in Nat /\ m \in Nat
  BY <1>2, Parent, TreeSize
<1>4. parent(m) \notin Bad
  <2>. HIDE DEF Bad
  <2>. QED  BY <1>1, <1>3
<1>5. released[parent(m)] <= released[0]
  BY <1>3, <1>4
<1>6. released[m] <= released[parent(m)]
  BY <1>0, <1>2, <1>3 DEF TreeInv, DescentOK
<1>. QED  BY <1>0, <1>1, <1>3, <1>5, <1>6, TreeSize

(* A thread that has left an episode, or may leave it, was let go by the   *)
(* root, and the root by everybody.                                        *)
LEMMA LeaversFollowRoot ==
  ASSUME TypeOK, TreeInv, NEW p \in Thread, NEW q \in Thread
  PROVE  /\ left[p] <= entered[q]
         /\ pc[p] = "spin" /\ locksense[node(p)] = sense[p] => left[p] + 1 <= entered[q]
<1>0. /\ left[p] \in Nat /\ entered[q] \in Nat
      /\ \A m \in Node : released[m] \in Nat /\ released[m] <= released[0]
      /\ released[0] \in Nat /\ released[0] <= entered[q]
  BY RootFirst, EpisodesAssumption, TreeSize DEF TypeOK, TreeInv, RootOK
<1>1. left[p] <= entered[q]
  <2>1. CASE pc[p] = "out"
    BY <1>0, <2>1, Leaf DEF TreeInv, EpisodeOK
  <2>2. CASE pc[p] # "out"
    <3>1. node(p) \in Node
      BY <2>2, Path DEF TreeInv
    <3>2. released[node(p)] = left[p] \/ released[node(p)] = left[p] + 1
      BY <2>2 DEF TreeInv, EpisodeOK
    <3>. QED  BY <1>0, <3>1, <3>2
  <2>. QED  BY <2>1, <2>2
<1>2. ASSUME pc[p] = "spin", locksense[node(p)] = sense[p] PROVE left[p] + 1 <= entered[q]
  <2>1. node(p) \in Node /\ released[node(p)] = left[p] + 1
    BY <1>2, SpinEnds
  <2>. QED  BY <1>0, <2>1
<1>. QED  BY <1>1, <1>2

(* Nobody has left an episode that somebody has not entered, in either     *)
(* file and for any number of threads.                                     *)
THEOREM Safety == Spec => []BarrierSafety
<1>1. IInv => BarrierSafety
  BY LeaversFollowRoot DEF IInv, BarrierSafety
<1>. QED  BY <1>1, Invariance, PTL

LEMMA ParityOfNext ==
  ASSUME NEW a \in Nat, NEW b \in Nat, b = a + 1
  PROVE  b % 2 = 1 - (a % 2)
  OBVIOUS

(* The releases go down the tree. *)
THEOREM ReleaseOrder == Spec => ReleaseTopDown
<1>1. ASSUME TypeOK, TreeInv, [Next]_vars, NEW n \in Node \ {0}, locksense'[n] # locksense[n]
      PROVE  locksense[parent(n)] = locksense'[n]
  <2>1. ~ UNCHANGED locksense
    BY <1>1
  <2>2. PICK t \in Thread : Flip(t)
    BY <1>1, <2>1 DEF Next, Step, Call, FetchAndSub, CriticalTest, CriticalLoad, CriticalStore,
                      Reset, Spin, vars, flags
  <2>3. node(t) = n
    BY <1>1, <2>2 DEF Flip, TypeOK
  <2>4. Releasing(t) /\ released[n] = left[t] /\ released[parent(n)] = left[t] + 1
    <3>1. Releasing(t)
      BY <2>2 DEF Flip, Releasing
    <3>. QED  BY <1>1, <2>3, <3>1, ReleaserFacts DEF TreeInv, DescentOK
  <2>5. n \in Child /\ parent(n) \in Node
    <3>1. n \in Child
      BY DEF Child
    <3>. QED  BY <3>1, Parent
  <2>6. left[t] \in Nat
    BY <1>1, EpisodesAssumption DEF TypeOK
  <2>7. locksense[n] = left[t] % 2 /\ locksense[parent(n)] = (left[t] + 1) % 2
    BY <1>1, <2>4, <2>5 DEF TreeInv, SenseOK
  <2>8. (left[t] + 1) % 2 = 1 - (left[t] % 2)
    BY <2>6, ParityOfNext
  <2>9. locksense'[n] = 1 - locksense[n]
    BY <1>1, <2>2, <2>3 DEF Flip, TypeOK
  <2>. QED  BY <2>7, <2>8, <2>9
<1>2. IInv /\ [Next]_vars =>
        [\A n \in Node \ {0} :
           locksense'[n] # locksense[n] => locksense[parent(n)] = locksense'[n]]_vars
  BY <1>1 DEF IInv
<1>. QED  BY <1>2, Invariance, PTL DEF Spec, ReleaseTopDown

LEMMA StepSimulates ==
  IInv /\ [Next]_vars => [Abstract!BNext]_(Abstract!bvars)
<1>. SUFFICES ASSUME TypeOK, TreeInv, [Next]_vars
              PROVE  [Abstract!BNext]_(Abstract!bvars)
  BY DEF IInv
<1>. USE DEF Abstract!bvars
<1>1. ASSUME NEW t \in Thread, Call(t) PROVE Abstract!Enter(t)
  BY <1>1 DEF Call, TreeInv, SenseOK, TypeOK, Abstract!Enter
<1>2. ASSUME NEW t \in Thread,
             \/ FetchAndSub(t) \/ CriticalTest(t) \/ CriticalLoad(t) \/ CriticalStore(t)
             \/ Reset(t) \/ Flip(t)
      PROVE  UNCHANGED <<entered, left>>
  BY <1>2 DEF FetchAndSub, CriticalTest, CriticalLoad, CriticalStore, Reset, Flip
<1>3. ASSUME NEW t \in Thread, Spin(t) PROVE UNCHANGED <<entered, left>> \/ Abstract!Leave(t)
  <2>1. CASE Len(stack[t]) > 1
    BY <1>3, <2>1 DEF Spin
  <2>2. CASE ~ (Len(stack[t]) > 1)
    <3>1. entered[t] = left[t] + 1 /\ left[t] \in Nat
      BY <1>3, EpisodesAssumption DEF Spin, TreeInv, SenseOK, TypeOK
    <3>2. \A u \in Thread : left[t] + 1 <= entered[u] /\ entered[u] \in Nat
      BY <1>3, LeaversFollowRoot, EpisodesAssumption DEF Spin, TypeOK
    <3>3. \A u \in Thread : entered[u] >= entered[t]
      BY <3>1, <3>2
    <3>. QED  BY <1>3, <2>2, <3>1, <3>3 DEF Spin, Abstract!Leave
  <2>. QED  BY <2>1, <2>2
<1>4. CASE UNCHANGED vars
  BY <1>4 DEF vars
<1>. QED  BY <1>1, <1>2, <1>3, <1>4 DEF Next, Step, Abstract!BNext

(* The combining tree implements the safety part of Barrier. *)
THEOREM Refinement == Spec => ImplementsBarrier
<1>1. Init => Abstract!BInit
  BY DEF Init, Abstract!BInit
<1>. QED  BY <1>1, Invariance, StepSimulates, PTL
          DEF Spec, ImplementsBarrier, Abstract!BSpec


-----------------------------------------------------------------------------
(* The counters. *)

(* t has come to each node on its stack through one child.                 *)
Through(t, i) == IF i = Len(stack[t]) THEN slot(t) ELSE stack[t][i + 1]

LEMMA Ways ==
  ASSUME TypeOK, StackOK, NEW t \in Thread, pc[t] # "out"
  PROVE  /\ \A i \in 1 .. Len(stack[t]) :
              Through(t, i) \in Carries(t) /\ parent(Through(t, i)) = stack[t][i]
         /\ \A c \in Carries(t) : \E i \in 1 .. Len(stack[t]) : c = Through(t, i)
<1>0. Len(stack[t]) \in Nat \ {0}
  BY Path
<1>1. ASSUME NEW i \in 1 .. Len(stack[t])
      PROVE  Through(t, i) \in Carries(t) /\ parent(Through(t, i)) = stack[t][i]
  <2>1. CASE i = Len(stack[t])
    <3>1. stack[t][i] = mynode(t) /\ Through(t, i) = slot(t)
      BY <2>1 DEF Through, StackOK
    <3>. QED  BY <3>1, CarriedBy, Slot
  <2>2. CASE i # Len(stack[t])
    <3>1. i + 1 \in 2 .. Len(stack[t]) /\ i \in 1 .. Len(stack[t]) - 1
      BY <1>0, <2>2
    <3>2. stack[t][i] = parent(stack[t][i + 1]) /\ Through(t, i) = stack[t][i + 1]
      BY <2>2, <3>1 DEF StackOK, Through
    <3>. QED  BY <3>1, <3>2, CarriedBy
  <2>. QED  BY <2>1, <2>2
<1>2. ASSUME NEW c \in Carries(t) PROVE \E i \in 1 .. Len(stack[t]) : c = Through(t, i)
  <2>1. CASE c = slot(t)
    <3>1. Len(stack[t]) \in 1 .. Len(stack[t])
      BY <1>0
    <3>. QED  BY <2>1, <3>1 DEF Through
  <2>2. CASE c # slot(t)
    <3>1. PICK i \in 2 .. Len(stack[t]) : c = stack[t][i]
      BY <2>2, CarriedBy
    <3>2. i - 1 \in 1 .. Len(stack[t]) /\ i - 1 # Len(stack[t]) /\ (i - 1) + 1 = i
      BY <1>0
    <3>3. c = Through(t, i - 1)
      BY <3>1, <3>2 DEF Through
    <3>. QED  BY <3>2, <3>3
  <2>. QED  BY <2>1, <2>2
<1>. QED  BY <1>1, <1>2

LEMMA OneWay ==
  ASSUME TypeOK, StackOK, NEW t \in Thread, NEW c \in Carries(t), NEW d \in Carries(t),
         parent(c) = parent(d)
  PROVE  c = d
<1>1. pc[t] # "out"
  BY CarriedBy
<1>2. PICK i \in 1 .. Len(stack[t]) : c = Through(t, i)
  BY <1>1, Ways
<1>3. PICK j \in 1 .. Len(stack[t]) : d = Through(t, j)
  BY <1>1, Ways
<1>4. stack[t][i] = stack[t][j]
  BY <1>1, <1>2, <1>3, Ways
<1>5. stack[t][i] \in Nat /\ ~ (i < j) /\ ~ (j < i)
  <2>1. stack[t][i] \in Nat
    BY <1>1, Path
  <2>2. ~ (stack[t][i] < stack[t][j]) /\ ~ (stack[t][j] < stack[t][i])
    BY <1>4, <2>1
  <2>. QED  BY <1>1, <2>1, <2>2 DEF StackOK
<1>6. i = j
  BY <1>1, <1>5, Path
<1>. QED  BY <1>2, <1>3, <1>6

(* Who is counted at a node is who has arrived there in its episode.       *)
LEMMA ArrivedThrough ==
  ASSUME TypeOK, TreeInv, NEW n \in Node, NEW t \in Thread
  PROVE  t \in ArrivedAt(n) <=> DeliveredBy(t, 2 * n + 1) \/ DeliveredBy(t, 2 * n + 2)
<1>0. /\ StackOK /\ n \in Nat /\ left[t] \in Nat /\ released[n] \in Nat
      /\ parent(2 * n + 1) = n /\ parent(2 * n + 2) = n
  <2>1. n \in Nat
    BY TreeSize
  <2>2. 2 * n + 1 \in Nat \ {0} /\ 2 * n + 2 \in Nat \ {0}
    BY <2>1
  <2>. QED  BY <2>1, <2>2, Halves, EpisodesAssumption DEF TreeInv, TypeOK
<1>1. ASSUME t \in ArrivedAt(n)
      PROVE  DeliveredBy(t, 2 * n + 1) \/ DeliveredBy(t, 2 * n + 2)
  <2>1. PICK i \in 1 .. Len(stack[t]) : stack[t][i] = n
    BY <1>1 DEF ArrivedAt, Frames
  <2>2. pc[t] # "out"
    <3>. SUFFICES ASSUME pc[t] = "out" PROVE FALSE
      OBVIOUS
    <3>1. Len(stack[t]) = 0
      BY <1>0, EmptySeq DEF StackOK
    <3>2. \A j : j \notin 1 .. 0
      OBVIOUS
    <3>. QED  BY Zenon, <3>1, <3>2
  <2>3. PICK c : c \in Carries(t) /\ parent(c) = n
    BY <1>0, <2>1, <2>2, Ways
  <2>4. c \in {2 * n + 1, 2 * n + 2}
    <3>1. c \in Nat \ {0}
      BY <1>0, <2>2, <2>3, Carried, Parent
    <3>. QED  BY <1>0, <2>3, <3>1, Halves
  <2>5. released[n] = left[t]
    <3>1. CASE i = 1
      <4>1. n = node(t)
        BY <1>0, <2>1, <2>2, <3>1, Path
      <4>2. released[n] = left[t] \/ released[n] = left[t] + 1
        BY <2>2, <4>1 DEF TreeInv, EpisodeOK
      <4>3. sense[t] # locksense[n]
        BY <1>1 DEF ArrivedAt
      <4>4. sense[t] = (left[t] + 1) % 2 /\ locksense[n] = released[n] % 2
        BY <2>2 DEF TreeInv, SenseOK
      <4>. QED  BY <4>2, <4>3, <4>4
    <3>2. CASE i # 1
      <4>1. i \in 2 .. Len(stack[t])
        BY <1>0, <2>2, <3>2, Path
      <4>2. n \in Carries(t)
        BY <2>1, <2>2, <4>1, CarriedBy
      <4>. QED  BY <4>2 DEF TreeInv, EpisodeOK
    <3>. QED  BY <3>1, <3>2
  <2>6. ~ (Arriving(t) /\ node(t) = n)
    BY <1>1 DEF ArrivedAt, Arriving
  <2>. QED  BY <2>3, <2>4, <2>5, <2>6 DEF DeliveredBy
<1>2. ASSUME NEW c, DeliveredBy(t, c), parent(c) = n
      PROVE  t \in ArrivedAt(n)
  <2>1. c \in Carries(t) /\ released[n] = left[t] /\ ~ (Arriving(t) /\ node(t) = n)
    BY <1>2 DEF DeliveredBy
  <2>2. pc[t] # "out"
    BY <2>1, CarriedBy
  <2>3. n \in Frames(t)
    BY <1>0, <1>2, <2>1, <2>2, Ways DEF Frames
  <2>4. sense[t] = (left[t] + 1) % 2 /\ locksense[n] = left[t] % 2
    BY <2>1, <2>2 DEF TreeInv, SenseOK
  <2>5. sense[t] # locksense[n]
    <3>1. left[t] % 2 # (left[t] + 1) % 2
      BY <1>0
    <3>. QED  BY <2>4, <3>1
  <2>. QED  BY <2>1, <2>3, <2>5 DEF ArrivedAt, Arriving
<1>. QED  BY <1>0, <1>1, <1>2

LEMMA ArrivalsCounted ==
  ASSUME TypeOK, TreeInv, NEW n \in Node
  PROVE  Cardinality(ArrivedAt(n)) = Arrived(2 * n + 1) + Arrived(2 * n + 2)
<1>0. PICK a, b : a = 2 * n + 1 /\ b = 2 * n + 2
  OBVIOUS
<1>1. a # b /\ parent(a) = n /\ parent(b) = n
  <2>1. n \in Nat
    BY TreeSize
  <2>2. 2 * n + 1 \in Nat \ {0} /\ 2 * n + 2 \in Nat \ {0} /\ a # b
    BY <1>0, <2>1
  <2>. QED  BY <1>0, <2>1, <2>2, Halves
<1>. DEFINE At(c) == {t \in Thread : DeliveredBy(t, c)}
<1>2. ArrivedAt(n) = At(a) \cup At(b)
  <2>1. \A t \in Thread : t \in ArrivedAt(n) <=> DeliveredBy(t, a) \/ DeliveredBy(t, b)
    BY <1>0, ArrivedThrough
  <2>2. ArrivedAt(n) \subseteq Thread
    BY DEF ArrivedAt
  <2>. QED  BY <2>1, <2>2
<1>3. \A c : (Arrived(c) = 0 /\ At(c) = {}) \/ (Arrived(c) = 1 /\ \E w \in Thread : At(c) = {w})
  <2>. SUFFICES ASSUME NEW c
                PROVE  \/ Arrived(c) = 0 /\ At(c) = {}
                       \/ Arrived(c) = 1 /\ \E w \in Thread : At(c) = {w}
    OBVIOUS
  <2>1. CASE Delivered(c)
    <3>1. PICK w \in Thread : DeliveredBy(w, c)
      BY <2>1 DEF Delivered
    <3>2. \A t \in Thread : DeliveredBy(t, c) => t = w
      BY <3>1 DEF DeliveredBy, TreeInv, HolderOK, Holds
    <3>3. At(c) = {w}
      BY <3>1, <3>2
    <3>. QED  BY <2>1, <3>3 DEF Arrived
  <2>2. CASE ~ Delivered(c)
    BY <2>2 DEF Delivered, Arrived
  <2>. QED  BY <2>1, <2>2
<1>4. At(a) \cap At(b) = {}
  <2>. SUFFICES ASSUME NEW t \in Thread, t \in At(a), t \in At(b) PROVE FALSE
    OBVIOUS
  <2>1. a \in Carries(t) /\ b \in Carries(t)
    BY DEF DeliveredBy
  <2>. QED  BY <1>1, <2>1, OneWay DEF TreeInv
<1>. HIDE DEF At
<1>5. CASE Arrived(a) = 0 /\ At(a) = {}
  <2>1. ArrivedAt(n) = At(b)
    BY <1>2, <1>5
  <2>2. Cardinality(At(b)) = Arrived(b)
    BY <1>3, FS_EmptySet, FS_Singleton
  <2>. QED  BY <1>0, <1>5, <2>1, <2>2, <1>3
<1>6. CASE Arrived(a) = 1 /\ \E w \in Thread : At(a) = {w}
  <2>1. PICK w \in Thread : At(a) = {w}
    BY <1>6
  <2>2. IsFiniteSet({w}) /\ Cardinality({w}) = 1
    BY FS_Singleton
  <2>3. CASE Arrived(b) = 0 /\ At(b) = {}
    BY <1>0, <1>2, <1>6, <2>1, <2>2, <2>3
  <2>4. CASE Arrived(b) = 1 /\ \E x \in Thread : At(b) = {x}
    <3>1. PICK x \in Thread : At(b) = {x}
      BY <2>4
    <3>2. x \notin {w} /\ ArrivedAt(n) = {w} \cup {x}
      BY <1>2, <1>4, <2>1, <3>1
    <3>3. Cardinality({w} \cup {x}) = 1 + 1
      BY <2>2, <3>2, FS_AddElement
    <3>. QED  BY <1>0, <1>6, <2>4, <3>2, <3>3
  <2>. QED  BY <1>3, <2>3, <2>4
<1>. QED  BY <1>3, <1>5, <1>6

(* A node that nobody is about to release misses as many arrivals as it    *)
(* expects, less those of its episode.                                     *)
THEOREM CountsCorrect == Spec => []CountOK
<1>1. ASSUME TypeOK, TreeInv, NEW n \in Node,
             \A t \in Thread : pc[t] = "flip" => node(t) # n
      PROVE  count[n] = k(n) - Cardinality(ArrivedAt(n))
  <2>1. count[n] = k(n) - Arrived(2 * n + 1) - Arrived(2 * n + 2)
    BY <1>1 DEF TreeInv, MissingOK, BeingFlipped
  <2>2. k(n) \in Int /\ Arrived(2 * n + 1) \in Int /\ Arrived(2 * n + 2) \in Int
    BY DEF k, Arrived
  <2>. QED  BY <1>1, <2>1, <2>2, ArrivalsCounted
<1>2. IInv => CountOK
  BY <1>1 DEF IInv, CountOK
<1>. QED  BY <1>2, Invariance, PTL

=============================================================================
