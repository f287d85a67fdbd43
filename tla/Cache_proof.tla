---------------------------- MODULE Cache_proof ----------------------------
(***************************************************************************)
(* Proofs about the four caches for any keys, sizes, hash values and       *)
(* number of places: the heap of indexminpq.c, the open addressing of      *)
(* hshtbl.c, the inductive invariant IInv that ties both to the entries,   *)
(* and the order OrderInv of the queues, which needs keys that fit an int. *)
(*                                                                         *)
(* The loops of the C code are turns, repeated (Loop): what a loop does is *)
(* shown by LoopInvariant, turn by turn.                                   *)
(***************************************************************************)
EXTENDS Cache, TLAPS, FiniteSetTheorems, SequenceTheorems, WellFoundedInduction

-----------------------------------------------------------------------------
(* Induction on numbers, with sets in the place of predicates.             *)

Less == {ss \in Nat \X Nat : ss[1] < ss[2]}

(* The order on the naturals is well-founded. *)
LEMMA LessWF == IsWellFoundedOn(Less, Nat)
<1>1. OpToRel(<, Nat) = Less
  BY Zenon DEF OpToRel, Less
<1> QED BY <1>1, NatLessThanWellFounded, Zenon

(* A set of numbers that is not empty has a least element. *)
LEMMA LeastNumber ==
  ASSUME NEW T \in SUBSET Nat, T # {}
  PROVE  \E x \in T : \A y \in T : x <= y
<1>1. PICK x \in T : \A y \in T : ~(<<y, x>> \in Less)
  BY LessWF, WFMin, Zenon
<1>2. ASSUME NEW y \in T, y < x PROVE FALSE
  <2>1. <<y, x>> \in Less
    BY <1>2 DEF Less
  <2> QED BY <2>1, <1>1
<1> QED BY <1>1, <1>2

(* What holds of 0, and of n + 1 whenever it holds of n, holds up to N. *)
LEMMA Induction ==
  ASSUME NEW N \in Nat, NEW T, 0 \in T, \A n \in 0 .. N - 1 : n \in T => n + 1 \in T
  PROVE  \A n \in 0 .. N : n \in T
<1> SUFFICES ASSUME {n \in 0 .. N : n \notin T} # {} PROVE FALSE
  OBVIOUS
<1>1. PICK x \in {n \in 0 .. N : n \notin T} : \A y \in {n \in 0 .. N : n \notin T} : x <= y
  <2>1. {n \in 0 .. N : n \notin T} \in SUBSET Nat
    OBVIOUS
  <2> QED BY <2>1, LeastNumber, Zenon
<1>2. x # 0
  BY <1>1
<1>3. x - 1 \in 0 .. N - 1 /\ ~(x <= x - 1) /\ x = (x - 1) + 1
  BY <1>1, <1>2
<1>4. x - 1 \in T
  BY <1>1, <1>3
<1> QED BY <1>1, <1>3, <1>4

(* The states that a loop with the body F goes through in N turns from s.  *)
Runs(S, F, s, N) ==
  {f \in [0 .. N -> S] : f[0] = s /\ \A i \in 0 .. N - 1 : f[i + 1] = F[f[i]]}

(* Every loop has such a run. *)
LEMMA LoopExists ==
  ASSUME NEW S, NEW F \in [S -> S], NEW s \in S, NEW N \in Nat
  PROVE  Runs(S, F, s, N) # {}
<1> DEFINE P(n) == \E f \in [0 .. n -> S] : f[0] = s /\ \A i \in 0 .. n - 1 : f[i + 1] = F[f[i]]
           T == {n \in 0 .. N : P(n)}
<1>1. P(0)
  <2> DEFINE f == [i \in 0 .. 0 |-> s]
  <2>1. f \in [0 .. 0 -> S] /\ f[0] = s /\ \A i \in 0 .. 0 - 1 : f[i + 1] = F[f[i]]
    OBVIOUS
  <2> QED BY <2>1
<1>2. ASSUME NEW n \in 0 .. N - 1, P(n) PROVE P(n + 1)
  <2>1. PICK f \in [0 .. n -> S] : f[0] = s /\ \A i \in 0 .. n - 1 : f[i + 1] = F[f[i]]
    BY <1>2
  <2> DEFINE g == [i \in 0 .. n + 1 |-> IF i <= n THEN f[i] ELSE F[f[n]]]
  <2>2. g \in [0 .. n + 1 -> S] /\ g[0] = s
    BY <2>1
  <2>3. \A i \in 0 .. (n + 1) - 1 : g[i + 1] = F[g[i]]
    <3> SUFFICES ASSUME NEW i \in 0 .. n PROVE g[i + 1] = F[g[i]]
      OBVIOUS
    <3>1. CASE i = n
      BY <3>1
    <3>2. CASE i \in 0 .. n - 1
      <4>1. f[i + 1] = F[f[i]]
        BY <2>1, <3>2
      <4> QED BY <3>2, <4>1
    <3> QED BY <3>1, <3>2
  <2> HIDE DEF g
  <2> QED BY <2>2, <2>3
<1> HIDE DEF P
<1>3. 0 \in T /\ \A n \in 0 .. N - 1 : n \in T => n + 1 \in T
  BY <1>1, <1>2
<1> HIDE DEF T
<1>4. N \in T
  BY <1>3, Induction
<1> QED BY <1>4 DEF T, P, Runs

(* What I says of the state after n turns. *)
LEMMA LoopInvariant ==
  ASSUME NEW N \in Nat, NEW g, NEW I, g[0] \in I[0],
         \A n \in 0 .. N - 1 : g[n] \in I[n] => g[n + 1] \in I[n + 1]
  PROVE  \A n \in 0 .. N : g[n] \in I[n]
<1> DEFINE T == {n \in 0 .. N : g[n] \in I[n]}
<1>1. 0 \in T /\ \A n \in 0 .. N - 1 : n \in T => n + 1 \in T
  OBVIOUS
<1> HIDE DEF T
<1>2. \A n \in 0 .. N : n \in T
  BY <1>1, Induction
<1> QED BY <1>2 DEF T

-----------------------------------------------------------------------------
(* Arithmetic. *)

(* Indices modulo the size of the table. *)
LEMMA ModBelow == ASSUME NEW n \in Nat \ {0}, NEW a \in 0 .. n - 1 PROVE a % n = a
  BY SMT

(* Once around the end. *)
LEMMA ModOnce == ASSUME NEW n \in Nat \ {0}, NEW a \in n .. 2 * n - 1 PROVE a % n = a - n
  BY SMT

(* Slots. *)
LEMMA ModType == ASSUME NEW n \in Nat \ {0}, NEW a \in Int PROVE a % n \in 0 .. n - 1
  BY SMT

(* The least element of a set of numbers. *)
LEMMA MinOf ==
  ASSUME NEW T \in SUBSET Nat, T # {}
  PROVE  Min(T) \in T /\ \A y \in T : Min(T) <= y
  BY LeastNumber DEF Min

(* The greatest element of a bounded set of numbers. *)
LEMMA MaxOf ==
  ASSUME NEW T \in SUBSET Nat, NEW b \in Nat, \A y \in T : y <= b, T # {}
  PROVE  Max(T) \in T /\ \A y \in T : y <= Max(T)
<1> DEFINE U == {n \in Nat : \A y \in T : y <= n}
<1>1. PICK m \in U : \A y \in U : m <= y
  <2>1. U \in SUBSET Nat /\ U # {}
    OBVIOUS
  <2> HIDE DEF U
  <2> QED BY <2>1, LeastNumber
<1>2. m \in T
  <2> SUFFICES ASSUME m \notin T PROVE FALSE
    OBVIOUS
  <2>1. PICK y \in T : TRUE
    OBVIOUS
  <2>2. m - 1 \in U
    BY <2>1
  <2> QED BY <2>2, <1>1
<1>3. \E x \in T : \A y \in T : x >= y
  BY <1>2
<1>4. Max(T) \in T /\ \A y \in T : Max(T) >= y
  BY <1>3, Zenon DEF Max
<1>5. \A x, y \in Nat : x >= y => y <= x
  OBVIOUS
<1> QED BY <1>4, <1>5

(* shift[i] is 2^i. *)
LEMMA ShiftDef ==
  /\ shift[0] = 1
  /\ \A n \in 0 .. SizeBits : shift[n + 1] = 2 * shift[n]
  /\ \A n \in 0 .. SizeBits + 1 : shift[n] \in Nat \ {0}
<1> DEFINE N == SizeBits + 1
           F == [x \in Nat |-> 2 * x]
<1>0. N \in Nat /\ SizeBits \in Nat
  BY BoundsAssumption
<1>1. PICK f \in [0 .. N -> Nat] : f[0] = 1 /\ \A i \in 0 .. N - 1 : f[i + 1] = F[f[i]]
  <2>1. F \in [Nat -> Nat] /\ 1 \in Nat
    OBVIOUS
  <2> HIDE DEF F, N
  <2>2. Runs(Nat, F, 1, N) # {}
    BY <2>1, <1>0, LoopExists
  <2> QED BY <2>2 DEF Runs
<1>2. f = [i \in 0 .. N |-> IF i = 0 THEN 1 ELSE 2 * f[i - 1]]
  <2>1. \A i \in 0 .. N : i # 0 => i - 1 \in 0 .. N - 1 /\ f[i - 1] \in Nat /\ (i - 1) + 1 = i
    BY <1>0
  <2> QED BY <1>1, <2>1, <1>0
<1>3. shift = [i \in 0 .. SizeBits + 1 |-> IF i = 0 THEN 1 ELSE 2 * shift[i - 1]]
  <2> DEFINE Q(g) == g = [i \in 0 .. SizeBits + 1 |-> IF i = 0 THEN 1 ELSE 2 * g[i - 1]]
  <2>1. Q(f)
    BY <1>2
  <2>2. shift = CHOOSE g : Q(g)
    BY DEF shift
  <2> HIDE DEF Q
  <2>3. Q(shift)
    BY <2>1, <2>2, Zenon
  <2> QED BY <2>3 DEF Q
<1>4. shift[0] = 1 /\ \A n \in 0 .. SizeBits : shift[n + 1] = 2 * shift[n]
  <2>1. \A i \in 0 .. SizeBits + 1 : shift[i] = IF i = 0 THEN 1 ELSE 2 * shift[i - 1]
    BY <1>3
  <2>2. \A n \in 0 .. SizeBits : n + 1 \in 0 .. SizeBits + 1 /\ n + 1 # 0 /\ (n + 1) - 1 = n
    BY <1>0
  <2>3. 0 \in 0 .. SizeBits + 1
    BY <1>0
  <2> QED BY <2>1, <2>2, <2>3
<1> DEFINE J == [n \in Nat |-> Nat \ {0}]
<1>5. \A n \in 0 .. N : shift[n] \in J[n]
  <2>1. shift[0] \in J[0] /\ \A n \in 0 .. N - 1 : shift[n] \in J[n] => shift[n + 1] \in J[n + 1]
    <3>1. shift[0] \in J[0]
      BY <1>4
    <3>2. ASSUME NEW n \in 0 .. N - 1, shift[n] \in J[n] PROVE shift[n + 1] \in J[n + 1]
      <4>1. n \in 0 .. SizeBits /\ n + 1 \in Nat
        BY <1>0
      <4>2. shift[n] \in Nat \ {0} /\ shift[n + 1] = 2 * shift[n]
        BY <3>2, <4>1, <1>4
      <4>3. 2 * shift[n] \in Nat \ {0}
        BY <4>2
      <4> QED BY <4>1, <4>2, <4>3
    <3> QED BY <3>1, <3>2
  <2> HIDE DEF J, N
  <2> QED BY <2>1, <1>0, LoopInvariant
<1> QED BY <1>4, <1>5, <1>0

-----------------------------------------------------------------------------
(* The heap.  Whatever the keys, its operations keep the set of indices    *)
(* that are queued, D, and the inverse of pq; and they keep it a heap.     *)

Queue == [pq : Seq(Id), qp : [Id -> Int], keys : [Id -> Nat]]

Holds(q, D) ==
  /\ q \in Queue /\ D \subseteq Id
  /\ \A k \in 1 .. Len(q.pq) : q.pq[k] \in D /\ q.qp[q.pq[k]] = k
  /\ \A id \in D : q.qp[id] \in 1 .. Len(q.pq) /\ q.pq[q.qp[id]] = id

Permuted(q, r, D) ==
  /\ Holds(r, D) /\ Len(r.pq) = Len(q.pq) /\ r.keys = q.keys
  /\ \A id \in Id \ D : r.qp[id] = q.qp[id]

key(q, k) == q.keys[q.pq[k]]

Fits(q) == \A id \in Id : q.keys[id] < IntHalf

Ordered(q) == \A c \in 2 .. Len(q.pq) : key(q, c \div 2) <= key(q, c)

(* A heap but for the edges from k down, or but for the edge from k up.    *)
OrderedAbove(q, k) ==
  \A c \in 2 .. Len(q.pq) :
     IF c \div 2 = k THEN k > 1 => key(q, k \div 2) <= key(q, c)
                     ELSE key(q, c \div 2) <= key(q, c)

OrderedBelow(q, k) ==
  \A c \in 2 .. Len(q.pq) : c # k =>
     /\ key(q, c \div 2) <= key(q, c)
     /\ c \div 2 = k /\ k > 1 => key(q, k \div 2) <= key(q, c)

(* While keys fit an int, keycmp compares them as numbers. *)
LEMMA GreaterDef ==
  ASSUME NEW q \in Queue, Fits(q), NEW i \in 1 .. Len(q.pq), NEW j \in 1 .. Len(q.pq)
  PROVE  greater(q, i, j) <=> key(q, i) > key(q, j)
<1> DEFINE x == key(q, i)
           y == key(q, j)
<1>1. x \in 0 .. IntHalf - 1 /\ y \in 0 .. IntHalf - 1 /\ IntHalf \in Nat \ {0}
  <2>1. q.pq[i] \in Id /\ q.pq[j] \in Id
    BY DEF Queue
  <2>2. q.keys \in [Id -> Nat]
    BY DEF Queue
  <2>3. IntHalf \in Nat \ {0}
    BY BoundsAssumption
  <2> QED BY <2>1, <2>2, <2>3 DEF Fits, key
<1>2. greater(q, i, j) <=> keycmp(x, y) > 0
  BY DEF greater, key
<1> HIDE DEF x, y
<1>3. keycmp(x, y) = x - y
  <2>1. (x - y + IntHalf) \in 0 .. 2 * IntHalf - 1 /\ 2 * IntHalf \in Nat \ {0}
    BY <1>1
  <2>2. (x - y + IntHalf) % (2 * IntHalf) = x - y + IntHalf
    BY <2>1, ModBelow
  <2> QED BY <2>2, <1>1 DEF keycmp
<1>4. x - y > 0 <=> x > y
  BY <1>1
<1> QED BY <1>2, <1>3, <1>4 DEF x, y

(* exch swaps two places of the queue. *)
LEMMA ExchHolds ==
  ASSUME NEW q, NEW D, Holds(q, D), NEW i \in 1 .. Len(q.pq), NEW j \in 1 .. Len(q.pq)
  PROVE  /\ Permuted(q, exch(q, i, j), D)
         /\ \A k \in 1 .. Len(q.pq) :
              exch(q, i, j).pq[k] = IF k = j THEN q.pq[i] ELSE IF k = i THEN q.pq[j] ELSE q.pq[k]
<1> DEFINE r == exch(q, i, j)
           n == Len(q.pq)
<1>1. /\ q.pq \in Seq(Id) /\ q.qp \in [Id -> Int] /\ q.keys \in [Id -> Nat] /\ n \in Nat
      /\ q = [pq |-> q.pq, qp |-> q.qp, keys |-> q.keys]
  BY DEF Holds, Queue
<1>2. /\ r.pq = [q.pq EXCEPT ![i] = q.pq[j], ![j] = q.pq[i]]
      /\ r.qp = [q.qp EXCEPT ![r.pq[i]] = i, ![r.pq[j]] = j]
      /\ r.keys = q.keys
      /\ r = [pq |-> r.pq, qp |-> r.qp, keys |-> r.keys]
  <2> DEFINE p == [q.pq EXCEPT ![i] = q.pq[j], ![j] = q.pq[i]]
             o == [q.qp EXCEPT ![p[i]] = i, ![p[j]] = j]
  <2>1. r = [q EXCEPT !.pq = p, !.qp = o]
    BY DEF exch
  <2> HIDE DEF r, p, o
  <2>2. r = [pq |-> p, qp |-> o, keys |-> q.keys]
    BY <1>1, <2>1
  <2>3. r.pq = p /\ r.qp = o /\ r.keys = q.keys /\ r = [pq |-> r.pq, qp |-> r.qp, keys |-> r.keys]
    BY <2>2
  <2> QED BY <2>3 DEF p, o
<1> HIDE DEF r
<1>3. r.pq \in Seq(Id) /\ Len(r.pq) = n
  <2> DEFINE s == [q.pq EXCEPT ![i] = q.pq[j]]
  <2>1. q.pq[i] \in Id /\ q.pq[j] \in Id
    BY <1>1
  <2>2. s \in Seq(Id) /\ Len(s) = n
    BY <1>1, <2>1
  <2>3. r.pq = [s EXCEPT ![j] = q.pq[i]]
    BY <1>2
  <2> HIDE DEF s
  <2> QED BY <2>1, <2>2, <2>3
<1>4. \A k \in 1 .. n : r.pq[k] = IF k = j THEN q.pq[i] ELSE IF k = i THEN q.pq[j] ELSE q.pq[k]
  <2> SUFFICES ASSUME NEW k \in 1 .. n
               PROVE  r.pq[k] = IF k = j THEN q.pq[i] ELSE IF k = i THEN q.pq[j] ELSE q.pq[k]
    OBVIOUS
  <2>1. k \in DOMAIN q.pq
    BY <1>1
  <2> QED BY <2>1, <1>2
<1>5. \A id \in Id : r.qp[id] = IF id = q.pq[i] THEN j ELSE IF id = q.pq[j] THEN i ELSE q.qp[id]
  <2>1. r.pq[i] = q.pq[j] /\ r.pq[j] = q.pq[i] /\ q.pq[i] \in Id /\ q.pq[j] \in Id
    BY <1>1, <1>4
  <2> QED BY <1>1, <1>2, <2>1
<1>6. r \in Queue
  <2>1. r.qp \in [Id -> Int]
    BY <1>1, <1>2, <1>3
  <2> QED BY <1>1, <1>2, <1>3, <2>1 DEF Queue
<1>7. ASSUME NEW k \in 1 .. n PROVE r.pq[k] \in D /\ r.qp[r.pq[k]] = k
  <2>1. q.pq[k] \in D /\ q.pq[i] \in D /\ q.pq[j] \in D /\ D \subseteq Id
    BY DEF Holds
  <2>2. q.qp[q.pq[k]] = k /\ q.qp[q.pq[i]] = i /\ q.qp[q.pq[j]] = j
    BY DEF Holds
  <2> QED BY <2>1, <2>2, <1>4, <1>5
<1>8. ASSUME NEW id \in D PROVE r.qp[id] \in 1 .. n /\ r.pq[r.qp[id]] = id
  <2>1. q.qp[id] \in 1 .. n /\ q.pq[q.qp[id]] = id /\ id \in Id
    BY DEF Holds
  <2> QED BY <2>1, <1>4, <1>5
<1>9. ASSUME NEW id \in Id \ D PROVE r.qp[id] = q.qp[id]
  <2>1. q.pq[i] \in D /\ q.pq[j] \in D
    BY DEF Holds
  <2> QED BY <2>1, <1>5
<1>10. D \subseteq Id
  BY DEF Holds
<1>11. Permuted(q, r, D)
  BY <1>2, <1>3, <1>6, <1>7, <1>8, <1>9, <1>10 DEF Permuted, Holds
<1> QED BY <1>4, <1>11 DEF r

(* One turn of sink, and all of them. *)
LEMMA SinkTurn ==
  ASSUME NEW q, NEW D, NEW s \in [q : Queue, k : Nat \ {0}], Permuted(q, s.q, D)
  PROVE  LET t == sink_turn(s) IN
         /\ t \in [q : Queue, k : Nat \ {0}] /\ Permuted(q, t.q, D)
         /\ Fits(q) /\ OrderedAbove(s.q, s.k) =>
              /\ OrderedAbove(t.q, t.k)
              /\ t.k > s.k \/ (Ordered(s.q) /\ t = s)
<1> DEFINE t == sink_turn(s)
           r == s.q
           k == s.k
           N == Len(r.pq)
           j == smaller_child(r, k)
<1>1. r \in Queue /\ k \in Nat \ {0} /\ N \in Nat /\ Holds(r, D)
  BY DEF Permuted, Holds, Queue
<1>2. 2 * k <= N => j \in {2 * k, 2 * k + 1} /\ j \in 1 .. N /\ k \in 1 .. N /\ j > k /\ j \div 2 = k
  BY <1>1 DEF smaller_child
<1> DEFINE moves == 2 * k <= N /\ greater(r, k, j)
<1>3. ASSUME ~moves PROVE t = s
  BY <1>3 DEF sink_turn
<1>4. ASSUME moves PROVE t = [q |-> exch(r, k, j), k |-> j]
  BY <1>4 DEF sink_turn
<1>5. ASSUME moves PROVE Permuted(r, t.q, D)
  BY <1>1, <1>2, <1>4, <1>5, ExchHolds
<1>6. t \in [q : Queue, k : Nat \ {0}] /\ Permuted(q, t.q, D)
  <2>1. CASE moves
    BY <2>1, <1>2, <1>4, <1>5 DEF Permuted, Holds
  <2> QED BY <2>1, <1>3
<1>7. ASSUME Fits(q), OrderedAbove(r, k)
      PROVE  OrderedAbove(t.q, t.k) /\ (t.k > k \/ (Ordered(r) /\ t = s))
  <2>0. Fits(r)
    BY <1>7 DEF Fits, Permuted
  <2>k. \A i \in 1 .. N : key(r, i) \in Nat
    BY <1>1 DEF key, Queue
  <2>g. \A a, b \in 1 .. N : greater(r, a, b) <=> key(r, a) > key(r, b)
    BY <2>0, <1>1, GreaterDef
  <2>j. 2 * k <= N => key(r, j) <= key(r, 2 * k) /\ (2 * k + 1 <= N => key(r, j) <= key(r, 2 * k + 1))
    <3> SUFFICES ASSUME 2 * k <= N
                 PROVE  key(r, j) <= key(r, 2 * k) /\ (2 * k + 1 <= N => key(r, j) <= key(r, 2 * k + 1))
      OBVIOUS
    <3>1. 2 * k \in 1 .. N /\ (2 * k + 1 <= N => 2 * k + 1 \in 1 .. N) /\ (2 * k < N <=> 2 * k + 1 <= N)
      BY <1>1
    <3> QED BY <3>1, <2>k, <2>g DEF smaller_child
  <2>1. CASE ~moves
    <3>1. ASSUME NEW c \in 2 .. N, c \div 2 = k PROVE key(r, k) <= key(r, c)
      <4>1. 2 * k <= N /\ (c = 2 * k \/ c = 2 * k + 1) /\ c \in 1 .. N
        BY <3>1, <1>1
      <4>2. key(r, j) <= key(r, c)
        BY <4>1, <2>j
      <4>3. key(r, k) <= key(r, j)
        BY <4>1, <2>1, <1>2, <2>g, <2>k
      <4> QED BY <4>1, <4>2, <4>3, <1>2, <2>k
    <3>2. Ordered(r)
      BY <3>1, <1>7 DEF Ordered, OrderedAbove
    <3> QED BY <3>2, <1>3, <2>1, <1>7
  <2>2. CASE moves
    <3> DEFINE e == t.q
    <3>1. Len(e.pq) = N /\ e.keys = r.keys
      BY <2>2, <1>5 DEF Permuted
    <3>2. \A c \in 1 .. N : key(e, c) = IF c = j THEN key(r, k) ELSE IF c = k THEN key(r, j) ELSE key(r, c)
      <4>1. \A c \in 1 .. N : e.pq[c] = IF c = j THEN r.pq[k] ELSE IF c = k THEN r.pq[j] ELSE r.pq[c]
        <5>1. Holds(r, D) /\ k \in 1 .. N /\ j \in 1 .. N /\ e = exch(r, k, j)
          BY <2>2, <1>1, <1>2, <1>4
        <5> HIDE DEF e, k, j, r
        <5> QED BY <5>1, ExchHolds
      <4> QED BY <4>1, <3>1 DEF key
    <3>3. key(r, j) < key(r, k) /\ t.k = j
      BY <2>2, <1>2, <1>4, <2>g, <2>k
    <3>4. ASSUME NEW c \in 2 .. N
          PROVE  IF c \div 2 = j THEN j > 1 => key(e, j \div 2) <= key(e, c)
                 ELSE key(e, c \div 2) <= key(e, c)
      <4>0. /\ c \in 1 .. N /\ c \div 2 \in 1 .. N /\ c \div 2 < c
            /\ k \in 1 .. N /\ j \in 1 .. N /\ j > k /\ j \div 2 = k
        BY <1>1, <1>2, <2>2
      <4>1. CASE c \div 2 = j
        <5>1. key(r, j) <= key(r, c) /\ c # j /\ c # k
          BY <4>0, <4>1, <1>7 DEF OrderedAbove
        <5> QED BY <4>0, <4>1, <5>1, <3>2
      <4>2. CASE c \div 2 = k
        <5>1. c = 2 * k \/ c = 2 * k + 1
          <6> HIDE DEF k, j
          <6> QED BY <4>0, <4>2
        <5>2. key(r, j) <= key(r, c) /\ c # k
          BY <4>0, <4>2, <5>1, <2>j
        <5> QED BY <4>0, <4>2, <5>2, <3>2, <3>3, <2>k
      <4>3. CASE c \div 2 # j /\ c \div 2 # k /\ c = k
        <5>1. k > 1 /\ c \div 2 # j
          BY <4>0, <4>3
        <5>2. key(r, k \div 2) <= key(r, j)
          <6>1. j \in 2 .. N /\ j \div 2 = k
            BY <4>0, <5>1
          <6> HIDE DEF k, j, r
          <6> QED BY <5>1, <6>1, <1>7 DEF OrderedAbove
        <5> QED BY <4>0, <4>3, <5>2, <3>2
      <4>4. CASE c \div 2 # j /\ c \div 2 # k /\ c # k
        <5>1. c # j
          BY <4>0, <4>4
        <5>2. key(r, c \div 2) <= key(r, c)
          BY <4>0, <4>4, <1>7 DEF OrderedAbove
        <5> QED BY <4>0, <4>4, <5>1, <5>2, <3>2
      <4> QED BY <4>1, <4>2, <4>3, <4>4
    <3>5. OrderedAbove(e, j)
      BY <3>1, <3>4 DEF OrderedAbove
    <3> QED BY <3>5, <3>3, <1>2, <2>2
  <2> QED BY <2>1, <2>2
<1> QED BY <1>6, <1>7

(* sink only moves entries, and repairs a heap broken below k. *)
LEMMA SinkDef ==
  ASSUME NEW q, NEW D, Holds(q, D), NEW k \in Nat \ {0}
  PROVE  /\ Permuted(q, sink(q, k), D)
         /\ Fits(q) /\ OrderedAbove(q, k) => Ordered(sink(q, k))
<1> DEFINE N == Len(q.pq)
           s0 == [q |-> q, k |-> k]
           S == {s \in [q : Queue, k : Nat \ {0}] : Permuted(q, s.q, D)}
           F == [s \in S |-> sink_turn(s)]
           Q(g) == g = [i \in 0 .. N |-> IF i = 0 THEN s0 ELSE sink_turn(g[i - 1])]
           g == CHOOSE g : Q(g)
           premise == Fits(q) /\ OrderedAbove(q, k)
           done(s) == Ordered(s.q) /\ sink_turn(s) = s
           I == [n \in Nat |-> {s \in S : premise => OrderedAbove(s.q, s.k) /\ (s.k >= n + 1 \/ done(s))}]
<1>0. q \in Queue /\ N \in Nat
  BY DEF Holds, Queue
<1>1. s0 \in S
  BY <1>0 DEF Permuted
<1>2. \A s \in S : sink_turn(s) \in S
  BY SinkTurn
<1>3. Q(g)
  <2>1. F \in [S -> S]
    BY <1>2
  <2> HIDE DEF S, F, s0, N
  <2>2. PICK f \in [0 .. N -> S] : f[0] = s0 /\ \A i \in 0 .. N - 1 : f[i + 1] = F[f[i]]
    <3>1. Runs(S, F, s0, N) # {}
      BY <2>1, <1>0, <1>1, LoopExists
    <3> QED BY <3>1 DEF Runs
  <2>3. \A i \in 0 .. N : f[i] = IF i = 0 THEN s0 ELSE sink_turn(f[i - 1])
    <3> SUFFICES ASSUME NEW i \in 0 .. N, i # 0 PROVE f[i] = sink_turn(f[i - 1])
      BY <2>2
    <3>1. i - 1 \in 0 .. N - 1 /\ (i - 1) + 1 = i /\ i - 1 \in 0 .. N
      BY <1>0
    <3>2. f[i - 1] \in S /\ f[i] = F[f[i - 1]]
      BY <2>2, <3>1
    <3> QED BY <3>2 DEF F
  <2>4. Q(f)
    BY <2>2, <2>3
  <2> HIDE DEF Q
  <2> QED BY <2>4, Zenon
<1>4. sink(q, k) = g[N].q
  BY DEF sink, Repeat
<1>5. s0 \in I[0]
  BY <1>1
<1>6. ASSUME NEW n \in 0 .. N - 1, g[n] \in I[n] PROVE g[n + 1] \in I[n + 1]
  <2> DEFINE s == g[n]
             t == sink_turn(s)
  <2>1. g[n + 1] = t
    <3>1. n + 1 \in 0 .. N /\ n + 1 # 0 /\ (n + 1) - 1 = n
      BY <1>0
    <3> HIDE DEF s0, g, N
    <3> QED BY <3>1, <1>3
  <2>2. n \in Nat /\ n + 1 \in Nat
    BY <1>0
  <2>3. s \in S /\ (premise => OrderedAbove(s.q, s.k) /\ (s.k >= n + 1 \/ done(s)))
    BY <1>6, <2>2
  <2> HIDE DEF g, s
  <2>4. t \in S
    BY <2>3, <1>2
  <2>5. ASSUME premise PROVE OrderedAbove(t.q, t.k) /\ (t.k >= n + 2 \/ done(t))
    <3>1. OrderedAbove(t.q, t.k) /\ (t.k > s.k \/ (Ordered(s.q) /\ t = s))
      BY <2>3, <2>5, SinkTurn
    <3>2. CASE done(s)
      BY <3>1, <3>2
    <3>3. CASE s.k >= n + 1 /\ t.k > s.k
      BY <3>1, <3>3, <2>2, <2>3, <2>4
    <3>4. CASE Ordered(s.q) /\ t = s
      BY <3>1, <3>4
    <3> QED BY <3>1, <3>2, <3>3, <3>4, <2>3, <2>5
  <2> QED BY <2>1, <2>2, <2>4, <2>5
<1>7. g[N] \in I[N]
  <2>1. g[0] \in I[0]
    <3>1. g[0] = s0
      <4> HIDE DEF g, s0, N
      <4> QED BY <1>3, <1>0
    <3> QED BY <3>1, <1>5
  <2> HIDE DEF g, I, N
  <2>2. \A n \in 0 .. N : g[n] \in I[n]
    BY <2>1, <1>0, <1>6, LoopInvariant
  <2> QED BY <2>2, <1>0
<1> DEFINE e == g[N]
<1>8. e \in S /\ (premise => OrderedAbove(e.q, e.k) /\ (e.k >= N + 1 \/ done(e)))
  BY <1>7, <1>0
<1> HIDE DEF g, e
<1>9. ASSUME premise PROVE Ordered(e.q)
  <2>1. CASE e.k >= N + 1
    <3>1. Len(e.q.pq) = N /\ e.k \in Nat
      BY <1>8 DEF Permuted
    <3>2. \A c \in 2 .. N : c \div 2 # e.k
      BY <3>1, <2>1, <1>0
    <3> QED BY <3>1, <3>2, <1>8, <1>9 DEF Ordered, OrderedAbove
  <2> QED BY <2>1, <1>8, <1>9
<1> QED BY <1>4, <1>8, <1>9 DEF e

(* One turn of swim, and all of them. *)
LEMMA SwimTurn ==
  ASSUME NEW q, NEW D, NEW s \in [q : Queue, k : Nat \ {0}],
         Permuted(q, s.q, D), s.k <= Len(q.pq)
  PROVE  LET t == swim_turn(s) IN
         /\ t \in [q : Queue, k : Nat \ {0}] /\ Permuted(q, t.q, D) /\ t.k <= Len(q.pq)
         /\ Fits(q) /\ OrderedBelow(s.q, s.k) =>
              /\ OrderedBelow(t.q, t.k)
              /\ t.k < s.k \/ (Ordered(s.q) /\ t = s)
<1> DEFINE t == swim_turn(s)
           r == s.q
           k == s.k
           N == Len(r.pq)
           p == k \div 2
           moves == k > 1 /\ greater(r, p, k)
<1>1. r \in Queue /\ k \in 1 .. N /\ N \in Nat /\ Holds(r, D) /\ N = Len(q.pq)
  BY DEF Permuted, Holds, Queue
<1>2. k > 1 => p \in 1 .. N /\ p < k
  BY <1>1
<1>3. ASSUME ~moves PROVE t = s
  BY <1>3 DEF swim_turn
<1>4. ASSUME moves PROVE t = [q |-> exch(r, k, p), k |-> p]
  BY <1>4 DEF swim_turn
<1>5. ASSUME moves PROVE Permuted(r, t.q, D)
  <2>1. Holds(r, D) /\ k \in 1 .. N /\ p \in 1 .. N /\ t.q = exch(r, k, p)
    BY <1>1, <1>2, <1>4, <1>5
  <2> HIDE DEF t, r, k, p
  <2> QED BY <2>1, ExchHolds
<1>6. t \in [q : Queue, k : Nat \ {0}] /\ Permuted(q, t.q, D) /\ t.k <= Len(q.pq)
  <2>1. CASE moves
    BY <2>1, <1>1, <1>2, <1>4, <1>5 DEF Permuted, Holds
  <2> QED BY <2>1, <1>1, <1>3
<1>7. ASSUME Fits(q), OrderedBelow(r, k)
      PROVE  OrderedBelow(t.q, t.k) /\ (t.k < k \/ (Ordered(r) /\ t = s))
  <2>0. Fits(r)
    BY <1>7 DEF Fits, Permuted
  <2>k. \A i \in 1 .. N : key(r, i) \in Nat
    BY <1>1 DEF key, Queue
  <2>g. \A a, b \in 1 .. N : greater(r, a, b) <=> key(r, a) > key(r, b)
    BY <2>0, <1>1, GreaterDef
  <2>1. CASE ~moves
    <3>1. k > 1 => key(r, p) <= key(r, k)
      BY <2>1, <1>1, <1>2, <2>g, <2>k
    <3>2. Ordered(r)
      BY <3>1, <1>1, <1>7 DEF Ordered, OrderedBelow
    <3> QED BY <3>2, <1>3, <2>1, <1>7
  <2>2. CASE moves
    <3> DEFINE e == t.q
    <3>1. Len(e.pq) = N /\ e.keys = r.keys
      BY <2>2, <1>5 DEF Permuted
    <3>2. \A c \in 1 .. N : key(e, c) = IF c = p THEN key(r, k) ELSE IF c = k THEN key(r, p) ELSE key(r, c)
      <4>1. \A c \in 1 .. N : e.pq[c] = IF c = p THEN r.pq[k] ELSE IF c = k THEN r.pq[p] ELSE r.pq[c]
        <5>1. Holds(r, D) /\ k \in 1 .. N /\ p \in 1 .. N /\ e = exch(r, k, p)
          BY <2>2, <1>1, <1>2, <1>4
        <5> HIDE DEF e, k, p, r
        <5> QED BY <5>1, ExchHolds
      <4> QED BY <4>1, <3>1 DEF key
    <3>3. key(r, k) < key(r, p) /\ t.k = p /\ p < k /\ p \in 1 .. N
      BY <2>2, <1>1, <1>2, <1>4, <2>g, <2>k
    <3>4. ASSUME NEW c \in 2 .. N, c # k
          PROVE  key(r, c \div 2) <= key(r, c) /\ (c \div 2 = k => key(r, p) <= key(r, c))
      BY <3>4, <1>7, <2>2 DEF OrderedBelow
    <3>5. ASSUME NEW c \in 2 .. N, c # p
          PROVE  /\ key(e, c \div 2) <= key(e, c)
                 /\ c \div 2 = p /\ p > 1 => key(e, p \div 2) <= key(e, c)
      <4>0. c \in 1 .. N /\ c \div 2 \in 1 .. N /\ c \div 2 < c /\ k \in 1 .. N
        BY <1>1
      <4>1. key(e, c \div 2) <= key(e, c)
        <5>1. CASE c = k
          BY <4>0, <5>1, <3>2, <3>3, <2>k
        <5>2. CASE c # k /\ c \div 2 = p
          BY <4>0, <5>2, <3>2, <3>3, <3>4, <3>5, <2>k
        <5>3. CASE c # k /\ c \div 2 # p
          BY <4>0, <5>3, <3>2, <3>3, <3>4, <3>5, <2>k
        <5> QED BY <5>1, <5>2, <5>3
      <4>2. ASSUME c \div 2 = p, p > 1 PROVE key(e, p \div 2) <= key(e, c)
        <5>1. p \div 2 \in 1 .. N /\ p \div 2 # p /\ p \div 2 # k /\ p \in 2 .. N /\ p # k
          BY <4>2, <3>3
        <5>2. key(r, p \div 2) <= key(r, p)
          BY <5>1, <3>4
        <5>3. key(r, p) <= key(e, c)
          <6>1. CASE c = k
            BY <6>1, <4>0, <3>2, <3>3, <2>k
          <6>2. CASE c # k
            BY <6>2, <4>0, <4>2, <3>2, <3>4, <3>5
          <6> QED BY <6>1, <6>2
        <5>4. key(e, p \div 2) = key(r, p \div 2)
          BY <5>1, <3>2
        <5>5. key(e, c) \in Nat
          BY <4>0, <3>2, <3>3, <2>k
        <5> HIDE DEF e, p, k, r
        <5> QED BY <5>1, <5>2, <5>3, <5>4, <5>5, <2>k, <3>3
      <4> QED BY <4>1, <4>2
    <3>6. OrderedBelow(e, p)
      BY <3>1, <3>5 DEF OrderedBelow
    <3> QED BY <3>6, <3>3
  <2> QED BY <2>1, <2>2
<1> QED BY <1>6, <1>7

(* swim only moves entries, and repairs a heap broken above k. *)
LEMMA SwimDef ==
  ASSUME NEW q, NEW D, Holds(q, D), NEW k \in 1 .. Len(q.pq)
  PROVE  /\ Permuted(q, swim(q, k), D)
         /\ Fits(q) /\ OrderedBelow(q, k) => Ordered(swim(q, k))
<1> DEFINE N == Len(q.pq)
           s0 == [q |-> q, k |-> k]
           S == {s \in [q : Queue, k : Nat \ {0}] : Permuted(q, s.q, D) /\ s.k <= N}
           F == [s \in S |-> swim_turn(s)]
           Q(g) == g = [i \in 0 .. N |-> IF i = 0 THEN s0 ELSE swim_turn(g[i - 1])]
           g == CHOOSE g : Q(g)
           premise == Fits(q) /\ OrderedBelow(q, k)
           done(s) == Ordered(s.q) /\ swim_turn(s) = s
           I == [n \in Nat |-> {s \in S : premise => OrderedBelow(s.q, s.k) /\ (s.k <= N - n \/ done(s))}]
<1>0. q \in Queue /\ N \in Nat
  BY DEF Holds, Queue
<1>1. s0 \in S
  BY <1>0 DEF Permuted
<1>2. \A s \in S : swim_turn(s) \in S
  BY SwimTurn
<1>3. Q(g)
  <2>1. F \in [S -> S]
    BY <1>2
  <2> HIDE DEF S, F, s0, N
  <2>2. PICK f \in [0 .. N -> S] : f[0] = s0 /\ \A i \in 0 .. N - 1 : f[i + 1] = F[f[i]]
    <3>1. Runs(S, F, s0, N) # {}
      BY <2>1, <1>0, <1>1, LoopExists
    <3> QED BY <3>1 DEF Runs
  <2>3. \A i \in 0 .. N : f[i] = IF i = 0 THEN s0 ELSE swim_turn(f[i - 1])
    <3> SUFFICES ASSUME NEW i \in 0 .. N, i # 0 PROVE f[i] = swim_turn(f[i - 1])
      BY <2>2
    <3>1. i - 1 \in 0 .. N - 1 /\ (i - 1) + 1 = i /\ i - 1 \in 0 .. N
      BY <1>0
    <3>2. f[i - 1] \in S /\ f[i] = F[f[i - 1]]
      BY <2>2, <3>1
    <3> QED BY <3>2 DEF F
  <2>4. Q(f)
    BY <2>2, <2>3
  <2> HIDE DEF Q
  <2> QED BY <2>4, Zenon
<1>4. swim(q, k) = g[N].q
  BY DEF swim, Repeat
<1>5. s0 \in I[0]
  BY <1>1, <1>0
<1>6. ASSUME NEW n \in 0 .. N - 1, g[n] \in I[n] PROVE g[n + 1] \in I[n + 1]
  <2> DEFINE s == g[n]
             t == swim_turn(s)
  <2>1. g[n + 1] = t
    <3>1. n + 1 \in 0 .. N /\ n + 1 # 0 /\ (n + 1) - 1 = n
      BY <1>0
    <3> HIDE DEF s0, g, N
    <3> QED BY <3>1, <1>3
  <2>2. n \in Nat /\ n + 1 \in Nat
    BY <1>0
  <2>3. s \in S /\ (premise => OrderedBelow(s.q, s.k) /\ (s.k <= N - n \/ done(s)))
    BY <1>6, <2>2
  <2> HIDE DEF g, s
  <2>4. t \in S
    BY <2>3, <1>2
  <2>5. ASSUME premise PROVE OrderedBelow(t.q, t.k) /\ (t.k <= N - (n + 1) \/ done(t))
    <3>1. OrderedBelow(t.q, t.k) /\ (t.k < s.k \/ (Ordered(s.q) /\ t = s))
      BY <2>3, <2>5, SwimTurn
    <3>2. CASE done(s)
      BY <3>1, <3>2
    <3>3. CASE s.k <= N - n /\ t.k < s.k
      BY <3>1, <3>3, <2>2, <2>3, <2>4, <1>0
    <3>4. CASE Ordered(s.q) /\ t = s
      BY <3>1, <3>4
    <3> QED BY <3>1, <3>2, <3>3, <3>4, <2>3, <2>5
  <2> QED BY <2>1, <2>2, <2>4, <2>5
<1>7. g[N] \in I[N]
  <2>1. g[0] \in I[0]
    <3>1. g[0] = s0
      <4> HIDE DEF g, s0, N
      <4> QED BY <1>3, <1>0
    <3> QED BY <3>1, <1>5
  <2> HIDE DEF g, I, N
  <2>2. \A n \in 0 .. N : g[n] \in I[n]
    BY <2>1, <1>0, <1>6, LoopInvariant
  <2> QED BY <2>2, <1>0
<1> DEFINE e == g[N]
<1>8. e \in S /\ (premise => e.k <= N - N \/ done(e))
  BY <1>7, <1>0
<1> HIDE DEF g, e
<1>9. ~(e.k <= N - N)
  BY <1>8, <1>0
<1> QED BY <1>4, <1>8, <1>9 DEF e

-----------------------------------------------------------------------------
(* The operations of indexminpq.c and indexrndq.c.                         *)

(* Updates of one field. *)
SetPq(q, p) == [q EXCEPT !.pq = p]
SetQp(q, i, k) == [q EXCEPT !.qp[i] = k]
SetKey(q, i, x) == [q EXCEPT !.keys[i] = x]

LEMMA SetPqDef ==
  ASSUME NEW q \in Queue, NEW p \in Seq(Id)
  PROVE  LET r == SetPq(q, p) IN
         r \in Queue /\ r.pq = p /\ r.qp = q.qp /\ r.keys = q.keys
  BY DEF SetPq, Queue

LEMMA SetQpDef ==
  ASSUME NEW q \in Queue, NEW i \in Id, NEW k \in Int
  PROVE  LET r == SetQp(q, i, k) IN
         /\ r \in Queue /\ r.pq = q.pq /\ r.keys = q.keys
         /\ \A id \in Id : r.qp[id] = IF id = i THEN k ELSE q.qp[id]
<1> DEFINE o == [q.qp EXCEPT ![i] = k]
           r == SetQp(q, i, k)
<1>1. r = [q EXCEPT !.qp = o]
  BY DEF SetQp
<1>2. o \in [Id -> Int] /\ \A id \in Id : o[id] = IF id = i THEN k ELSE q.qp[id]
  BY DEF Queue
<1> HIDE DEF o, r
<1>3. r \in Queue /\ r.pq = q.pq /\ r.keys = q.keys /\ r.qp = o
  BY <1>1, <1>2 DEF Queue
<1> QED BY <1>2, <1>3 DEF r

LEMMA SetKeyDef ==
  ASSUME NEW q \in Queue, NEW i \in Id, NEW x \in Nat
  PROVE  LET r == SetKey(q, i, x) IN
         /\ r \in Queue /\ r.pq = q.pq /\ r.qp = q.qp
         /\ \A id \in Id : r.keys[id] = IF id = i THEN x ELSE q.keys[id]
<1> DEFINE o == [q.keys EXCEPT ![i] = x]
           r == SetKey(q, i, x)
<1>1. r = [q EXCEPT !.keys = o]
  BY DEF SetKey
<1>2. o \in [Id -> Nat] /\ \A id \in Id : o[id] = IF id = i THEN x ELSE q.keys[id]
  BY DEF Queue
<1> HIDE DEF o, r
<1>3. r \in Queue /\ r.pq = q.pq /\ r.qp = q.qp /\ r.keys = o
  BY <1>1, <1>2 DEF Queue
<1> QED BY <1>2, <1>3 DEF r

(* An index that is off the queue may change in qp and in keys.            *)
LEMMA ForgetIndex ==
  ASSUME NEW q, NEW D, Holds(q, D), NEW i \in Id \ D, NEW r \in Queue, r.pq = q.pq,
         \A id \in Id \ {i} : r.qp[id] = q.qp[id] /\ r.keys[id] = q.keys[id]
  PROVE  Holds(r, D) /\ (Ordered(q) => Ordered(r))
<1>1. q \in Queue /\ q.pq \in Seq(Id) /\ Len(q.pq) \in Nat
  BY DEF Holds, Queue
<1>2. \A k \in 1 .. Len(q.pq) : q.pq[k] \in D /\ q.pq[k] \in Id \ {i}
  BY DEF Holds
<1>3. \A id \in D : id \in Id \ {i}
  BY DEF Holds
<1>4. Holds(r, D)
  BY <1>2, <1>3 DEF Holds
<1>5. \A k \in 1 .. Len(q.pq) : key(r, k) = key(q, k)
  BY <1>2 DEF key
<1>6. ASSUME Ordered(q) PROVE Ordered(r)
  <2> SUFFICES ASSUME NEW c \in 2 .. Len(q.pq) PROVE key(r, c \div 2) <= key(r, c)
    BY DEF Ordered
  <2>1. c \in 1 .. Len(q.pq) /\ c \div 2 \in 1 .. Len(q.pq)
    BY <1>1
  <2>2. key(q, c \div 2) <= key(q, c)
    BY <1>6 DEF Ordered
  <2> QED BY <2>1, <2>2, <1>5
<1> QED BY <1>4, <1>6

(* indexminpq_insert. *)
LEMMA InsertDef ==
  ASSUME NEW q, NEW D, Holds(q, D), NEW i \in Id \ D, NEW x \in Nat
  PROVE  LET r == indexminpq_insert(q, i, x) IN
         /\ Holds(r, D \cup {i}) /\ Len(r.pq) = Len(q.pq) + 1
         /\ r.keys = [q.keys EXCEPT ![i] = x]
         /\ \A id \in Id \ (D \cup {i}) : r.qp[id] = q.qp[id]
         /\ Fits(r) /\ Ordered(q) => Ordered(r)
<1> DEFINE r == indexminpq_insert(q, i, x)
           n == Len(q.pq)
           p == [pq   |-> Append(q.pq, i),
                 qp   |-> [q.qp EXCEPT ![i] = Len(q.pq) + 1],
                 keys |-> [q.keys EXCEPT ![i] = x]]
           E == D \cup {i}
<1>0. q \in Queue /\ n \in Nat /\ q.pq \in Seq(Id) /\ q.qp \in [Id -> Int] /\ q.keys \in [Id -> Nat]
  BY DEF Holds, Queue
<1>1. r = swim(p, n + 1)
  BY DEF indexminpq_insert
<1>2. p \in Queue /\ Len(p.pq) = n + 1
  BY <1>0 DEF Queue
<1>3. \A k \in 1 .. n + 1 : p.pq[k] = IF k = n + 1 THEN i ELSE q.pq[k]
  BY <1>0
<1>4. \A id \in Id : p.qp[id] = IF id = i THEN n + 1 ELSE q.qp[id]
  BY <1>0
<1>5. \A id \in Id : p.keys[id] = IF id = i THEN x ELSE q.keys[id]
  BY <1>0
<1>6. p.keys = [q.keys EXCEPT ![i] = x]
  OBVIOUS
<1> HIDE DEF p, r
<1>7. Holds(p, E)
  <2>1. E \subseteq Id
    BY DEF Holds
  <2>2. ASSUME NEW k \in 1 .. n + 1 PROVE p.pq[k] \in E /\ p.qp[p.pq[k]] = k
    <3>1. CASE k = n + 1
      BY <3>1, <1>3, <1>4
    <3>2. CASE k \in 1 .. n
      <4>1. q.pq[k] \in D /\ q.qp[q.pq[k]] = k /\ q.pq[k] \in Id
        BY <3>2 DEF Holds
      <4> QED BY <4>1, <3>2, <1>3, <1>4, <1>0
    <3> QED BY <3>1, <3>2, <1>0
  <2>3. ASSUME NEW id \in E PROVE p.qp[id] \in 1 .. n + 1 /\ p.pq[p.qp[id]] = id
    <3>1. CASE id = i
      BY <3>1, <1>3, <1>4, <1>0
    <3>2. CASE id \in D
      <4>1. q.qp[id] \in 1 .. n /\ q.pq[q.qp[id]] = id /\ id \in Id
        BY <3>2 DEF Holds
      <4>2. p.qp[id] = q.qp[id]
        BY <4>1, <3>2, <1>4
      <4>3. q.qp[id] \in 1 .. n + 1 /\ q.qp[id] # n + 1
        BY <4>1, <1>0
      <4> QED BY <4>1, <4>2, <4>3, <1>3
    <3> QED BY <3>1, <3>2
  <2> QED BY <2>1, <2>2, <2>3, <1>2 DEF Holds
<1>8. Permuted(p, r, E)
  BY <1>0, <1>1, <1>2, <1>7, SwimDef
<1>9. ASSUME Fits(r), Ordered(q) PROVE Ordered(r)
  <2>1. Fits(p)
    BY <1>8, <1>9 DEF Fits, Permuted
  <2>2. \A k \in 1 .. n : key(p, k) = key(q, k)
    <3> SUFFICES ASSUME NEW k \in 1 .. n PROVE key(p, k) = key(q, k)
      OBVIOUS
    <3>1. q.pq[k] \in D /\ q.pq[k] # i /\ q.pq[k] \in Id
      BY DEF Holds
    <3>2. p.pq[k] = q.pq[k]
      <4>1. k \in 1 .. n + 1 /\ k # n + 1
        BY <1>0
      <4> HIDE DEF n
      <4> QED BY <4>1, <1>3
    <3>3. p.keys[q.pq[k]] = q.keys[q.pq[k]]
      BY <3>1, <1>5
    <3> QED BY <3>2, <3>3 DEF key
  <2>3. OrderedBelow(p, n + 1)
    <3>1. ASSUME NEW c \in 2 .. n + 1, c # n + 1
          PROVE  key(p, c \div 2) <= key(p, c) /\ c \div 2 # n + 1
      <4>1. c \div 2 \in 1 .. n /\ c \in 1 .. n /\ c \in 2 .. n /\ c \div 2 # n + 1
        <5>1. n \in Nat /\ c \in 2 .. n + 1 /\ c # n + 1
          BY <1>0, <3>1
        <5> HIDE DEF n
        <5>2. c \in 2 .. n
          BY <5>1
        <5> QED BY <5>1, <5>2
      <4>2. key(q, c \div 2) <= key(q, c)
        BY <4>1, <1>9 DEF Ordered
      <4> QED BY <4>1, <4>2, <2>2
    <3> QED BY <3>1, <1>2 DEF OrderedBelow
  <2> QED BY <2>1, <2>3, <1>0, <1>1, <1>2, <1>7, SwimDef
<1> QED BY <1>2, <1>4, <1>6, <1>8, <1>9 DEF Permuted, Holds, r

(* Taking the last place off the queue, whose entry is d. *)
LEMMA DropLast ==
  ASSUME NEW q, NEW D, Holds(q, D), q.pq # <<>>
  PROVE  LET n == Len(q.pq)
             r == SetPq(q, SubSeq(q.pq, 1, Len(q.pq) - 1))
         IN  /\ n \in Nat \ {0} /\ q.pq[n] \in D
             /\ Holds(r, D \ {q.pq[n]}) /\ Len(r.pq) = n - 1
             /\ r.keys = q.keys /\ r.qp = q.qp
             /\ \A k \in 1 .. n - 1 : r.pq[k] = q.pq[k]
<1> DEFINE n == Len(q.pq)
           p == SubSeq(q.pq, 1, Len(q.pq) - 1)
           r == SetPq(q, SubSeq(q.pq, 1, Len(q.pq) - 1))
           E == D \ {q.pq[n]}
<1>0. /\ q \in Queue /\ q.pq \in Seq(Id) /\ q.qp \in [Id -> Int] /\ q.keys \in [Id -> Nat]
      /\ q = [pq |-> q.pq, qp |-> q.qp, keys |-> q.keys]
  BY DEF Holds, Queue
<1>1. n \in Nat \ {0}
  BY <1>0
<1>2. p \in Seq(Id) /\ Len(p) = n - 1 /\ \A k \in 1 .. n - 1 : p[k] = q.pq[k]
  <2>1. 1 \in Int /\ n - 1 \in Int /\ \A k \in 1 .. n - 1 : q.pq[k] \in Id
    BY <1>0, <1>1
  <2>2. /\ p \in Seq(Id) /\ Len(p) = IF 1 <= n - 1 THEN (n - 1) - 1 + 1 ELSE 0
        /\ \A k \in 1 .. (n - 1) - 1 + 1 : p[k] = q.pq[1 + k - 1]
    <3> DEFINE u == n - 1
    <3> HIDE DEF n, u
    <3>1. u \in Int /\ \A k \in 1 .. u : q.pq[k] \in Id
      BY <2>1 DEF u
    <3>2. /\ SubSeq(q.pq, 1, u) \in Seq(Id) /\ Len(SubSeq(q.pq, 1, u)) = IF 1 <= u THEN u - 1 + 1 ELSE 0
          /\ \A k \in 1 .. u - 1 + 1 : SubSeq(q.pq, 1, u)[k] = q.pq[1 + k - 1]
      BY <3>1, SubSeqProperties
    <3> QED BY <3>2 DEF u, n
  <2>3. \A k \in 1 .. n - 1 : 1 + k - 1 = k /\ k \in 1 .. (n - 1) - 1 + 1
    BY <1>1
  <2>4. (IF 1 <= n - 1 THEN (n - 1) - 1 + 1 ELSE 0) = n - 1
    BY <1>1
  <2> HIDE DEF p
  <2> QED BY <2>2, <2>3, <2>4
<1> HIDE DEF p
<1>4. r \in Queue /\ r.pq = p /\ r.qp = q.qp /\ r.keys = q.keys
  BY <1>0, <1>2, SetPqDef DEF p
<1> HIDE DEF r
<1>5. ASSUME NEW k \in 1 .. n - 1 PROVE r.pq[k] \in E /\ r.qp[r.pq[k]] = k
  <2>1. k \in 1 .. n /\ n \in 1 .. n /\ k # n
    BY <1>1
  <2>2. q.pq[k] \in D /\ q.qp[q.pq[k]] = k /\ q.qp[q.pq[n]] = n
    BY <2>1 DEF Holds
  <2> QED BY <2>1, <2>2, <1>2, <1>4
<1>6. ASSUME NEW id \in E PROVE r.qp[id] \in 1 .. n - 1 /\ r.pq[r.qp[id]] = id
  <2>1. q.qp[id] \in 1 .. n /\ q.pq[q.qp[id]] = id /\ id # q.pq[n]
    BY DEF Holds
  <2>2. q.qp[id] \in 1 .. n - 1
    BY <2>1, <1>1
  <2> QED BY <2>1, <2>2, <1>2, <1>4
<1>7. q.pq[n] \in D /\ E \subseteq Id
  BY <1>1 DEF Holds
<1> QED BY <1>1, <1>2, <1>4, <1>5, <1>6, <1>7 DEF Holds, r

(* indexminpq_delmin takes off the first. *)
LEMMA DelMinDef ==
  ASSUME NEW q, NEW D, Holds(q, D), q.pq # <<>>
  PROVE  LET m == q.pq[1]
             r == indexminpq_delmin(q)
         IN  /\ m \in D /\ Holds(r, D \ {m}) /\ r.keys = q.keys
             /\ r.qp[m] = -1 /\ \A id \in Id \ D : r.qp[id] = q.qp[id]
             /\ Fits(q) /\ Ordered(q) => Ordered(r)
<1> DEFINE m == q.pq[1]
           n == Len(q.pq)
           last == exch(q, 1, n)
           cut == SetPq(last, SubSeq(last.pq, 1, Len(last.pq) - 1))
           rest == sink(cut, 1)
           r == indexminpq_delmin(q)
<1>0. q \in Queue /\ q.pq \in Seq(Id) /\ n \in Nat \ {0} /\ 1 \in 1 .. n /\ n \in 1 .. n
  BY DEF Holds, Queue
<1>1. r = SetQp(rest, m, -1)
  BY DEF indexminpq_delmin, SetPq, SetQp
<1>2. /\ Permuted(q, last, D)
      /\ \A k \in 1 .. n : last.pq[k] = IF k = n THEN q.pq[1] ELSE IF k = 1 THEN q.pq[n] ELSE q.pq[k]
  <2> HIDE DEF n
  <2> QED BY <1>0, ExchHolds DEF n
<1>3. last.pq[n] = m /\ m \in D /\ Len(last.pq) = n /\ last.pq # <<>> /\ Holds(last, D) /\ last.keys = q.keys
  <2>1. Len(last.pq) = n /\ Holds(last, D) /\ last.keys = q.keys
    BY <1>2 DEF Permuted
  <2>2. last.pq[n] = m
    BY <1>0, <1>2
  <2>3. m \in D
    BY <1>0 DEF Holds
  <2> QED BY <2>1, <2>2, <2>3, <1>0
<1> HIDE DEF last
<1>4. /\ Holds(cut, D \ {m}) /\ Len(cut.pq) = n - 1 /\ cut.keys = q.keys /\ cut.qp = last.qp
      /\ \A k \in 1 .. n - 1 : cut.pq[k] = last.pq[k]
  <2>1. Holds(last, D) /\ last.pq # <<>>
    BY <1>3
  <2>2. /\ Holds(cut, D \ {last.pq[Len(last.pq)]}) /\ Len(cut.pq) = Len(last.pq) - 1
        /\ cut.keys = last.keys /\ cut.qp = last.qp
        /\ \A k \in 1 .. Len(last.pq) - 1 : cut.pq[k] = last.pq[k]
    BY <2>1, DropLast
  <2> HIDE DEF cut, n, m
  <2> QED BY <1>3, <2>2
<1> HIDE DEF cut
<1>5. /\ Permuted(cut, rest, D \ {m})
      /\ Fits(cut) /\ OrderedAbove(cut, 1) => Ordered(rest)
  BY <1>4, SinkDef
<1> HIDE DEF rest, r
<1>6. Holds(rest, D \ {m}) /\ m \in Id \ (D \ {m}) /\ rest.keys = q.keys
  BY <1>3, <1>4, <1>5 DEF Permuted, Holds
<1>7. /\ Holds(r, D \ {m}) /\ r.keys = q.keys
      /\ \A id \in Id : r.qp[id] = IF id = m THEN -1 ELSE rest.qp[id]
      /\ Ordered(rest) => Ordered(r)
  <2>1. /\ r \in Queue /\ r.pq = rest.pq /\ r.keys = rest.keys
        /\ \A id \in Id : r.qp[id] = IF id = m THEN -1 ELSE rest.qp[id]
    <3>1. rest \in Queue /\ m \in Id /\ -1 \in Int
      BY <1>6 DEF Holds
    <3> HIDE DEF m
    <3> QED BY <1>1, <3>1, SetQpDef
  <2> HIDE DEF m
  <2>2. Holds(r, D \ {m}) /\ (Ordered(rest) => Ordered(r))
    BY <2>1, <1>6, ForgetIndex
  <2> QED BY <2>1, <2>2, <1>6
<1>8. ASSUME NEW id \in Id \ D PROVE r.qp[id] = q.qp[id]
  <2>1. id # m /\ rest.qp[id] = last.qp[id]
    BY <1>3, <1>4, <1>5 DEF Permuted
  <2>2. last.qp[id] = q.qp[id]
    BY <1>2 DEF Permuted
  <2> QED BY <2>1, <2>2, <1>7
<1>9. ASSUME Fits(q), Ordered(q) PROVE Ordered(r)
  <2>1. Fits(cut)
    BY <1>4, <1>9 DEF Fits
  <2>2. ASSUME NEW c \in 2 .. n - 1, c \div 2 # 1 PROVE key(cut, c \div 2) <= key(cut, c)
    <3>1. c \in 2 .. n /\ c \in 1 .. n - 1 /\ c \div 2 \in 1 .. n - 1 /\ c # 1 /\ c # n /\ c \div 2 # n
      BY <2>2, <1>0
    <3>2. cut.pq[c] = q.pq[c] /\ cut.pq[c \div 2] = q.pq[c \div 2]
      <4>1. \A j \in 1 .. n - 1 : j \in 1 .. n /\ j # n
        BY <1>0
      <4>2. \A j \in 1 .. n - 1 : j # 1 => cut.pq[j] = q.pq[j]
        BY <4>1, <1>2, <1>4
      <4> QED BY <4>2, <3>1, <2>2
    <3>3. key(cut, c) = key(q, c) /\ key(cut, c \div 2) = key(q, c \div 2)
      BY <3>2, <1>4 DEF key
    <3> QED BY <3>1, <3>3, <1>9 DEF Ordered
  <2>3. OrderedAbove(cut, 1)
    BY <2>2, <1>4 DEF OrderedAbove
  <2> QED BY <2>1, <2>3, <1>5, <1>7
<1>10. r.qp[m] = -1
  BY <1>6, <1>7
<1> QED BY <1>3, <1>7, <1>8, <1>9, <1>10 DEF r

(* indexminpq_increasekey: sinking is enough when the key did not get smaller. *)
LEMMA IncreaseDef ==
  ASSUME NEW q, NEW D, Holds(q, D), NEW i \in D, NEW x \in Nat
  PROVE  LET r == indexminpq_increasekey(q, i, x) IN
         /\ Holds(r, D) /\ r.keys = [q.keys EXCEPT ![i] = x]
         /\ \A id \in Id \ D : r.qp[id] = q.qp[id]
         /\ Fits(r) /\ Ordered(q) /\ q.keys[i] <= x => Ordered(r)
<1> DEFINE r == indexminpq_increasekey(q, i, x)
           p == SetKey(q, i, x)
           k == q.qp[i]
           n == Len(q.pq)
<1>0. /\ q \in Queue /\ q.pq \in Seq(Id) /\ q.qp \in [Id -> Int] /\ q.keys \in [Id -> Nat]
      /\ q = [pq |-> q.pq, qp |-> q.qp, keys |-> q.keys] /\ n \in Nat /\ i \in Id
  BY DEF Holds, Queue
<1>1. r = sink(p, k)
  BY DEF indexminpq_increasekey, SetKey
<1>2. /\ p \in Queue /\ p.pq = q.pq /\ p.qp = q.qp
      /\ \A id \in Id : p.keys[id] = IF id = i THEN x ELSE q.keys[id]
  <2>1. q \in Queue /\ i \in Id
    BY <1>0
  <2> QED BY <2>1, SetKeyDef
<1> HIDE DEF p, r
<1>3. p \in Queue /\ p.pq = q.pq /\ p.qp = q.qp /\ p.keys = [q.keys EXCEPT ![i] = x]
  BY <1>0, <1>2 DEF Queue
<1>4. Holds(p, D)
  BY <1>3 DEF Holds
<1>5. k \in 1 .. n /\ q.pq[k] = i
  BY DEF Holds
<1>6. Permuted(p, r, D) /\ (Fits(p) /\ OrderedAbove(p, k) => Ordered(r))
  BY <1>1, <1>4, <1>5, SinkDef
<1>7. ASSUME Fits(r), Ordered(q), q.keys[i] <= x PROVE Ordered(r)
  <2>1. Fits(p)
    BY <1>6, <1>7 DEF Fits, Permuted
  <2>2. \A c \in 1 .. n : key(p, c) = IF c = k THEN x ELSE key(q, c)
    <3> SUFFICES ASSUME NEW c \in 1 .. n PROVE key(p, c) = IF c = k THEN x ELSE key(q, c)
      OBVIOUS
    <3>1. q.pq[c] \in Id /\ (q.pq[c] = i <=> c = k)
      BY <1>5 DEF Holds
    <3>2. key(p, c) = p.keys[q.pq[c]]
      BY <1>3 DEF key
    <3>3. p.keys[q.pq[c]] = IF q.pq[c] = i THEN x ELSE q.keys[q.pq[c]]
      BY <3>1, <1>0, <1>3
    <3> QED BY <3>1, <3>2, <3>3 DEF key
  <2>3. key(q, k) <= x /\ \A c \in 1 .. n : key(q, c) \in Nat
    BY <1>0, <1>5, <1>7 DEF key, Queue
  <2>4. ASSUME NEW c \in 2 .. n
        PROVE  IF c \div 2 = k THEN k > 1 => key(p, k \div 2) <= key(p, c)
               ELSE key(p, c \div 2) <= key(p, c)
    <3>0. c \in 1 .. n /\ c \div 2 \in 1 .. n /\ c \div 2 < c
      <4>1. n \in Nat /\ c \in 2 .. n
        BY <1>0
      <4> HIDE DEF n
      <4> QED BY <4>1
    <3>1. key(q, c \div 2) <= key(q, c)
      BY <1>7 DEF Ordered
    <3>2. CASE c \div 2 = k
      <4>1. ASSUME k > 1 PROVE key(p, k \div 2) <= key(p, c)
        <5>1. k \in 2 .. n /\ k \div 2 \in 1 .. n /\ k \div 2 # k /\ c # k
          <6>1. k \in 1 .. n /\ k > 1 /\ n \in Nat /\ c \div 2 < c /\ c \div 2 = k
            BY <4>1, <1>5, <1>0, <3>0, <3>2
          <6> HIDE DEF k, n
          <6> QED BY <6>1
        <5>2. key(q, k \div 2) <= key(q, k)
          BY <5>1, <1>7 DEF Ordered
        <5>3. key(p, k \div 2) = key(q, k \div 2) /\ key(p, c) = key(q, c)
          BY <5>1, <2>2, <3>0
        <5>4. key(q, k \div 2) \in Nat /\ key(q, k) \in Nat /\ key(q, c) \in Nat
          <6>1. c \in 1 .. n /\ k \in 1 .. n /\ k \div 2 \in 1 .. n
            BY <5>1, <3>0, <1>5
          <6> HIDE DEF k, n
          <6> QED BY <6>1, <2>3
        <5>5. key(q, k) <= key(q, c)
          BY <3>1, <3>2
        <5> HIDE DEF k
        <5> QED BY <5>2, <5>3, <5>4, <5>5
      <4> QED BY <4>1, <3>2
    <3>3. CASE c \div 2 # k
      BY <3>0, <3>1, <3>3, <2>2, <2>3, <1>5
    <3> QED BY <3>2, <3>3
  <2>5. OrderedAbove(p, k)
    BY <2>4, <1>3 DEF OrderedAbove
  <2> QED BY <2>1, <2>5, <1>6
<1> QED BY <1>3, <1>6, <1>7 DEF Permuted, r

(* indexrndq_dequeue of the entry i. *)
LEMMA DequeueDef ==
  ASSUME NEW q, NEW D, Holds(q, D), NEW i \in D
  PROVE  LET r == indexrndq_dequeue(q, i) IN
         /\ Holds(r, D \ {i}) /\ r.keys = q.keys
         /\ r.qp[i] = -1 /\ \A id \in Id \ D : r.qp[id] = q.qp[id]
<1> DEFINE n == Len(q.pq)
           k == q.qp[i]
           last == exch(q, k, n)
           cut == SetPq(last, SubSeq(last.pq, 1, Len(last.pq) - 1))
           r == indexrndq_dequeue(q, i)
<1>0. n \in Nat /\ k \in 1 .. n /\ q.pq[k] = i /\ i \in Id
  BY DEF Holds, Queue
<1>1. r = [last EXCEPT !.pq = SubSeq(last.pq, 1, n - 1), !.qp[i] = -1]
  BY DEF indexrndq_dequeue
<1>2. /\ Permuted(q, last, D) /\ n \in 1 .. n
      /\ \A j \in 1 .. n : last.pq[j] = IF j = n THEN q.pq[k] ELSE IF j = k THEN q.pq[n] ELSE q.pq[j]
  <2>1. n \in 1 .. n
    BY <1>0
  <2> HIDE DEF n, k
  <2> QED BY <2>1, <1>0, ExchHolds DEF n
<1>3. last.pq[n] = i /\ Len(last.pq) = n /\ last.pq # <<>> /\ Holds(last, D) /\ last.keys = q.keys
  <2>1. last.pq[n] = i /\ Len(last.pq) = n /\ Holds(last, D) /\ last.keys = q.keys
    BY <1>0, <1>2 DEF Permuted
  <2> QED BY <2>1, <1>0
<1> HIDE DEF last, r
<1>4. Holds(cut, D \ {i}) /\ cut.keys = last.keys /\ cut.qp = last.qp
  BY <1>3, DropLast
<1>5. r = SetQp(cut, i, -1)
  BY <1>1, <1>3 DEF SetPq, SetQp
<1> HIDE DEF cut
<1>6. /\ Holds(r, D \ {i}) /\ r.keys = q.keys
      /\ \A id \in Id : r.qp[id] = IF id = i THEN -1 ELSE cut.qp[id]
  <2>1. i \in Id \ (D \ {i}) /\ cut.keys = q.keys
    BY <1>0, <1>3, <1>4
  <2>2. /\ r \in Queue /\ r.pq = cut.pq /\ r.keys = cut.keys
        /\ \A id \in Id : r.qp[id] = IF id = i THEN -1 ELSE cut.qp[id]
    <3>1. cut \in Queue /\ i \in Id /\ -1 \in Int
      BY <1>0, <1>4 DEF Holds
    <3> QED BY <3>1, <1>5, SetQpDef
  <2>3. Holds(r, D \ {i})
    BY <2>1, <2>2, <1>4, ForgetIndex
  <2> QED BY <2>1, <2>2, <2>3
<1>7. \A id \in Id \ D : r.qp[id] = q.qp[id]
  BY <1>0, <1>2, <1>4, <1>6 DEF Permuted
<1> QED BY <1>0, <1>6, <1>7 DEF r

(* The first of a heap is the least. *)
LEMMA HeapMin ==
  ASSUME NEW q, NEW D, Holds(q, D), Ordered(q), NEW i \in D
  PROVE  q.keys[q.pq[1]] <= q.keys[i]
<1> DEFINE n == Len(q.pq)
           bad == {k \in 1 .. n : ~(key(q, 1) <= key(q, k))}
<1>0. q \in Queue /\ n \in Nat /\ q.qp[i] \in 1 .. n /\ q.pq[q.qp[i]] = i
  BY DEF Holds, Queue
<1>1. \A k \in 1 .. n : key(q, k) \in Nat
  BY <1>0 DEF key, Queue
<1>2. bad = {}
  <2> SUFFICES ASSUME bad # {} PROVE FALSE
    OBVIOUS
  <2>1. PICK k \in bad : \A j \in bad : k <= j
    <3>1. bad \in SUBSET Nat
      OBVIOUS
    <3> HIDE DEF bad
    <3> QED BY <3>1, LeastNumber
  <2>2. k # 1 /\ k \in 1 .. n /\ ~(key(q, 1) <= key(q, k))
    BY <1>1
  <2>3. k \div 2 \in 1 .. n /\ k \div 2 < k /\ k \in 2 .. n
    BY <2>2, <1>0
  <2>4. k \div 2 \notin bad
    BY <2>1, <2>3
  <2>5. key(q, 1) <= key(q, k \div 2) /\ key(q, k \div 2) <= key(q, k)
    BY <2>3, <2>4 DEF Ordered
  <2>6. 1 \in 1 .. n
    BY <2>3
  <2> QED BY <2>2, <2>3, <2>5, <2>6, <1>1
<1> QED BY <1>0, <1>2 DEF key

-----------------------------------------------------------------------------
(* The hash table.  From the slot of its hash value to the slot that holds *)
(* it, a key meets no free slot; dist measures the way, around the end.    *)

Width == 2 * max_entries

dist(a, b) == IF b >= a THEN b - a ELSE b - a + Width

Table == [keys : [H!Slot -> Url \cup {NULL}], items : [H!Slot -> Id \cup {NULL}], N : Int]

Full(h) == {j \in H!Slot : h.keys[j] # NULL}
Free(h) == {j \in H!Slot : h.keys[j] = NULL}

Has(h, u, id) == \E j \in H!Slot : h.keys[j] = u /\ h.items[j] = id

(* A key is there once, with an item. *)
Tidy(h) ==
  /\ h \in Table
  /\ \A j \in H!Slot : h.keys[j] = NULL <=> h.items[j] = NULL
  /\ \A i, j \in Full(h) : h.keys[i] = h.keys[j] => i = j

Reached(h, w) ==
  \A x \in Full(h), f \in Free(h) : dist(w[h.keys[x]], x) < dist(w[h.keys[x]], f)

(* The table has twice as many slots as the cache has places. *)
LEMMA WidthType ==
  /\ Width \in Nat /\ Width >= 2 /\ H!Slot = 0 .. Width - 1
  /\ max_entries \in Nat \ {0} /\ Id = 0 .. max_entries - 1
<1>1. max_entries \in Nat \ {0}
  <2>1. capacity \in Nat \ {0} /\ min_entry_size \in Nat \ {0} /\ max_entries > 0
    BY CapacityAssumption
  <2>2. max_entries \in Int
    BY <2>1 DEF max_entries
  <2> QED BY <2>1, <2>2
<1> QED BY <1>1 DEF Width, H!Slot, Id

(* Where a probe ends. *)
LEMMA LandingDef ==
  ASSUME NEW h \in Table, NEW w \in [Url -> H!Slot], NEW u \in Url,
         \E y \in H!Slot : h.keys[y] \in {u, NULL}
  PROVE  \E y \in H!Slot : /\ H!landing(h, w, u) = {y} /\ h.keys[y] \in {u, NULL}
                           /\ \A z \in H!Slot : h.keys[z] \in {u, NULL} => dist(w[u], y) <= dist(w[u], z)
<1> DEFINE a == w[u]
           p == H!probes(w, u)
           ends(k) == h.keys[p[k]] \in {u, NULL}
           K == {k \in 1 .. Width : ends(k)}
<1>0. a \in 0 .. Width - 1 /\ H!Slot = 0 .. Width - 1 /\ Width \in Nat /\ Width >= 2
  BY WidthType
<1>1. \A k \in 1 .. Width : p[k] = (a + k - 1) % Width
  BY DEF H!probes, Width
<1>2. ASSUME NEW k \in 1 .. Width PROVE p[k] \in H!Slot /\ dist(a, p[k]) = k - 1
  <2>1. CASE a + k - 1 < Width
    <3>1. a + k - 1 \in 0 .. Width - 1 /\ Width \in Nat \ {0}
      BY <2>1, <1>0
    <3>2. p[k] = a + k - 1
      BY <3>1, <1>1, ModBelow
    <3> QED BY <3>1, <3>2, <1>0 DEF dist
  <2>2. CASE a + k - 1 >= Width
    <3> DEFINE e == a + k - 1
    <3>1. e \in Width .. 2 * Width - 1 /\ Width \in Nat \ {0}
      BY <2>2, <1>0
    <3>2. p[k] = e % Width
      BY <1>1
    <3> HIDE DEF e, p
    <3>3. p[k] = e - Width
      BY <3>1, <3>2, ModOnce
    <3>4. p[k] = a + k - 1 - Width
      BY <3>3, <3>1, <1>0 DEF e
    <3>5. a + k - 1 - Width \in 0 .. Width - 1 /\ a + k - 1 - Width < a
      BY <3>1, <1>0 DEF e
    <3> QED BY <3>4, <3>5, <1>0 DEF dist
  <2> QED BY <2>1, <2>2, <1>0
<1>3. ASSUME NEW z \in H!Slot PROVE dist(a, z) + 1 \in 1 .. Width /\ p[dist(a, z) + 1] = z
  <2>0. dist(a, z) \in 0 .. Width - 1
    BY <1>0 DEF dist
  <2>1. dist(a, z) + 1 \in 1 .. Width
    BY <2>0, <1>0
  <2>2. p[dist(a, z) + 1] \in H!Slot /\ dist(a, p[dist(a, z) + 1]) = dist(a, z)
    <3> DEFINE k2 == dist(a, z) + 1
    <3> HIDE DEF k2, p
    <3>1. k2 \in 1 .. Width
      BY <2>1 DEF k2
    <3>2. p[k2] \in H!Slot /\ dist(a, p[k2]) = k2 - 1
      BY <3>1, <1>2
    <3>3. k2 - 1 = dist(a, z)
      BY <2>0, <1>0 DEF k2
    <3> QED BY <3>2, <3>3 DEF k2
  <2>3. \A y \in H!Slot : dist(a, y) = dist(a, z) => y = z
    BY <1>0 DEF dist
  <2> QED BY <2>1, <2>2, <2>3
<1> HIDE DEF p
<1>4. K # {}
  BY <1>3
<1>5. PICK k \in K : \A i \in K : k <= i
  <2>1. K \in SUBSET Nat
    OBVIOUS
  <2> HIDE DEF K
  <2> QED BY <2>1, <1>4, LeastNumber
<1>6. {i \in 1 .. Width : ends(i) /\ \A l \in 1 .. i - 1 : ~ends(l)} = {k}
  <2>1. ends(k) /\ k \in 1 .. Width
    BY <1>5
  <2>2. \A l \in 1 .. k - 1 : ~ends(l)
    <3> SUFFICES ASSUME NEW l \in 1 .. k - 1, ends(l) PROVE FALSE
      OBVIOUS
    <3>1. l \in K /\ ~(k <= l)
      BY <2>1, <1>0
    <3> QED BY <3>1, <1>5
  <2>3. ASSUME NEW i \in 1 .. Width, ends(i), \A l \in 1 .. i - 1 : ~ends(l) PROVE i = k
    <3>1. k <= i /\ k \notin 1 .. i - 1
      BY <2>1, <2>3, <1>5
    <3> QED BY <3>1, <2>1, <1>0
  <2> HIDE DEF ends
  <2> QED BY <2>1, <2>2, <2>3
<1>7. H!landing(h, w, u) = IF \E i \in 1 .. Width : ends(i)
                             THEN {p[CHOOSE i \in 1 .. Width : ends(i) /\ \A l \in 1 .. i - 1 : ~ends(l)]}
                             ELSE {}
  BY DEF H!landing, Width, p
<1>8. H!landing(h, w, u) = {p[k]}
  <2>1. k \in 1 .. Width /\ ends(k)
    BY <1>5
  <2>2. k \in {i \in 1 .. Width : ends(i) /\ \A l \in 1 .. i - 1 : ~ends(l)}
    BY <1>6
  <2>3. \A i \in 1 .. Width : ends(i) /\ (\A l \in 1 .. i - 1 : ~ends(l)) => i = k
    BY <1>6
  <2> HIDE DEF ends
  <2>4. (CHOOSE i \in 1 .. Width : ends(i) /\ \A l \in 1 .. i - 1 : ~ends(l)) = k
    BY <2>2, <2>3
  <2> QED BY <1>7, <2>1, <2>4
<1>9. ASSUME NEW z \in H!Slot, h.keys[z] \in {u, NULL} PROVE dist(a, p[k]) <= dist(a, z)
  <2>1. dist(a, z) + 1 \in K
    BY <1>3, <1>9
  <2>2. k <= dist(a, z) + 1 /\ k \in 1 .. Width /\ dist(a, p[k]) = k - 1
    BY <2>1, <1>2, <1>5
  <2>3. dist(a, z) \in Int
    BY <1>0 DEF dist
  <2> QED BY <2>2, <2>3
<1>10. p[k] \in H!Slot /\ h.keys[p[k]] \in {u, NULL}
  BY <1>2, <1>5
<1> QED BY <1>8, <1>9, <1>10

(* hshtbl_get finds a key exactly when it is there. *)
LEMMA GetDef ==
  ASSUME NEW h, Tidy(h), NEW w \in [Url -> H!Slot], Reached(h, w), Free(h) # {}, NEW u \in Url
  PROVE  \/ /\ \E id \in Id : Has(h, u, id) /\ H!hshtbl_get(h, w, u) = id
            /\ \E j \in Full(h) : h.keys[j] = u /\ H!landing(h, w, u) = {j}
         \/ /\ \A j \in H!Slot : h.keys[j] # u
            /\ H!hshtbl_get(h, w, u) = NULL
            /\ \E j \in Free(h) : H!landing(h, w, u) = {j}
<1>0. h \in Table /\ NULL \notin Url /\ NULL \notin Id
  BY NullAssumption DEF Tidy
<1>1. PICK y \in H!Slot : /\ H!landing(h, w, u) = {y} /\ h.keys[y] \in {u, NULL}
                          /\ \A z \in H!Slot : h.keys[z] \in {u, NULL} => dist(w[u], y) <= dist(w[u], z)
  <2>1. \E y \in H!Slot : h.keys[y] \in {u, NULL}
    BY DEF Free
  <2> QED BY <2>1, <1>0, LandingDef
<1>2. (CHOOSE j \in {y} : TRUE) = y
  OBVIOUS
<1>3. H!hshtbl_get(h, w, u) = IF h.keys[y] = u THEN h.items[y] ELSE NULL
  BY <1>1, <1>2 DEF H!hshtbl_get
<1>4. CASE h.keys[y] = u
  <2>1. h.items[y] \in Id /\ y \in Full(h)
    BY <1>0, <1>4 DEF Tidy, Table, Full
  <2> QED BY <2>1, <1>1, <1>3, <1>4 DEF Has
<1>5. CASE h.keys[y] = NULL
  <2>1. ASSUME NEW j \in H!Slot, h.keys[j] = u PROVE FALSE
    <3>1. j \in Full(h) /\ y \in Free(h)
      BY <2>1, <1>0, <1>5 DEF Full, Free
    <3>2. dist(w[u], j) < dist(w[u], y)
      BY <3>1, <2>1 DEF Reached
    <3>3. dist(w[u], y) <= dist(w[u], j)
      BY <1>1, <2>1
    <3>4. w[u] \in H!Slot
      OBVIOUS
    <3>5. dist(w[u], j) \in Int /\ dist(w[u], y) \in Int
      BY <3>4, WidthType DEF dist
    <3> QED BY <3>2, <3>3, <3>5
  <2> QED BY <2>1, <1>0, <1>1, <1>3, <1>5 DEF Free
<1> QED BY <1>1, <1>4, <1>5

(* hshtbl_put of a key that is not there. *)
LEMMA PutDef ==
  ASSUME NEW h, Tidy(h), NEW w \in [Url -> H!Slot], Free(h) # {},
         NEW u \in Url, \A j \in H!Slot : h.keys[j] # u, NEW id \in Id
  PROVE  LET r == H!hshtbl_put(h, w, u, id) IN
         \E y \in Free(h) :
            /\ \A z \in Free(h) : dist(w[u], y) <= dist(w[u], z)
            /\ Tidy(r) /\ r.N = h.N + 1
            /\ \A j \in H!Slot : /\ r.keys[j] = IF j = y THEN u ELSE h.keys[j]
                                 /\ r.items[j] = IF j = y THEN id ELSE h.items[j]
<1> DEFINE r == H!hshtbl_put(h, w, u, id)
<1>0. /\ h \in Table /\ NULL \notin Url /\ NULL \notin Id
      /\ h.keys \in [H!Slot -> Url \cup {NULL}] /\ h.items \in [H!Slot -> Id \cup {NULL}] /\ h.N \in Int
  BY NullAssumption DEF Tidy, Table
<1>1. PICK y \in H!Slot : /\ H!landing(h, w, u) = {y} /\ h.keys[y] \in {u, NULL}
                          /\ \A z \in H!Slot : h.keys[z] \in {u, NULL} => dist(w[u], y) <= dist(w[u], z)
  <2>1. \E y \in H!Slot : h.keys[y] \in {u, NULL}
    BY DEF Free
  <2> QED BY <2>1, <1>0, LandingDef
<1>2. y \in Free(h) /\ \A z \in Free(h) : dist(w[u], y) <= dist(w[u], z)
  BY <1>1 DEF Free
<1>3. (CHOOSE j \in {y} : TRUE) = y
  OBVIOUS
<1>4. r = [keys  |-> [h.keys EXCEPT ![y] = u],
           items |-> [h.items EXCEPT ![y] = id],
           N     |-> h.N + 1]
  BY <1>1, <1>2, <1>3 DEF H!hshtbl_put, Free
<1> HIDE DEF r
<1>5. /\ r.N = h.N + 1 /\ r \in Table
      /\ \A j \in H!Slot : /\ r.keys[j] = IF j = y THEN u ELSE h.keys[j]
                           /\ r.items[j] = IF j = y THEN id ELSE h.items[j]
  BY <1>0, <1>4 DEF Table
<1>6. Tidy(r)
  <2>1. \A j \in H!Slot : r.keys[j] = NULL <=> r.items[j] = NULL
    BY <1>0, <1>5 DEF Tidy
  <2>2. \A i, j \in Full(r) : r.keys[i] = r.keys[j] => i = j
    BY <1>0, <1>5 DEF Tidy, Full
  <2> QED BY <2>1, <2>2, <1>5 DEF Tidy
<1> QED BY <1>2, <1>5, <1>6 DEF r

(* hshtbl_put leaves every key where a search finds it. *)
LEMMA PutReached ==
  ASSUME NEW h, Tidy(h), NEW w \in [Url -> H!Slot], Reached(h, w), Free(h) # {},
         NEW u \in Url, \A j \in H!Slot : h.keys[j] # u, NEW id \in Id
  PROVE  LET r == H!hshtbl_put(h, w, u, id) IN
         /\ Tidy(r) /\ Reached(r, w) /\ r.N = h.N + 1
         /\ \A v \in Url, i \in Id : Has(r, v, i) <=> (Has(h, v, i) \/ (v = u /\ i = id))
<1> DEFINE r == H!hshtbl_put(h, w, u, id)
<1>1. PICK y \in Free(h) :
            /\ \A z \in Free(h) : dist(w[u], y) <= dist(w[u], z)
            /\ Tidy(r) /\ r.N = h.N + 1
            /\ \A j \in H!Slot : /\ r.keys[j] = IF j = y THEN u ELSE h.keys[j]
                                 /\ r.items[j] = IF j = y THEN id ELSE h.items[j]
  BY PutDef
<1> HIDE DEF r
<1>2. NULL \notin Url /\ y \in H!Slot /\ h.keys[y] = NULL /\ h \in Table
  BY NullAssumption DEF Free, Tidy
<1>3. Full(r) = Full(h) \cup {y} /\ Free(r) = Free(h) \ {y}
  BY <1>1, <1>2 DEF Full, Free
<1>4. ASSUME NEW x \in Full(r), NEW f \in Free(r) PROVE dist(w[r.keys[x]], x) < dist(w[r.keys[x]], f)
  <2>1. f \in Free(h) /\ f # y /\ f \in H!Slot
    BY <1>3 DEF Free
  <2>2. CASE x = y
    <3>1. r.keys[x] = u /\ dist(w[u], y) <= dist(w[u], f) /\ w[u] \in H!Slot
      BY <2>1, <2>2, <1>1, <1>2
    <3>2. dist(w[u], y) # dist(w[u], f) /\ dist(w[u], y) \in Int /\ dist(w[u], f) \in Int
      BY <2>1, <3>1, <1>2, WidthType DEF dist
    <3> QED BY <2>2, <3>1, <3>2
  <2>3. CASE x # y
    <3>1. x \in Full(h) /\ r.keys[x] = h.keys[x]
      BY <2>3, <1>1, <1>3 DEF Full
    <3> QED BY <3>1, <2>1 DEF Reached
  <2> QED BY <2>2, <2>3
<1>5. ASSUME NEW v \in Url, NEW i \in Id PROVE Has(r, v, i) <=> (Has(h, v, i) \/ (v = u /\ i = id))
  BY <1>1, <1>2 DEF Has
<1> QED BY <1>1, <1>4, <1>5 DEF Reached, r

-----------------------------------------------------------------------------
(* hshtbl_delete.  Seen from a slot e that stays free, the table is a line, *)
(* and the way of a key from its hash value to its slot is an interval.    *)

(* Distances as differences of positions on the line. *)
LEMMA DistLine ==
  ASSUME NEW e \in H!Slot, NEW a \in H!Slot, NEW x \in H!Slot
  PROVE  /\ dist(e, x) \in 0 .. Width - 1 /\ dist(e, e) = 0
         /\ dist(e, a) = dist(e, x) => a = x
         /\ dist(a, x) = IF dist(e, a) <= dist(e, x) THEN dist(e, x) - dist(e, a)
                         ELSE dist(e, x) - dist(e, a) + Width
  BY WidthType DEF dist

(* The next slot is the next position, or e. *)
LEMMA NextSlot ==
  ASSUME NEW e \in H!Slot, NEW x \in H!Slot
  PROVE  /\ (x + 1) % Width \in H!Slot
         /\ dist(e, (x + 1) % Width) = IF dist(e, x) = Width - 1 THEN 0 ELSE dist(e, x) + 1
<1> DEFINE z == (x + 1) % Width
<1>0. /\ Width \in Nat \ {0} /\ Width >= 2
      /\ e \in 0 .. Width - 1 /\ x \in 0 .. Width - 1 /\ H!Slot = 0 .. Width - 1
  BY WidthType
<1>1. z = IF x = Width - 1 THEN 0 ELSE x + 1
  <2>1. CASE x = Width - 1
    <3>1. x + 1 = Width /\ Width \in Width .. 2 * Width - 1
      BY <2>1, <1>0
    <3>2. Width % Width = Width - Width
      BY <3>1, <1>0, ModOnce
    <3> QED BY <2>1, <3>1, <3>2, <1>0
  <2>2. CASE x # Width - 1
    <3> DEFINE y == x + 1
    <3>1. y \in 0 .. Width - 1
      BY <2>2, <1>0
    <3> HIDE DEF y
    <3>2. y % Width = y
      BY <3>1, <1>0, ModBelow
    <3> QED BY <2>2, <3>2 DEF y
  <2> QED BY <2>1, <2>2
<1> HIDE DEF z
<1>2. z \in H!Slot
  BY <1>0, <1>1
<1>3. dist(e, z) = IF dist(e, x) = Width - 1 THEN 0 ELSE dist(e, x) + 1
  BY <1>0, <1>1 DEF dist
<1> QED BY <1>2, <1>3 DEF z

(* Emptying one slot. *)
LEMMA VacateDef ==
  ASSUME NEW h, Tidy(h), NEW j \in H!Slot
  PROVE  LET r == H!vacate(h, j) IN
         /\ Tidy(r) /\ r.N = h.N - 1
         /\ Full(r) = Full(h) \ {j} /\ Free(r) = Free(h) \cup {j}
         /\ \A x \in H!Slot : /\ r.keys[x] = IF x = j THEN NULL ELSE h.keys[x]
                              /\ r.items[x] = IF x = j THEN NULL ELSE h.items[x]
<1> DEFINE r == H!vacate(h, j)
<1>0. /\ h.keys \in [H!Slot -> Url \cup {NULL}] /\ h.items \in [H!Slot -> Id \cup {NULL}] /\ h.N \in Int
  BY DEF Tidy, Table
<1>1. r \in Table /\ r.N = h.N - 1 /\ r.keys = [h.keys EXCEPT ![j] = NULL] /\ r.items = [h.items EXCEPT ![j] = NULL]
  BY <1>0 DEF H!vacate, Table
<1> HIDE DEF r
<1>2. \A x \in H!Slot : /\ r.keys[x] = IF x = j THEN NULL ELSE h.keys[x]
                        /\ r.items[x] = IF x = j THEN NULL ELSE h.items[x]
  BY <1>0, <1>1
<1>3. Full(r) = Full(h) \ {j} /\ Free(r) = Free(h) \cup {j}
  BY <1>2 DEF Full, Free
<1>4. Tidy(r)
  <2>1. \A x \in H!Slot : r.keys[x] = NULL <=> r.items[x] = NULL
    BY <1>2 DEF Tidy
  <2>2. \A x, y \in Full(r) : r.keys[x] = r.keys[y] => x = y
    BY <1>2, <1>3 DEF Tidy, Full
  <2> QED BY <2>1, <2>2, <1>1 DEF Tidy
<1> QED BY <1>1, <1>2, <1>3, <1>4 DEF r

(* The keys from slot s.j on are still to be put again: the holes before   *)
(* s.j are only in their way.                                              *)
Mending(s, w, e) ==
  /\ s.j \in H!Slot /\ Tidy(s.h) /\ e \in Free(s.h)
  /\ \A x \in Full(s.h) :
       /\ 0 < dist(e, w[s.h.keys[x]]) /\ dist(e, w[s.h.keys[x]]) <= dist(e, x)
       /\ \A f \in Free(s.h) :
            dist(e, w[s.h.keys[x]]) <= dist(e, f) /\ dist(e, f) <= dist(e, x)
              => dist(e, f) < dist(e, s.j) /\ dist(e, s.j) <= dist(e, x)

SameItems(r, h) ==
  r.N = h.N /\ \A v \in Url, i \in Id : Has(r, v, i) <=> Has(h, v, i)

(* One turn of the loop puts one key again. *)
LEMMA RehashTurn ==
  ASSUME NEW w \in [Url -> H!Slot], NEW e, NEW s \in [h : Table, j : H!Slot], Mending(s, w, e),
         s.h.keys[s.j] # NULL
  PROVE  LET t == H!rehash_turn(w, s) IN
         /\ t \in [h : Table, j : H!Slot] /\ Mending(t, w, e) /\ SameItems(t.h, s.h)
         /\ t.j = e \/ dist(e, t.j) = dist(e, s.j) + 1
<1> DEFINE h == s.h
           j == s.j
           k == h.keys[j]
           id == h.items[j]
           g == H!vacate(h, j)
           r == H!hshtbl_put(g, w, k, id)
           t == H!rehash_turn(w, s)
           z == (j + 1) % Width
<1>1. t = [h |-> r, j |-> z]
  BY DEF H!rehash_turn, Width
<1>2. /\ h \in Table /\ Tidy(h) /\ j \in H!Slot /\ e \in Free(h) /\ e \in H!Slot /\ h.keys[e] = NULL
      /\ NULL \notin Url /\ NULL \notin Id /\ j # e
  BY NullAssumption DEF Mending, Free
<1>3. k \in Url /\ id \in Id /\ j \in Full(h)
  BY <1>2 DEF Tidy, Table, Full
<1>4. /\ Tidy(g) /\ g.N = h.N - 1
      /\ Full(g) = Full(h) \ {j} /\ Free(g) = Free(h) \cup {j}
      /\ \A x \in H!Slot : /\ g.keys[x] = IF x = j THEN NULL ELSE h.keys[x]
                           /\ g.items[x] = IF x = j THEN NULL ELSE h.items[x]
  BY <1>2, VacateDef
<1>5. \A x \in H!Slot : g.keys[x] # k
  BY <1>2, <1>3, <1>4 DEF Tidy, Full
<1>6. PICK y \in Free(g) :
            /\ \A f \in Free(g) : dist(w[k], y) <= dist(w[k], f)
            /\ Tidy(r) /\ r.N = g.N + 1
            /\ \A x \in H!Slot : /\ r.keys[x] = IF x = y THEN k ELSE g.keys[x]
                                 /\ r.items[x] = IF x = y THEN id ELSE g.items[x]
  <2>1. Free(g) # {}
    BY <1>4
  <2> HIDE DEF g, k, id, h, j
  <2> QED BY <2>1, <1>3, <1>4, <1>5, PutDef
<1>k. k = h.keys[j] /\ id = h.items[j]
  OBVIOUS
<1>z. z \in H!Slot /\ dist(e, z) = IF dist(e, j) = Width - 1 THEN 0 ELSE dist(e, j) + 1
  BY <1>2, NextSlot
<1> HIDE DEF g, r, t, k, id, z
<1> DEFINE P(x) == dist(e, x)
           a == w[k]
<1>7. /\ a \in H!Slot /\ y \in H!Slot /\ e \in H!Slot
      /\ \A x \in H!Slot : P(x) \in 0 .. Width - 1 /\ (P(x) = 0 => x = e)
      /\ Width \in Nat /\ Width >= 2 /\ P(e) = 0
      /\ \A x \in H!Slot : dist(a, x) = IF P(a) <= P(x) THEN P(x) - P(a) ELSE P(x) - P(a) + Width
  <2>1. a \in H!Slot /\ y \in H!Slot /\ e \in H!Slot
    BY <1>2, <1>3, <1>6 DEF Free
  <2>2. \A x \in H!Slot : P(x) \in 0 .. Width - 1 /\ (P(x) = P(e) => x = e) /\ P(e) = 0
    BY <2>1, DistLine
  <2>3. \A x \in H!Slot : dist(a, x) = IF P(a) <= P(x) THEN P(x) - P(a) ELSE P(x) - P(a) + Width
    BY <2>1, DistLine
  <2> QED BY <2>1, <2>2, <2>3, WidthType
<1> HIDE DEF P
<1>8. 0 < P(a) /\ P(a) <= P(j)
  BY <1>3, <1>k DEF Mending, P
<1>9. P(a) <= P(y) /\ P(y) <= P(j) /\ y # e /\ dist(a, y) = P(y) - P(a)
  <2>1. j \in Free(g) /\ j \in H!Slot
    BY <1>2, <1>4
  <2>2. dist(a, y) <= dist(a, j)
    BY <2>1, <1>6
  <2>3. dist(a, j) = P(j) - P(a)
    BY <2>1, <1>7, <1>8
  <2>4. P(a) \in 0 .. Width - 1 /\ P(j) \in 0 .. Width - 1 /\ P(y) \in 0 .. Width - 1
    BY <2>1, <1>7
  <2>5. dist(a, y) = IF P(a) <= P(y) THEN P(y) - P(a) ELSE P(y) - P(a) + Width
    BY <1>7
  <2> HIDE DEF a, h, j
  <2>6. P(a) <= P(y)
    BY <2>2, <2>3, <2>4, <2>5, <1>7
  <2>7. P(y) <= P(j)
    BY <2>2, <2>3, <2>4, <2>5, <2>6
  <2>8. P(y) # P(e)
    BY <2>4, <2>6, <1>7, <1>8
  <2> QED BY <2>5, <2>6, <2>7, <2>8
<1>10. Full(r) = Full(g) \cup {y} /\ Free(r) = Free(g) \ {y}
  BY <1>2, <1>3, <1>6, <1>7 DEF Full, Free
<1>11. e \in Free(r)
  BY <1>2, <1>4, <1>9, <1>10
<1>12. SameItems(r, h)
  <2>1. r.N = h.N
    BY <1>2, <1>4, <1>6 DEF Table
  <2>2. ASSUME NEW v \in Url, NEW i \in Id PROVE Has(r, v, i) <=> Has(h, v, i)
    <3>1. ASSUME NEW x \in H!Slot, r.keys[x] = v, r.items[x] = i PROVE Has(h, v, i)
      <4>1. CASE x = y
        BY <4>1, <3>1, <1>2, <1>6, <1>k DEF Has
      <4>2. CASE x # y
        BY <4>2, <3>1, <1>2, <1>4, <1>6 DEF Has
      <4> QED BY <4>1, <4>2
    <3>2. ASSUME NEW x \in H!Slot, h.keys[x] = v, h.items[x] = i PROVE Has(r, v, i)
      <4>1. CASE x = j
        BY <4>1, <3>2, <1>6, <1>7, <1>k DEF Has
      <4>2. CASE x # j
        <5>1. g.keys[x] = v /\ g.items[x] = i
          BY <4>2, <3>2, <1>4
        <5>2. x # y
          BY <5>1, <1>2, <1>6 DEF Free
        <5> QED BY <5>1, <5>2, <1>6 DEF Has
      <4> QED BY <4>1, <4>2
    <3> QED BY <3>1, <3>2 DEF Has
  <2> QED BY <2>1, <2>2 DEF SameItems
<1>13. ASSUME NEW x \in Full(r)
       PROVE  /\ 0 < P(w[r.keys[x]]) /\ P(w[r.keys[x]]) <= P(x)
              /\ \A f \in Free(r) : P(w[r.keys[x]]) <= P(f) /\ P(f) <= P(x) => P(f) < P(z) /\ P(z) <= P(x)
  <2>1. CASE x = y
    <3>1. r.keys[x] = k
      BY <2>1, <1>6, <1>7
    <3>2. ASSUME NEW f \in Free(r), P(a) <= P(f), P(f) <= P(x) PROVE FALSE
      <4>1. f \in Free(g) /\ f # y /\ f \in H!Slot
        BY <1>10 DEF Free
      <4>2. dist(a, y) <= dist(a, f) /\ dist(a, f) = P(f) - P(a)
        BY <4>1, <3>2, <1>6, <1>7
      <4>3. P(f) \in Int /\ P(y) \in Int /\ P(a) \in Int
        BY <4>1, <1>7
      <4>4. P(f) = P(y)
        BY <4>2, <4>3, <3>2, <2>1, <1>9
      <4>5. f = y
        BY <4>1, <4>4, <1>7, DistLine DEF P
      <4> QED BY <4>1, <4>5
    <3> QED BY <3>1, <3>2, <2>1, <1>8, <1>9
  <2>2. CASE x # y
    <3>1. x \in Full(h) /\ x # j /\ x \in H!Slot /\ r.keys[x] = h.keys[x]
      BY <2>2, <1>4, <1>6, <1>10 DEF Full
    <3>2. 0 < P(w[h.keys[x]]) /\ P(w[h.keys[x]]) <= P(x)
      BY <3>1 DEF Mending, P
    <3>3. ASSUME NEW f \in Free(r), P(w[h.keys[x]]) <= P(f), P(f) <= P(x) PROVE P(f) <= P(j) /\ P(j) <= P(x)
      <4>1. f \in Free(h) \/ f = j
        BY <1>4, <1>10
      <4>2. CASE f \in Free(h)
        <5>1. P(f) < P(j) /\ P(j) <= P(x)
          BY <4>2, <3>1, <3>3 DEF Mending, P
        <5>2. P(f) \in Int /\ P(j) \in Int
          BY <4>2, <1>2, <1>7 DEF Free
        <5> QED BY <5>1, <5>2
      <4>3. CASE f = j
        BY <4>3, <3>3, <1>2, <1>7
      <4> QED BY <4>1, <4>2, <4>3
    <3>4. ASSUME NEW f \in Free(r), P(w[h.keys[x]]) <= P(f), P(f) <= P(x) PROVE P(f) < P(z) /\ P(z) <= P(x)
      <4>1. P(f) <= P(j) /\ P(j) <= P(x)
        BY <3>3, <3>4
      <4>2. f \in H!Slot
        BY DEF Free
      <4>3. P(x) # P(j)
        BY <3>1, <1>2, DistLine DEF P
      <4>4. P(f) \in Int /\ P(j) \in 0 .. Width - 1 /\ P(x) \in 0 .. Width - 1 /\ Width \in Nat
        BY <4>2, <3>1, <1>2, <1>7
      <4>5. P(z) = P(j) + 1
        BY <4>1, <4>3, <4>4, <1>z DEF P
      <4> QED BY <4>1, <4>3, <4>4, <4>5
    <3> QED BY <3>1, <3>2, <3>4
  <2> QED BY <2>1, <2>2
<1>14. Mending(t, w, e)
  <2>1. t.h = r /\ t.j = z
    BY <1>1
  <2> QED BY <2>1, <1>6, <1>11, <1>13, <1>z DEF Mending, P
<1>15. t.j = e \/ P(t.j) = P(s.j) + 1
  BY <1>1, <1>z, <1>7 DEF P
<1>16. t \in [h : Table, j : H!Slot]
  BY <1>1, <1>6, <1>z DEF Tidy
<1>17. SameItems(t.h, s.h)
  BY <1>1, <1>12
<1> QED BY <1>14, <1>15, <1>16, <1>17 DEF t, P

(* hshtbl_delete of a key that is there: every other key stays within      *)
(* reach of a search, with its item, whatever runs of colliding keys the   *)
(* table holds and wherever they wrap around its end.                      *)
THEOREM Deletion ==
  ASSUME NEW h, Tidy(h), NEW w \in [Url -> H!Slot], Reached(h, w), Free(h) # {},
         NEW u \in Url, NEW i0 \in Id, Has(h, u, i0)
  PROVE  LET r == H!hshtbl_delete(h, w, u) IN
         /\ Tidy(r) /\ Reached(r, w) /\ r.N = h.N - 1
         /\ \A v \in Url, i \in Id : Has(r, v, i) <=> (Has(h, v, i) /\ v # u)
<1>0. /\ h \in Table /\ NULL \notin Url /\ NULL \notin Id /\ H!Slot = 0 .. Width - 1
      /\ Width \in Nat /\ Width >= 2
  BY NullAssumption, WidthType DEF Tidy
<1>1. PICK e \in Free(h) : TRUE
  OBVIOUS
<1>2. PICK j0 \in Full(h) : h.keys[j0] = u /\ H!landing(h, w, u) = {j0} /\ H!hshtbl_get(h, w, u) # NULL
  <2>1. \E j \in H!Slot : h.keys[j] = u
    BY DEF Has
  <2>2. /\ \E id \in Id : Has(h, u, id) /\ H!hshtbl_get(h, w, u) = id
        /\ \E j \in Full(h) : h.keys[j] = u /\ H!landing(h, w, u) = {j}
    BY <2>1, GetDef
  <2> QED BY <2>2, <1>0
<1>3. (CHOOSE j \in {j0} : TRUE) = j0
  OBVIOUS
<1> DEFINE g == H!vacate(h, j0)
           z == (j0 + 1) % Width
           s0 == [h |-> g, j |-> z]
           turn(s) == H!rehash_turn(w, s)
           S == {s \in [h : Table, j : H!Slot] : Mending(s, w, e) /\ SameItems(s.h, g)}
           F == [s \in S |-> turn(s)]
           Q(f) == f = [i \in 0 .. Width |-> IF i = 0 THEN s0 ELSE turn(f[i - 1])]
           f == CHOOSE f : Q(f)
           done(s) == s.h.keys[s.j] = NULL
           I == [n \in Nat |-> {s \in S : dist(e, s.j) >= n + 1 \/ done(s)}]
           r == H!hshtbl_delete(h, w, u)
<1>4. r = f[Width].h
  <2> DEFINE c == CHOOSE j \in H!landing(h, w, u) : TRUE
             G(p) == p = [i \in 0 .. Width |-> IF i = 0 THEN [h |-> H!vacate(h, c), j |-> (c + 1) % Width]
                                              ELSE H!rehash_turn(w, p[i - 1])]
  <2>1. c = j0
    BY <1>2, <1>3, Zenon
  <2>2. r = (CHOOSE p : G(p))[Width].h
    BY <1>2 DEF H!hshtbl_delete, H!Repeat, Width
  <2> HIDE DEF c, r
  <2>3. r = (CHOOSE p : Q(p))[Width].h
    BY <2>1, <2>2, Zenon
  <2> QED BY <2>3
<1>5. /\ Tidy(g) /\ g.N = h.N - 1
      /\ Full(g) = Full(h) \ {j0} /\ Free(g) = Free(h) \cup {j0}
      /\ \A x \in H!Slot : /\ g.keys[x] = IF x = j0 THEN NULL ELSE h.keys[x]
                           /\ g.items[x] = IF x = j0 THEN NULL ELSE h.items[x]
  BY VacateDef DEF Full
<1>z. z \in H!Slot /\ dist(e, z) = IF dist(e, j0) = Width - 1 THEN 0 ELSE dist(e, j0) + 1
  BY NextSlot DEF Full, Free
<1>6. s0 \in S
  <2> HIDE DEF g, z
  <2>1. s0.h = g /\ s0.j = z /\ s0 \in [h : Table, j : H!Slot]
    BY <1>5, <1>z DEF Tidy
  <2>2. ASSUME NEW x \in Full(g)
        PROVE  /\ 0 < dist(e, w[g.keys[x]]) /\ dist(e, w[g.keys[x]]) <= dist(e, x)
               /\ \A y \in Free(g) :
                    dist(e, w[g.keys[x]]) <= dist(e, y) /\ dist(e, y) <= dist(e, x)
                      => dist(e, y) < dist(e, z) /\ dist(e, z) <= dist(e, x)
    <3> DEFINE a == w[g.keys[x]]
    <3>1. x \in Full(h) /\ x # j0 /\ x \in H!Slot /\ g.keys[x] = h.keys[x] /\ g.keys[x] \in Url
      BY <1>0, <1>5 DEF Full, Table
    <3>2. /\ a \in H!Slot /\ e \in H!Slot /\ j0 \in H!Slot
          /\ \A y \in Free(h) : dist(a, x) < dist(a, y)
      BY <3>1 DEF Reached, Free, Full
    <3> HIDE DEF a
    <3>3. ASSUME NEW y \in H!Slot
          PROVE  /\ dist(e, y) \in 0 .. Width - 1
                 /\ dist(e, y) = dist(e, e) => y = e
                 /\ dist(a, y) = IF dist(e, a) <= dist(e, y) THEN dist(e, y) - dist(e, a)
                                 ELSE dist(e, y) - dist(e, a) + Width
      BY <3>2, DistLine
    <3>4. dist(e, e) = 0 /\ dist(a, x) < dist(a, e)
      BY <3>2, <1>1, DistLine
    <3>5. 0 < dist(e, a) /\ dist(e, a) <= dist(e, x)
      <4>1. dist(e, a) \in 0 .. Width - 1 /\ dist(e, x) \in 0 .. Width - 1
        BY <3>1, <3>2, <3>3
      <4>2. dist(a, e) = IF dist(e, a) <= 0 THEN 0 - dist(e, a) ELSE 0 - dist(e, a) + Width
        BY <3>2, <3>3, <3>4
      <4>3. dist(a, x) = IF dist(e, a) <= dist(e, x) THEN dist(e, x) - dist(e, a)
                         ELSE dist(e, x) - dist(e, a) + Width
        BY <3>1, <3>3
      <4> QED BY <4>1, <4>2, <4>3, <3>4, <1>0
    <3>6. ASSUME NEW y \in Free(g), dist(e, a) <= dist(e, y), dist(e, y) <= dist(e, x)
          PROVE  dist(e, y) < dist(e, z) /\ dist(e, z) <= dist(e, x)
      <4>1. y \in H!Slot
        BY DEF Free
      <4>2. dist(e, a) \in 0 .. Width - 1 /\ dist(e, x) \in 0 .. Width - 1 /\ dist(e, y) \in 0 .. Width - 1
        BY <4>1, <3>1, <3>2, <3>3
      <4>3. dist(a, y) = dist(e, y) - dist(e, a) /\ dist(a, x) = dist(e, x) - dist(e, a)
        BY <4>1, <3>1, <3>3, <3>5, <3>6
      <4>4. y \notin Free(h)
        <5> SUFFICES ASSUME y \in Free(h) PROVE FALSE
          OBVIOUS
        <5>1. dist(a, x) < dist(a, y)
          BY <3>2
        <5> QED BY <5>1, <4>2, <4>3, <3>6
      <4>5. y = j0
        BY <4>4, <1>5
      <4>6. dist(e, x) # dist(e, j0)
        BY <3>1, <3>2, DistLine
      <4> QED BY <4>2, <4>5, <4>6, <3>6, <1>0, <1>z
    <3> QED BY <3>5, <3>6 DEF a
  <2>3. Mending(s0, w, e)
    BY <2>1, <2>2, <1>1, <1>5, <1>z DEF Mending
  <2>4. SameItems(s0.h, g)
    BY <2>1 DEF SameItems
  <2> QED BY <2>1, <2>3, <2>4
<1> HIDE DEF g, z, s0
<1>7. ASSUME NEW s \in S
      PROVE  /\ turn(s) \in S
             /\ done(s) => turn(s) = s
             /\ ~done(s) => turn(s).j = e \/ dist(e, turn(s).j) = dist(e, s.j) + 1
  <2>1. CASE done(s)
    BY <2>1 DEF H!rehash_turn
  <2>2. CASE ~done(s)
    <3> DEFINE t == turn(s)
    <3>1. /\ t \in [h : Table, j : H!Slot] /\ Mending(t, w, e) /\ SameItems(t.h, s.h)
          /\ t.j = e \/ dist(e, t.j) = dist(e, s.j) + 1
      BY <2>2, RehashTurn
    <3>2. SameItems(s.h, g)
      OBVIOUS
    <3> HIDE DEF t
    <3>3. SameItems(t.h, g)
      BY <3>1, <3>2 DEF SameItems
    <3> QED BY <2>2, <3>1, <3>3 DEF t
  <2> QED BY <2>1, <2>2
<1>8. Q(f)
  <2>1. F \in [S -> S]
    BY <1>7
  <2> HIDE DEF S, F
  <2>2. PICK p \in [0 .. Width -> S] : p[0] = s0 /\ \A i \in 0 .. Width - 1 : p[i + 1] = F[p[i]]
    <3>1. Runs(S, F, s0, Width) # {}
      BY <2>1, <1>0, <1>6, LoopExists
    <3> QED BY <3>1 DEF Runs
  <2>3. \A i \in 0 .. Width : p[i] = IF i = 0 THEN s0 ELSE turn(p[i - 1])
    <3> SUFFICES ASSUME NEW i \in 0 .. Width, i # 0 PROVE p[i] = turn(p[i - 1])
      BY <2>2
    <3>1. i - 1 \in 0 .. Width - 1 /\ (i - 1) + 1 = i /\ i - 1 \in 0 .. Width
      BY <1>0
    <3>2. p[i - 1] \in S /\ p[i] = F[p[i - 1]]
      BY <2>2, <3>1
    <3> QED BY <3>2 DEF F
  <2>4. Q(p)
    <3> HIDE DEF turn
    <3> QED BY <2>2, <2>3
  <2> HIDE DEF Q
  <2> QED BY <2>4, Zenon
<1> HIDE DEF f, turn
<1>9. ASSUME NEW n \in 0 .. Width - 1, f[n] \in I[n] PROVE f[n + 1] \in I[n + 1]
  <2> DEFINE s == f[n]
             t == turn(s)
  <2>1. f[n + 1] = t
    <3>1. n + 1 \in 0 .. Width /\ n + 1 # 0 /\ (n + 1) - 1 = n
      BY <1>0
    <3> QED BY <3>1, <1>8
  <2>2. n \in Nat /\ n + 1 \in Nat
    BY <1>0
  <2>3. s \in S /\ (dist(e, s.j) >= n + 1 \/ done(s))
    BY <1>9, <2>2
  <2> HIDE DEF s, t, S, done
  <2>4. /\ t \in S /\ (done(s) => t = s)
        /\ ~done(s) => t.j = e \/ dist(e, t.j) = dist(e, s.j) + 1
    BY <2>3, <1>7 DEF t
  <2>5. dist(e, t.j) >= n + 2 \/ done(t)
    <3>1. CASE done(s)
      BY <3>1, <2>4
    <3>2. CASE ~done(s) /\ t.j = e
      BY <3>2, <2>4 DEF S, done, Mending, Free
    <3>3. CASE ~done(s) /\ dist(e, t.j) = dist(e, s.j) + 1
      <4>1. dist(e, s.j) \in Int
        BY <2>3, WidthType DEF S, dist, Free
      <4> QED BY <4>1, <3>3, <2>2, <2>3
    <3> QED BY <3>1, <3>2, <3>3, <2>4
  <2> QED BY <2>1, <2>2, <2>4, <2>5 DEF s
<1>10. f[Width] \in I[Width]
  <2>1. f[0] \in I[0]
    <3>1. f[0] = s0
      BY <1>8, <1>0
    <3>2. dist(e, s0.j) >= 1 \/ done(s0)
      <4>1. s0.j = z /\ z \in H!Slot /\ e \in H!Slot
        BY <1>z DEF s0, Free
      <4>2. CASE z = e
        BY <4>2, <4>1, <1>6 DEF Mending, Free
      <4>3. CASE z # e
        <5>1. dist(e, z) \in 0 .. Width - 1 /\ dist(e, z) # dist(e, e) /\ dist(e, e) = 0
          BY <4>1, <4>3, DistLine
        <5> QED BY <5>1, <4>1, <1>0
      <4> QED BY <4>2, <4>3
    <3> HIDE DEF S, done
    <3> QED BY <3>1, <3>2, <1>6
  <2> HIDE DEF I
  <2>2. \A n \in 0 .. Width : f[n] \in I[n]
    BY <2>1, <1>0, <1>9, LoopInvariant
  <2> QED BY <2>2, <1>0
<1> DEFINE s == f[Width]
<1>11. s \in S /\ (dist(e, s.j) >= Width + 1 \/ done(s))
  BY <1>10, <1>0
<1> HIDE DEF s
<1>12. /\ s.h \in Table /\ Tidy(s.h) /\ s.j \in H!Slot /\ Mending(s, w, e) /\ SameItems(s.h, g)
       /\ e \in H!Slot /\ e \in Free(s.h)
  BY <1>11 DEF Mending, Free
<1>13. s.j \in Free(s.h)
  <2>1. dist(e, s.j) \in 0 .. Width - 1
    BY <1>12, DistLine
  <2> QED BY <2>1, <1>0, <1>11, <1>12 DEF Free
<1>14. ASSUME NEW x \in Full(s.h), NEW y \in Free(s.h)
       PROVE  dist(w[s.h.keys[x]], x) < dist(w[s.h.keys[x]], y)
  <2> DEFINE a == w[s.h.keys[x]]
  <2>1. x \in H!Slot /\ y \in H!Slot /\ a \in H!Slot
    BY <1>12 DEF Full, Free, Table
  <2>2. /\ 0 < dist(e, a) /\ dist(e, a) <= dist(e, x)
        /\ \A l \in Free(s.h) : dist(e, a) <= dist(e, l) /\ dist(e, l) <= dist(e, x)
                                  => dist(e, l) < dist(e, s.j) /\ dist(e, s.j) <= dist(e, x)
    BY <1>12 DEF Mending
  <2> HIDE DEF a
  <2>3. /\ dist(e, x) \in 0 .. Width - 1 /\ dist(e, y) \in 0 .. Width - 1
        /\ dist(e, a) \in 0 .. Width - 1 /\ dist(e, s.j) \in 0 .. Width - 1
    BY <2>1, <1>12, DistLine
  <2>4. ~(dist(e, a) <= dist(e, y) /\ dist(e, y) <= dist(e, x))
    <3> SUFFICES ASSUME dist(e, a) <= dist(e, y), dist(e, y) <= dist(e, x) PROVE FALSE
      OBVIOUS
    <3>1. dist(e, y) < dist(e, s.j) /\ dist(e, s.j) <= dist(e, x)
      BY <2>2
    <3>2. dist(e, a) <= dist(e, s.j)
      BY <3>1, <2>3
    <3>3. dist(e, s.j) < dist(e, s.j)
      BY <3>1, <3>2, <2>2, <1>13
    <3> QED BY <3>3, <2>3
  <2>5. /\ dist(a, x) = dist(e, x) - dist(e, a)
        /\ dist(a, y) = IF dist(e, a) <= dist(e, y) THEN dist(e, y) - dist(e, a)
                        ELSE dist(e, y) - dist(e, a) + Width
    BY <2>1, <2>2, <1>12, DistLine
  <2>6. dist(a, x) < dist(a, y)
    BY <2>2, <2>3, <2>4, <2>5, <1>0
  <2> QED BY <2>6 DEF a
<1>15. ASSUME NEW v \in Url, NEW i \in Id PROVE Has(g, v, i) <=> (Has(h, v, i) /\ v # u)
  BY <1>0, <1>2, <1>5 DEF Has, Tidy, Full
<1>16. s.h.N = h.N - 1 /\ \A v \in Url, i \in Id : Has(s.h, v, i) <=> (Has(h, v, i) /\ v # u)
  BY <1>5, <1>12, <1>15 DEF SameItems
<1>17. r = s.h
  BY <1>4 DEF s
<1> HIDE DEF r
<1> QED BY <1>12, <1>14, <1>16, <1>17 DEF Reached, r

-----------------------------------------------------------------------------
(* The inductive invariant. *)

InBand(b) == {id \in Id : entries[id].url # NULL /\ band_of(entries[id].size) = b}

Total(en) == MapThenSumSet(LAMBDA id : en[id].size, Id)

Entry == [url : Url \cup {NULL}, size : Sizes \cup {0}]

TypeInv ==
  /\ policy \in {"lru", "lfu", "rnd", "lrumin"}
  /\ hv \in [Url -> H!Slot]
  /\ queues \in [Band -> Queue]
  /\ free_ids \in Seq(Id)
  /\ entries \in [Id -> Entry]
  /\ num_entries \in Int /\ mem_used \in Int
  /\ now \in 1 .. MaxTime
  /\ call \in {NULL} \cup [url : Url, size : Sizes, eviction_size : 0 .. shift[SizeBits] - 1]
  /\ worth \in [Url -> Nat]

(* An entry has a size exactly when it has a URL, and no URL has two.      *)
EntriesInv ==
  /\ \A id \in Id : entries[id].url = NULL <=> entries[id].size = 0
  /\ \A i, j \in Id : entries[i].url # NULL /\ entries[i].url = entries[j].url => i = j

TableInv ==
  /\ Tidy(tbl) /\ Reached(tbl, hv)
  /\ \A u \in Url, id \in Id : Has(tbl, u, id) <=> entries[id].url = u
  /\ tbl.N = num_entries

QueuesInv ==
  \A b \in Band : /\ Holds(queues[b], InBand(b))
                  /\ \A id \in Id \ InBand(b) : queues[b].qp[id] = -1

FreeInv ==
  /\ \A i, j \in 1 .. Len(free_ids) : free_ids[i] = free_ids[j] => i = j
  /\ \A id \in Id : entries[id].url = NULL <=> \E k \in 1 .. Len(free_ids) : free_ids[k] = id

CountInv ==
  /\ num_entries = Cardinality({id \in Id : entries[id].size > 0})
  /\ mem_used = Total(entries) /\ mem_used <= capacity

(* The value of the call is not cached; eviction_size is what is still to  *)
(* be freed, and has wrapped only when nothing is.                         *)
CallInv ==
  call # NULL =>
    /\ \A id \in Id : entries[id].url # call.url
    /\ policy = "lrumin" /\ need_eviction(call.size) =>
         /\ call.eviction_size <= call.size
         /\ mem_used + call.size - call.eviction_size <= capacity

IInv == TypeInv /\ EntriesInv /\ TableInv /\ QueuesInv /\ FreeInv /\ CountInv /\ CallInv

(* Keys that the clock and the count of hits allow. *)
Key ==
  IF policy \in {"lru", "lrumin"} THEN 0 .. now ELSE IF policy = "lfu" THEN 0 .. MaxHits ELSE {0}

OrderInv ==
  \A b \in Band :
    /\ Ordered(queues[b]) /\ \A id \in Id : queues[b].keys[id] \in Key
    /\ \A id \in InBand(b) : queues[b].keys[id] = worth[entries[id].url]

-----------------------------------------------------------------------------
(* The sum of the sizes. *)

some(T) == CHOOSE x \in T : TRUE

(* A sum of the sizes of every set of places. *)
Sums(en) ==
  {g \in [SUBSET Id -> Nat] :
     \A T \in SUBSET Id : g[T] = IF T = {} THEN 0 ELSE en[some(T)].size + g[T \ {some(T)}]}

(* Types of the fields of an entry. *)
LEMMA SizeType ==
  ASSUME NEW en \in [Id -> Entry], NEW id \in Id
  PROVE  en[id].size \in Nat /\ en[id].size \in Sizes \cup {0} /\ en[id].url \in Url \cup {NULL}
<1>1. en[id] \in Entry
  OBVIOUS
<1>2. en[id].size \in Sizes \cup {0} /\ en[id].url \in Url \cup {NULL}
  BY <1>1 DEF Entry
<1>3. Sizes \cup {0} \subseteq Nat
  BY CapacityAssumption
<1>4. en[id].size \in Nat
  BY <1>2, <1>3
<1> QED BY <1>2, <1>4

(* The places are finitely many. *)
LEMMA FiniteId == /\ IsFiniteSet(Id) /\ Cardinality(Id) = max_entries
                  /\ \A T \in SUBSET Id : IsFiniteSet(T) /\ Cardinality(T) \in 0 .. max_entries
<1>1. max_entries \in Nat \ {0} /\ Id = 0 .. max_entries - 1
  BY WidthType
<1>2. IsFiniteSet(Id) /\ Cardinality(Id) = max_entries
  <2> DEFINE m == max_entries - 1
  <2>1. m \in Int /\ ~(0 > m) /\ m - 0 + 1 = max_entries /\ Id = 0 .. m
    BY <1>1
  <2> HIDE DEF m
  <2> QED BY <2>1, FS_Interval
<1>3. ASSUME NEW T \in SUBSET Id PROVE IsFiniteSet(T) /\ Cardinality(T) \in 0 .. max_entries
  <2>1. IsFiniteSet(T) /\ Cardinality(T) <= Cardinality(Id)
    BY <1>2, FS_Subset
  <2>2. Cardinality(T) \in Nat
    BY <2>1, FS_CardinalityType
  <2> QED BY <2>1, <2>2, <1>2
<1> QED BY <1>2, <1>3

(* Such sums exist. *)
LEMMA SumsExist ==
  ASSUME NEW en \in [Id -> Entry]
  PROVE  Sums(en) # {}
<1> DEFINE G == [SUBSET Id -> Nat]
           add(g) == [T \in SUBSET Id |-> IF T = {} THEN 0 ELSE en[some(T)].size + g[T \ {some(T)}]]
           F == [g \in G |-> add(g)]
           g0 == [T \in SUBSET Id |-> 0]
           N == max_entries + 1
           I == [n \in Nat |-> {g \in G : \A T \in SUBSET Id : Cardinality(T) < n => add(g)[T] = g[T]}]
<1>0. N \in Nat /\ max_entries \in Nat
  BY WidthType
<1>1. \A T \in SUBSET Id : T # {} => some(T) \in T /\ T \ {some(T)} \in SUBSET Id
  BY DEF some
<1>2. g0 \in G
  OBVIOUS
<1>3. ASSUME NEW g \in G PROVE add(g) \in G
  <2>1. \A T \in SUBSET Id : T # {} => en[some(T)].size \in Nat /\ g[T \ {some(T)}] \in Nat
    BY <1>1, SizeType
  <2> QED BY <2>1
<1>4. F \in [G -> G]
  BY <1>3
<1>5. PICK f \in [0 .. N -> G] : f[0] = g0 /\ \A i \in 0 .. N - 1 : f[i + 1] = F[f[i]]
  <2> HIDE DEF F, G, g0, N
  <2>1. Runs(G, F, g0, N) # {}
    BY <1>0, <1>2, <1>4, LoopExists
  <2> QED BY <2>1 DEF Runs
<1>6. f[0] \in I[0]
  <2>1. \A T \in SUBSET Id : Cardinality(T) \in Nat
    BY FiniteId, <1>0
  <2>2. f[0] \in G
    BY <1>2, <1>5
  <2> HIDE DEF add, G
  <2> QED BY <2>1, <2>2
<1>7. ASSUME NEW n \in 0 .. N - 1, f[n] \in I[n] PROVE f[n + 1] \in I[n + 1]
  <2> DEFINE g == f[n]
             r == add(g)
  <2>1. g \in G /\ n \in Nat /\ n + 1 \in Nat /\ \A T \in SUBSET Id : Cardinality(T) < n => r[T] = g[T]
    <3>1. n \in Nat /\ n + 1 \in Nat
      BY <1>0
    <3> HIDE DEF add, G, N
    <3>2. g \in {p \in G : \A T \in SUBSET Id : Cardinality(T) < n => add(p)[T] = p[T]}
      BY <3>1, <1>7
    <3> QED BY <3>1, <3>2
  <2>2. f[n + 1] = r /\ r \in G
    BY <1>3, <1>5, <2>1
  <2>3. ASSUME NEW T \in SUBSET Id, Cardinality(T) < n + 1 PROVE add(r)[T] = r[T]
    <3>1. CASE T = {}
      BY <3>1
    <3>2. CASE T # {}
      <4> DEFINE c == some(T)
                 U == T \ {c}
      <4>1. c \in T /\ U \in SUBSET Id
        BY <3>2, <1>1
      <4>2. Cardinality(U) < n
        <5>1. IsFiniteSet(T) /\ Cardinality(T) \in Nat
          BY FiniteId, <1>0
        <5>2. Cardinality(T \ {c}) = Cardinality(T) - 1
          BY <5>1, <4>1, FS_RemoveElement
        <5> QED BY <5>1, <5>2, <2>1, <2>3
      <4>3. r[U] = g[U]
        BY <4>1, <4>2, <2>1
      <4>4. add(r)[T] = en[c].size + r[U] /\ r[T] = en[c].size + g[U]
        BY <3>2
      <4> QED BY <4>3, <4>4
    <3> QED BY <3>1, <3>2
  <2> HIDE DEF r, add, G
  <2> QED BY <2>1, <2>2, <2>3
<1> DEFINE g == f[N]
<1>8. g \in I[N]
  <2> HIDE DEF I, N, g
  <2>1. \A n \in 0 .. N : f[n] \in I[n]
    BY <1>0, <1>6, <1>7, LoopInvariant
  <2> QED BY <2>1, <1>0 DEF g
<1>9. g \in G /\ \A T \in SUBSET Id : Cardinality(T) < N => add(g)[T] = g[T]
  BY <1>0, <1>8
<1> HIDE DEF g
<1>10. \A T \in SUBSET Id : add(g)[T] = g[T]
  <2>1. \A T \in SUBSET Id : Cardinality(T) < N
    BY FiniteId, <1>0
  <2> HIDE DEF add
  <2> QED BY <2>1, <1>9
<1> QED BY <1>9, <1>10 DEF Sums

(* The sum of MapThenSumSet is one. *)
LEMMA TotalSums ==
  ASSUME NEW en \in [Id -> Entry]
  PROVE  \E g \in Sums(en) : Total(en) = g[Id]
<1> DEFINE Q(p) == p = [T \in SUBSET Id |-> IF T = {} THEN 0 ELSE en[some(T)].size + p[T \ {some(T)}]]
           g == CHOOSE p : Q(p)
<1>1. Total(en) = g[Id]
  BY DEF Total, MapThenSumSet, MapThenFoldSet, some
<1>2. Q(g)
  <2>1. PICK p \in Sums(en) : TRUE
    BY SumsExist
  <2>2. Q(p)
    BY <2>1 DEF Sums
  <2> HIDE DEF Q
  <2> QED BY <2>2, Zenon
<1>3. g \in Sums(en)
  <2>1. PICK p \in Sums(en) : TRUE
    BY SumsExist
  <2> HIDE DEF g
  <2> DEFINE bad == {n \in Nat : \E T \in SUBSET Id : Cardinality(T) = n /\ g[T] \notin Nat}
  <2>2. bad = {}
    <3> SUFFICES ASSUME bad # {} PROVE FALSE
      OBVIOUS
    <3>1. PICK n \in bad : \A m \in bad : n <= m
      <4>1. bad \in SUBSET Nat
        OBVIOUS
      <4> HIDE DEF bad
      <4> QED BY <4>1, LeastNumber
    <3>2. PICK T \in SUBSET Id : Cardinality(T) = n /\ g[T] \notin Nat
      BY <3>1
    <3>3. T # {}
      BY <1>2, <3>2
    <3> DEFINE c == some(T)
               U == T \ {c}
    <3>4. c \in T /\ U \in SUBSET Id /\ c \in Id
      BY <3>3 DEF some
    <3>5. Cardinality(U) = n - 1 /\ n - 1 \in Nat /\ n \in Nat
      <4>1. IsFiniteSet(T) /\ IsFiniteSet(U) /\ Cardinality(T) \in Nat /\ Cardinality(U) \in Nat
        BY <3>4, FiniteId, WidthType
      <4>2. Cardinality(T \ {c}) = Cardinality(T) - 1
        BY <4>1, <3>4, FS_RemoveElement
      <4> QED BY <4>1, <4>2, <3>2
    <3>6. g[U] \in Nat
      BY <3>1, <3>4, <3>5
    <3>7. g[T] = en[c].size + g[U]
      BY <1>2, <3>3
    <3>8. en[c].size \in Nat
      BY <3>4, SizeType
    <3> QED BY <3>2, <3>6, <3>7, <3>8
  <2>3. \A T \in SUBSET Id : g[T] \in Nat
    <3>1. \A T \in SUBSET Id : Cardinality(T) \in Nat
      BY FiniteId, WidthType
    <3> QED BY <3>1, <2>2
  <2> QED BY <2>3, <1>2 DEF Sums
<1> QED BY <1>1, <1>3

(* A change of one entry changes the sum by as much. *)
LEMMA TotalUpdate ==
  ASSUME NEW en \in [Id -> Entry], NEW em \in [Id -> Entry], NEW x \in Id,
         \A id \in Id \ {x} : em[id].size = en[id].size
  PROVE  Total(em) = Total(en) + em[x].size - en[x].size /\ Total(en) \in Nat
<1>1. PICK g \in Sums(en) : Total(en) = g[Id]
  BY TotalSums
<1>2. PICK h \in Sums(em) : Total(em) = h[Id]
  BY TotalSums
<1> DEFINE a == en[x].size
           b == em[x].size
           P(T) == h[T] = g[T] + (IF x \in T THEN b - a ELSE 0)
           J == {n \in Nat : \A T \in SUBSET Id : Cardinality(T) = n => P(T)}
<1>3. g \in [SUBSET Id -> Nat] /\ h \in [SUBSET Id -> Nat] /\ a \in Nat /\ b \in Nat /\ max_entries \in Nat
  BY SizeType, WidthType DEF Sums
<1>4. \A T \in SUBSET Id : IsFiniteSet(T) /\ Cardinality(T) \in 0 .. max_entries
  BY FiniteId
<1>5. 0 \in J
  <2>1. ASSUME NEW T \in SUBSET Id, Cardinality(T) = 0 PROVE P(T)
    <3>1. T = {}
      BY <2>1, <1>4, FS_EmptySet
    <3>2. g[T] = 0 /\ h[T] = 0
      BY <3>1 DEF Sums
    <3> QED BY <3>1, <3>2
  <2> QED BY <2>1
<1>6. ASSUME NEW n \in 0 .. max_entries - 1, n \in J PROVE n + 1 \in J
  <2>1. ASSUME NEW T \in SUBSET Id, Cardinality(T) = n + 1 PROVE P(T)
    <3>1. T # {}
      <4>1. n + 1 # 0
        BY <1>3
      <4> HIDE DEF P, J
      <4> QED BY <4>1, <2>1, FS_EmptySet
    <3> DEFINE c == some(T)
               U == T \ {c}
    <3>2. c \in T /\ c \in Id /\ U \in SUBSET Id
      BY <3>1 DEF some
    <3>3. Cardinality(U) = n
      <4>1. IsFiniteSet(T) /\ Cardinality(T) \in Nat
        BY <1>3, <1>4
      <4>2. Cardinality(T \ {c}) = Cardinality(T) - 1
        BY <4>1, <3>2, FS_RemoveElement
      <4> QED BY <4>2, <2>1, <1>6
    <3>4. P(U)
      BY <3>2, <3>3, <1>6
    <3>5. g[T] = en[c].size + g[U] /\ h[T] = em[c].size + h[U]
      BY <3>1 DEF Sums
    <3>6. g[U] \in Nat /\ h[U] \in Nat /\ g[T] \in Nat /\ h[T] \in Nat /\ en[c].size \in Nat /\ em[c].size \in Nat
      BY <3>2, <1>3, SizeType
    <3>7. CASE c = x
      <4>1. x \in T /\ x \notin U
        BY <3>2, <3>7
      <4>2. h[U] = g[U]
        BY <4>1, <3>4, <3>6
      <4> HIDE DEF c, U
      <4> QED BY <4>1, <4>2, <3>5, <3>6, <3>7
    <3>8. CASE c # x
      <4>1. (x \in T <=> x \in U) /\ em[c].size = en[c].size
        BY <3>2, <3>8
      <4> HIDE DEF c, U
      <4> QED BY <4>1, <3>4, <3>5, <3>6, <1>3
    <3> QED BY <3>7, <3>8
  <2>2. n + 1 \in Nat
    OBVIOUS
  <2> HIDE DEF P
  <2> QED BY <2>1, <2>2
<1>7. max_entries \in J
  <2> HIDE DEF J
  <2>1. \A n \in 0 .. max_entries : n \in J
    BY <1>3, <1>5, <1>6, Induction
  <2> QED BY <2>1, <1>3
<1>8. P(Id)
  BY <1>7, FiniteId
<1> QED BY <1>1, <1>2, <1>3, <1>8

(* The sum over free places is 0. *)
LEMMA TotalEmpty ==
  ASSUME NEW en \in [Id -> Entry], \A id \in Id : en[id].size = 0
  PROVE  Total(en) = 0
<1>1. PICK g \in Sums(en) : Total(en) = g[Id]
  BY TotalSums
<1> DEFINE J == {n \in Nat : \A T \in SUBSET Id : Cardinality(T) = n => g[T] = 0}
<1>3. g \in [SUBSET Id -> Nat] /\ max_entries \in Nat
  BY WidthType DEF Sums
<1>4. \A T \in SUBSET Id : IsFiniteSet(T) /\ Cardinality(T) \in 0 .. max_entries
  BY FiniteId
<1>5. 0 \in J
  <2>1. ASSUME NEW T \in SUBSET Id, Cardinality(T) = 0 PROVE g[T] = 0
    <3>1. T = {}
      BY <2>1, <1>4, FS_EmptySet
    <3> QED BY <3>1 DEF Sums
  <2> QED BY <2>1
<1>6. ASSUME NEW n \in 0 .. max_entries - 1, n \in J PROVE n + 1 \in J
  <2>1. ASSUME NEW T \in SUBSET Id, Cardinality(T) = n + 1 PROVE g[T] = 0
    <3>1. T # {}
      <4>1. n + 1 # 0
        BY <1>3
      <4> HIDE DEF J
      <4> QED BY <4>1, <2>1, FS_EmptySet
    <3> DEFINE c == some(T)
               U == T \ {c}
    <3>2. c \in T /\ c \in Id /\ U \in SUBSET Id
      BY <3>1 DEF some
    <3>3. Cardinality(U) = n
      <4>1. IsFiniteSet(T) /\ Cardinality(T) \in Nat
        BY <1>3, <1>4
      <4>2. Cardinality(T \ {c}) = Cardinality(T) - 1
        BY <4>1, <3>2, FS_RemoveElement
      <4> QED BY <4>2, <2>1, <1>6
    <3>4. g[U] = 0
      BY <3>2, <3>3, <1>6
    <3>5. g[T] = en[c].size + g[U] /\ en[c].size = 0
      BY <3>1, <3>2 DEF Sums
    <3> QED BY <3>4, <3>5
  <2>2. n + 1 \in Nat
    OBVIOUS
  <2> QED BY <2>1, <2>2
<1>7. max_entries \in J
  <2> HIDE DEF J
  <2>1. \A n \in 0 .. max_entries : n \in J
    BY <1>3, <1>5, <1>6, Induction
  <2> QED BY <2>1, <1>3
<1> QED BY <1>1, <1>7, FiniteId

-----------------------------------------------------------------------------
(* The bands. *)

(* Multiplication by a positive number. *)
LEMMA TimesAtLeast ==
  ASSUME NEW x \in Nat, NEW y \in Nat \ {0} PROVE x * y >= x /\ x * y \in Nat
<1>1. y = 1 + (y - 1) /\ y - 1 \in Nat
  OBVIOUS
<1> DEFINE z == y - 1
<1>2. x * z \in Nat
  <2> HIDE DEF z
  <2>1. z \in Nat
    BY <1>1 DEF z
  <2> QED BY <2>1
<1>3. x * y = x + x * z
  BY <1>1
<1> HIDE DEF z
<1> QED BY <1>2, <1>3

(* get_band finds a band that the size fits in, and the first such. *)
LEMMA GetBand ==
  ASSUME NEW size \in Nat, size < shift[SizeBits]
  PROVE  \E m \in 1 .. SizeBits : /\ get_band(size) = m - 1 /\ size < shift[m] * min_entry_size
                                  /\ \A i \in 1 .. SizeBits : size < shift[i] * min_entry_size => m <= i
<1> DEFINE T == {i \in 1 .. SizeBits : size < shift[i] * min_entry_size}
<1>1. SizeBits \in 1 .. SizeBits /\ min_entry_size \in Nat \ {0} /\ shift[SizeBits] \in Nat
  BY CapacityAssumption, BoundsAssumption, ShiftDef
<1>2. SizeBits \in T
  <2>1. shift[SizeBits] * min_entry_size >= shift[SizeBits] /\ shift[SizeBits] * min_entry_size \in Nat
    BY <1>1, TimesAtLeast
  <2>2. size < shift[SizeBits] * min_entry_size
    BY <2>1, <1>1
  <2> QED BY <2>2, <1>1
<1>3. T \in SUBSET Nat
  OBVIOUS
<1>4. get_band(size) = Min(T) - 1
  BY DEF get_band
<1> HIDE DEF T
<1>5. Min(T) \in T /\ \A i \in T : Min(T) <= i
  BY <1>2, <1>3, MinOf
<1> QED BY <1>4, <1>5 DEF T

(* All sizes are at most the largest, which a size_t holds. *)
LEMMA LargestSize ==
  /\ Max(Sizes) \in Nat /\ Max(Sizes) < shift[SizeBits]
  /\ \A size \in Sizes : size \in Nat \ {0} /\ size <= Max(Sizes)
<1>1. /\ Sizes \in SUBSET Nat /\ Sizes # {} /\ shift[SizeBits] \in Nat
      /\ \A size \in Sizes : size \in Nat \ {0} /\ size < shift[SizeBits]
  BY CapacityAssumption, BoundsAssumption, SizeBitsAssumption, ShiftDef
<1>2. \A size \in Sizes : size <= shift[SizeBits]
  BY <1>1
<1>3. Max(Sizes) \in Sizes /\ \A size \in Sizes : size <= Max(Sizes)
  BY <1>1, <1>2, MaxOf
<1> QED BY <1>1, <1>3

(* numlevels of the driver: a band that the largest value fits in. *)
LEMMA NumBands ==
  /\ num_bands \in 1 .. SizeBits + 1
  /\ min_entry_size * shift[num_bands - 1] >= Max(Sizes)
<1> DEFINE T == {i \in 1 .. SizeBits + 1 : min_entry_size * shift[i - 1] >= Max(Sizes)}
<1>1. /\ SizeBits + 1 \in 1 .. SizeBits + 1 /\ min_entry_size \in Nat \ {0} /\ shift[SizeBits] \in Nat
      /\ (SizeBits + 1) - 1 = SizeBits
  BY CapacityAssumption, BoundsAssumption, ShiftDef
<1>2. SizeBits + 1 \in T
  <2>1. shift[SizeBits] * min_entry_size >= shift[SizeBits] /\ shift[SizeBits] * min_entry_size \in Nat
    BY <1>1, TimesAtLeast
  <2>2. min_entry_size * shift[SizeBits] = shift[SizeBits] * min_entry_size
    BY <1>1
  <2>3. min_entry_size * shift[SizeBits] >= Max(Sizes)
    BY <2>1, <2>2, <1>1, LargestSize
  <2> QED BY <2>3, <1>1
<1>3. T \in SUBSET Nat
  BY BoundsAssumption
<1>4. num_bands = Min(T)
  BY DEF num_bands
<1> HIDE DEF T
<1>5. Min(T) \in T
  BY <1>2, <1>3, MinOf
<1> QED BY <1>4, <1>5 DEF T

(* gtcache_init allocates the band of every size up to the largest. *)
LEMMA BandInit ==
  ASSUME NEW size \in Nat, size <= Max(Sizes)
  PROVE  get_band(size) \in 0 .. num_bands - 1 /\ size < shift[SizeBits]
<1>1. size < shift[SizeBits] /\ shift[SizeBits] \in Nat /\ SizeBits \in Nat
  BY LargestSize, ShiftDef, BoundsAssumption
<1>2. PICK m \in 1 .. SizeBits : /\ get_band(size) = m - 1
                                 /\ \A i \in 1 .. SizeBits : size < shift[i] * min_entry_size => m <= i
  BY <1>1, GetBand
<1>3. m <= num_bands
  <2> DEFINE n == num_bands
  <2>1. n \in 1 .. SizeBits + 1 /\ min_entry_size * shift[n - 1] >= Max(Sizes)
    BY NumBands
  <2> HIDE DEF n
  <2>2. CASE n = SizeBits + 1
    BY <2>2, <1>1 DEF n
  <2>3. CASE n \in 1 .. SizeBits
    <3> DEFINE k == n - 1
    <3>1. k \in 0 .. SizeBits /\ k + 1 = n
      BY <2>3, <1>1
    <3> HIDE DEF k
    <3>2. shift[n] = 2 * shift[k] /\ shift[k] \in Nat \ {0}
      BY <3>1, <1>1, ShiftDef
    <3> DEFINE y == min_entry_size * shift[k]
    <3>3. y \in Nat \ {0} /\ shift[n] * min_entry_size = 2 * y
      <4>1. min_entry_size \in Nat \ {0}
        BY CapacityAssumption
      <4>2. min_entry_size * shift[k] >= min_entry_size /\ min_entry_size * shift[k] \in Nat
        BY <4>1, <3>2, TimesAtLeast
      <4> QED BY <4>1, <4>2, <3>2
    <3>4. y >= Max(Sizes)
      BY <2>1 DEF k
    <3> HIDE DEF y
    <3>5. size < 2 * y
      BY <3>3, <3>4, LargestSize
    <3> QED BY <3>3, <3>5, <2>3, <1>2 DEF n
  <2> QED BY <2>1, <2>2, <2>3, <1>1
<1> QED BY <1>1, <1>2, <1>3, NumBands

(* Every entry has a band. *)
LEMMA BandOf == ASSUME TypeInv, NEW size \in Sizes PROVE band_of(size) \in Band
  BY LargestSize, BandInit DEF band_of, Band, TypeInv

(* An entry of a larger band is larger. *)
LEMMA LargerBand ==
  ASSUME NEW v \in Nat, NEW e \in Nat, v < shift[SizeBits], e < shift[SizeBits], get_band(v) > get_band(e)
  PROVE  v > e
<1>1. PICK m \in 1 .. SizeBits : get_band(e) = m - 1 /\ e < shift[m] * min_entry_size
  BY GetBand
<1>2. PICK n \in 1 .. SizeBits : /\ get_band(v) = n - 1
                                 /\ \A i \in 1 .. SizeBits : v < shift[i] * min_entry_size => n <= i
  BY GetBand
<1>3. n > m
  BY <1>1, <1>2
<1>4. ~(v < shift[m] * min_entry_size)
  BY <1>2, <1>3
<1>5. shift[m] * min_entry_size \in Int
  BY ShiftDef, BoundsAssumption, CapacityAssumption
<1> QED BY <1>1, <1>4, <1>5

-----------------------------------------------------------------------------
(* What the invariant says of the structures. *)

LEMMA Occupied ==
  ASSUME IInv
  PROVE  /\ num_entries \in 0 .. max_entries
         /\ num_entries < max_entries => \E id \in Id : entries[id].url = NULL
<1> DEFINE T == {id \in Id : entries[id].size > 0}
<1>1. num_entries = Cardinality(T) /\ T \in SUBSET Id /\ max_entries \in Nat
  BY WidthType DEF IInv, CountInv
<1>2. Cardinality(T) \in 0 .. max_entries
  BY <1>1, FiniteId
<1>3. ASSUME \A id \in Id : entries[id].url # NULL PROVE num_entries = max_entries
  <2>1. \A id \in Id : entries[id].size \in Nat
    BY SizeType DEF IInv, TypeInv
  <2>2. T = Id
    BY <2>1, <1>3 DEF IInv, EntriesInv
  <2> QED BY <2>2, <1>1, FiniteId
<1> QED BY <1>1, <1>2, <1>3

(* The table has a slot more than there can be keys. *)
LEMMA FreeSlot == ASSUME IInv PROVE Free(tbl) # {}
<1> SUFFICES ASSUME Free(tbl) = {} PROVE FALSE
  OBVIOUS
<1>1. tbl \in Table /\ Tidy(tbl) /\ NULL \notin Id /\ NULL \notin Url
  BY NullAssumption DEF IInv, TableInv, Tidy
<1>2. \A j \in H!Slot : tbl.keys[j] \in Url /\ tbl.items[j] \in Id /\ j \in Full(tbl)
  BY <1>1 DEF Free, Full, Tidy, Table
<1>3. tbl.items \in [H!Slot -> Id]
  BY <1>1, <1>2 DEF Table
<1>4. IsFiniteSet(H!Slot) /\ Cardinality(H!Slot) = Width
  <2> DEFINE m == Width - 1
  <2>1. m \in Int /\ ~(0 > m) /\ m - 0 + 1 = Width /\ H!Slot = 0 .. m
    BY WidthType
  <2> HIDE DEF m
  <2> QED BY <2>1, FS_Interval
<1>5. Cardinality(Id) < Cardinality(H!Slot) /\ IsFiniteSet(Id)
  BY <1>4, FiniteId, WidthType DEF Width
<1>6. PICK x \in H!Slot, y \in H!Slot : x # y /\ tbl.items[x] = tbl.items[y]
  <2> DEFINE f == tbl.items
  <2>1. f \in [H!Slot -> Id]
    BY <1>3
  <2> HIDE DEF f
  <2>2. \E x, y \in H!Slot : x # y /\ f[x] = f[y]
    BY <2>1, <1>4, <1>5, FS_PigeonHole
  <2> QED BY <2>2 DEF f
<1>7. entries[tbl.items[x]].url = tbl.keys[x] /\ entries[tbl.items[y]].url = tbl.keys[y]
  BY <1>2 DEF Has, IInv, TableInv
<1> QED BY <1>1, <1>2, <1>6, <1>7 DEF Tidy

(* hshtbl_get finds the place of a URL. *)
LEMMA PlaceDef ==
  ASSUME IInv, NEW u \in Url
  PROVE  \/ place(u) \in Id /\ Cached(u) = {place(u)} /\ entries[place(u)].url = u
         \/ place(u) = NULL /\ Cached(u) = {}
<1>1. Tidy(tbl) /\ Reached(tbl, hv) /\ hv \in [Url -> H!Slot] /\ Free(tbl) # {}
  BY FreeSlot DEF IInv, TableInv, TypeInv
<1>2. \A id \in Id : Has(tbl, u, id) <=> entries[id].url = u
  BY DEF IInv, TableInv
<1>3. CASE \E id \in Id : Has(tbl, u, id) /\ H!hshtbl_get(tbl, hv, u) = id
  <2>1. place(u) \in Id /\ entries[place(u)].url = u
    BY <1>2, <1>3 DEF place
  <2>2. Cached(u) = {place(u)}
    BY <2>1, NullAssumption DEF Cached, IInv, EntriesInv
  <2> QED BY <2>1, <2>2
<1>4. CASE (\A j \in H!Slot : tbl.keys[j] # u) /\ H!hshtbl_get(tbl, hv, u) = NULL
  <2>1. Cached(u) = {}
    BY <1>2, <1>4 DEF Cached, Has
  <2> QED BY <2>1, <1>4 DEF place
<1> QED BY <1>1, <1>3, <1>4, GetDef

(* The queue of a band has a place for every index at most. *)
LEMMA QueueLength ==
  ASSUME NEW q, NEW D, Holds(q, D)
  PROVE  Len(q.pq) \in 0 .. max_entries
<1> DEFINE n == Len(q.pq)
           f == [k \in 1 .. n |-> q.pq[k]]
<1>1. n \in Nat /\ \A k \in 1 .. n : q.pq[k] \in Id
  BY DEF Holds, Queue
<1>2. f \in Injection(1 .. n, Id)
  <2>1. f \in [1 .. n -> Id]
    BY <1>1
  <2>2. \A i, j \in 1 .. n : f[i] = f[j] => i = j
    BY DEF Holds
  <2> QED BY <2>1, <2>2 DEF Injection, IsInjective
<1>3. Cardinality(1 .. n) = n
  BY <1>1, FS_Interval
<1>4. Cardinality(1 .. n) <= Cardinality(Id)
  <2> HIDE DEF f, n
  <2> QED BY <1>2, FiniteId, FS_Injection
<1> QED BY <1>1, <1>3, <1>4, FiniteId

-----------------------------------------------------------------------------
(* The invariant implies the properties. *)

LEMMA TypeOKHolds == ASSUME IInv PROVE TypeOK
<1>1. tbl.N \in 0 .. max_entries
  BY Occupied DEF IInv, TableInv
<1>2. ASSUME NEW b \in Band
      PROVE  queues[b].pq \in Seq(Id) /\ queues[b].qp \in [Id -> {-1} \cup 1 .. max_entries]
  <2>1. Holds(queues[b], InBand(b)) /\ \A id \in Id \ InBand(b) : queues[b].qp[id] = -1
    BY DEF IInv, QueuesInv
  <2>2. Len(queues[b].pq) \in 0 .. max_entries /\ max_entries \in Nat
    BY <2>1, QueueLength, WidthType
  <2>3. queues[b].pq \in Seq(Id) /\ queues[b].qp \in [Id -> Int]
    BY <2>1 DEF Holds, Queue
  <2>4. \A id \in Id : queues[b].qp[id] \in {-1} \cup 1 .. max_entries
    BY <2>1, <2>2 DEF Holds
  <2> QED BY <2>3, <2>4
<1>3. DOMAIN queues = Band
  BY DEF IInv, TypeInv
<1> QED BY <1>1, <1>2, <1>3 DEF TypeOK, IInv, TypeInv, Entry

LEMMA StructuresAgreeHolds == ASSUME IInv PROVE StructuresAgree
<1>1. ASSUME NEW u \in Url
      PROVE  \/ Cached(u) = {} /\ place(u) = NULL
             \/ Cached(u) = {place(u)}
  BY PlaceDef
<1>2. ASSUME NEW id \in Id, NEW b \in Band
      PROVE  LET queued == {k \in DOMAIN queues[b].pq : queues[b].pq[k] = id} IN
             IF entries[id].url # NULL /\ b = band_of(entries[id].size)
               THEN queued = {queues[b].qp[id]}
               ELSE queued = {} /\ queues[b].qp[id] = -1
  <2> DEFINE q == queues[b]
             queued == {k \in 1 .. Len(q.pq) : q.pq[k] = id}
  <2>1. Holds(q, InBand(b)) /\ \A i \in Id \ InBand(b) : q.qp[i] = -1
    BY DEF IInv, QueuesInv
  <2>2. DOMAIN q.pq = 1 .. Len(q.pq)
    BY <2>1 DEF Holds, Queue
  <2>3. id \in InBand(b) <=> (entries[id].url # NULL /\ b = band_of(entries[id].size))
    BY DEF InBand
  <2> HIDE DEF q
  <2>4. CASE id \in InBand(b)
    <3>1. queued = {q.qp[id]}
      BY <2>1, <2>4 DEF Holds
    <3> QED BY <3>1, <2>2, <2>3, <2>4 DEF q
  <2>5. CASE id \notin InBand(b)
    <3>1. queued = {} /\ q.qp[id] = -1
      BY <2>1, <2>5 DEF Holds
    <3> QED BY <3>1, <2>2, <2>3, <2>5 DEF q
  <2> QED BY <2>4, <2>5
<1>3. ASSUME NEW id \in Id
      PROVE  Cardinality(InFreeList(id)) = (IF entries[id].url = NULL THEN 1 ELSE 0)
  <2>1. InFreeList(id) = {k \in 1 .. Len(free_ids) : free_ids[k] = id}
    BY DEF InFreeList, IInv, TypeInv
  <2>2. CASE entries[id].url = NULL
    <3>1. PICK k \in 1 .. Len(free_ids) : free_ids[k] = id
      BY <2>2 DEF IInv, FreeInv
    <3>2. InFreeList(id) = {k}
      BY <2>1, <3>1 DEF IInv, FreeInv
    <3> QED BY <2>2, <3>2, FS_Singleton
  <2>3. CASE entries[id].url # NULL
    <3>1. InFreeList(id) = {}
      BY <2>1, <2>3 DEF IInv, FreeInv
    <3> QED BY <2>3, <3>1, FS_EmptySet
  <2> QED BY <2>2, <2>3
<1>4. tbl.N = num_entries
  BY DEF IInv, TableInv
<1> QED BY <1>1, <1>2, <1>3, <1>4 DEF StructuresAgree

LEMMA MemoryBoundedHolds == ASSUME IInv PROVE MemoryBounded
  BY DEF MemoryBounded, IInv, CountInv, Total

LEMMA BandAllocatedHolds == ASSUME IInv PROVE BandAllocated
<1> SUFFICES ASSUME policy = "lrumin", call # NULL, need_eviction(call.size)
             PROVE  get_band(call.eviction_size) \in Band
  BY DEF BandAllocated
<1>1. call.size \in Sizes /\ call.eviction_size \in 0 .. shift[SizeBits] - 1
  BY DEF IInv, TypeInv
<1>2. call.eviction_size <= call.size
  BY DEF IInv, CallInv
<1>3. call.eviction_size \in Nat /\ call.eviction_size <= Max(Sizes)
  BY <1>1, <1>2, LargestSize
<1> QED BY <1>3, BandInit DEF Band

-----------------------------------------------------------------------------
(* The initial states. *)

(* A queue as indexminpq_init leaves it. *)
LEMMA FreshQueue ==
  /\ EmptyPQ(Id) \in Queue /\ Holds(EmptyPQ(Id), {}) /\ Ordered(EmptyPQ(Id))
  /\ \A id \in Id : EmptyPQ(Id).qp[id] = -1 /\ EmptyPQ(Id).keys[id] = 0
<1> DEFINE q == EmptyPQ(Id)
<1>1. q.pq = <<>> /\ q.qp = [i \in Id |-> -1] /\ q.keys = [i \in Id |-> 0] /\ q = [pq |-> q.pq, qp |-> q.qp, keys |-> q.keys]
  BY DEF EmptyPQ
<1> HIDE DEF q
<1>2. q \in Queue /\ Len(q.pq) = 0
  <2>1. q.pq \in Seq(Id) /\ Len(q.pq) = 0
    BY <1>1
  <2>2. q.qp \in [Id -> Int] /\ q.keys \in [Id -> Nat]
    BY <1>1
  <2> QED BY <2>1, <2>2, <1>1 DEF Queue
<1> QED BY <1>1, <1>2 DEF Holds, Ordered, q

(* A table as hshtbl_init leaves it. *)
LEMMA FreshTable ==
  /\ Tidy(H!EmptyTable) /\ H!EmptyTable.N = 0
  /\ \A w : Reached(H!EmptyTable, w)
  /\ \A u \in Url, id \in Id : ~Has(H!EmptyTable, u, id)
<1> DEFINE h == H!EmptyTable
<1>1. /\ h \in Table /\ h.N = 0
      /\ \A j \in H!Slot : h.keys[j] = NULL /\ h.items[j] = NULL
  BY DEF H!EmptyTable, Table
<1> HIDE DEF h
<1>2. Full(h) = {}
  BY <1>1 DEF Full
<1> QED BY <1>1, <1>2, NullAssumption DEF Tidy, Reached, Has, h

(* An empty cache satisfies the invariant. *)
FreshCache ==
  /\ tbl = Fresh.tbl /\ queues = Fresh.queues
  /\ free_ids = Fresh.free_ids /\ entries = Fresh.entries
  /\ num_entries = 0 /\ mem_used = 0

Typed ==
  /\ policy \in {"lru", "lfu", "rnd", "lrumin"} /\ hv \in [Url -> H!Slot]
  /\ now \in 1 .. MaxTime /\ worth \in [Url -> Nat]

LEMMA FreshInv == FreshCache /\ call = NULL /\ Typed => IInv /\ OrderInv
<1> SUFFICES ASSUME FreshCache, call = NULL, Typed PROVE IInv /\ OrderInv
  OBVIOUS
<1>1. /\ tbl = H!EmptyTable /\ queues = [b \in Band |-> EmptyPQ(Id)]
      /\ free_ids = [i \in 1 .. max_entries |-> i - 1] /\ entries = [id \in Id |-> FreeEntry]
      /\ num_entries = 0 /\ mem_used = 0
  BY DEF FreshCache, Fresh
<1>2. max_entries \in Nat \ {0} /\ Id = 0 .. max_entries - 1
  BY WidthType
<1>3. \A id \in Id : entries[id].url = NULL /\ entries[id].size = 0
  BY <1>1 DEF FreeEntry
<1>4. \A b \in Band : InBand(b) = {} /\ queues[b] = EmptyPQ(Id)
  BY <1>1, <1>3 DEF InBand
<1>5. TypeInv
  <2>1. free_ids \in Seq(Id)
    BY <1>1, <1>2
  <2>2. entries \in [Id -> Entry]
    BY <1>1 DEF FreeEntry, Entry
  <2>3. queues \in [Band -> Queue]
    BY <1>1, FreshQueue
  <2> QED BY <1>1, <2>1, <2>2, <2>3 DEF TypeInv, Typed
<1>6. EntriesInv
  BY <1>3 DEF EntriesInv
<1>7. TableInv
  BY <1>1, <1>3, FreshTable, NullAssumption DEF TableInv
<1>8. QueuesInv
  BY <1>4, FreshQueue DEF QueuesInv
<1>9. FreeInv
  <2>1. Len(free_ids) = max_entries /\ \A k \in 1 .. max_entries : free_ids[k] = k - 1
    BY <1>1, <1>2
  <2>2. \A i, j \in 1 .. Len(free_ids) : free_ids[i] = free_ids[j] => i = j
    BY <2>1, <1>2
  <2>3. ASSUME NEW id \in Id PROVE \E k \in 1 .. Len(free_ids) : free_ids[k] = id
    <3>1. id + 1 \in 1 .. max_entries /\ (id + 1) - 1 = id
      BY <1>2
    <3> QED BY <3>1, <2>1
  <2> QED BY <2>2, <2>3, <1>3 DEF FreeInv
<1>10. CountInv
  <2>1. {id \in Id : entries[id].size > 0} = {}
    BY <1>3
  <2>2. Total(entries) = 0
    BY <1>3, <1>5, TotalEmpty DEF TypeInv
  <2>3. num_entries = Cardinality({id \in Id : entries[id].size > 0})
    BY <2>1, <1>1, FS_EmptySet
  <2>4. mem_used = Total(entries) /\ mem_used <= capacity
    BY <2>2, <1>1, CapacityAssumption
  <2> QED BY <2>3, <2>4 DEF CountInv
<1>11. CallInv
  BY DEF CallInv
<1>12. OrderInv
  <2>1. 0 \in Key
    BY <1>5, BoundsAssumption DEF Key, TypeInv
  <2> QED BY <2>1, <1>4, FreshQueue DEF OrderInv
<1> QED BY <1>5, <1>6, <1>7, <1>8, <1>9, <1>10, <1>11, <1>12 DEF IInv

(* The caches start empty. *)
LEMMA InitInv == ASSUME Init PROVE IInv /\ OrderInv
<1>1. hv \in [Url -> H!Slot]
  BY HashesAssumption, WidthType DEF Init, Width
<1>2. 1 \in 1 .. MaxTime
  BY BoundsAssumption
<1> QED BY <1>1, <1>2, FreshInv DEF Init, FreshCache, Typed

-----------------------------------------------------------------------------
(* The steps. *)

(* The bands depend on the policy only. *)
LEMMA BandFrame == ASSUME policy' = policy PROVE Band' = Band /\ \A size : band_of(size)' = band_of(size)
  BY DEF Band, band_of

(* Adding or removing one place. *)
LEMMA SizesFrame ==
  ASSUME NEW x \in Id, NEW T \in SUBSET Id
  PROVE  /\ x \in T => Cardinality(T \ {x}) = Cardinality(T) - 1
         /\ x \notin T => Cardinality(T \cup {x}) = Cardinality(T) + 1
  BY FiniteId, FS_AddElement, FS_RemoveElement

(* One entry given up. *)
LEMMA EvictEntries ==
  ASSUME IInv, NEW id \in Id, entries[id].url # NULL,
         entries' = [entries EXCEPT ![id] = FreeEntry], policy' = policy
  PROVE  /\ entries' \in [Id -> Entry] /\ EntriesInv'
         /\ \A i \in Id : entries'[i] = IF i = id THEN FreeEntry ELSE entries[i]
         /\ \A b : InBand(b)' = InBand(b) \ {id}
         /\ Total(entries)' = Total(entries) - entries[id].size
         /\ Cardinality({i \in Id : entries[i].size > 0})' = Cardinality({i \in Id : entries[i].size > 0}) - 1
<1>0. entries \in [Id -> Entry] /\ EntriesInv
  BY DEF IInv, TypeInv
<1>1. FreeEntry \in Entry /\ FreeEntry.url = NULL /\ FreeEntry.size = 0
  BY DEF FreeEntry, Entry
<1>2. entries' \in [Id -> Entry] /\ \A i \in Id : entries'[i] = IF i = id THEN FreeEntry ELSE entries[i]
  BY <1>0, <1>1
<1>3. EntriesInv'
  BY <1>0, <1>1, <1>2 DEF EntriesInv
<1>4. \A b : InBand(b)' = InBand(b) \ {id}
  BY <1>1, <1>2, BandFrame DEF InBand
<1>5. Total(entries)' = Total(entries) - entries[id].size
  <2>1. entries'[id].size = 0 /\ \A i \in Id \ {id} : entries'[i].size = entries[i].size
    BY <1>1, <1>2
  <2>2. Total(entries)' = Total(entries')
    OBVIOUS
  <2> DEFINE em == entries'
  <2>3. em \in [Id -> Entry] /\ em[id].size = 0 /\ \A i \in Id \ {id} : em[i].size = entries[i].size
    BY <1>2, <2>1
  <2> HIDE DEF em
  <2>4. Total(em) = Total(entries) + em[id].size - entries[id].size /\ Total(entries) \in Nat
    BY <1>0, <2>3, TotalUpdate
  <2>5. entries[id].size \in Nat
    BY <1>0, SizeType
  <2>6. Total(em) = Total(entries) - entries[id].size
    BY <2>3, <2>4, <2>5
  <2> QED BY <2>2, <2>6 DEF em
<1>6. Cardinality({i \in Id : entries[i].size > 0})' = Cardinality({i \in Id : entries[i].size > 0}) - 1
  <2> DEFINE T == {i \in Id : entries[i].size > 0}
  <2>1. \A i \in Id : entries[i].size \in Nat
    BY <1>0, SizeType
  <2>2. id \in T /\ T \in SUBSET Id
    BY <2>1, <1>0 DEF EntriesInv
  <2>3. {i \in Id : entries'[i].size > 0} = T \ {id}
    BY <1>1, <1>2
  <2> HIDE DEF T
  <2>4. Cardinality(T \ {id}) = Cardinality(T) - 1
    BY <2>2, SizesFrame
  <2> QED BY <2>3, <2>4 DEF T
<1> QED BY <1>2, <1>3, <1>4, <1>5, <1>6

LEMMA EvictStep ==
  ASSUME IInv, NEW b \in Band, NEW id \in InBand(b), NEW q, Evict(b, id, q),
         Holds(q, InBand(b) \ {id}), q.qp[id] = -1,
         \A i \in Id \ InBand(b) : q.qp[i] = queues[b].qp[i],
         call' \in {NULL} \cup [url : Url, size : Sizes, eviction_size : 0 .. shift[SizeBits] - 1]
  PROVE  /\ TypeInv' /\ EntriesInv' /\ TableInv' /\ QueuesInv' /\ FreeInv' /\ CountInv'
         /\ entries' \in [Id -> Entry] /\ \A i \in Id : entries'[i] = IF i = id THEN FreeEntry ELSE entries[i]
<1> DEFINE u == entries[id].url
<1>0. /\ id \in Id /\ u \in Url /\ NULL \notin Url /\ FreeEntry.url = NULL /\ FreeEntry.size = 0
      /\ entries \in [Id -> Entry] /\ free_ids \in Seq(Id) /\ queues \in [Band -> Queue] /\ worth \in [Url -> Nat]
      /\ policy' = policy /\ hv' = hv /\ now' = now
  <2>1. id \in Id /\ entries[id].url # NULL
    BY DEF InBand
  <2>2. entries \in [Id -> Entry]
    BY DEF IInv, TypeInv
  <2>3. u \in Url
    BY <2>1, <2>2, SizeType
  <2> QED BY <2>1, <2>2, <2>3, NullAssumption DEF Evict, IInv, TypeInv, FreeEntry
<1>1. /\ entries' \in [Id -> Entry] /\ EntriesInv'
      /\ \A i \in Id : entries'[i] = IF i = id THEN FreeEntry ELSE entries[i]
      /\ \A c : InBand(c)' = InBand(c) \ {id}
      /\ Total(entries)' = Total(entries) - entries[id].size
      /\ Cardinality({i \in Id : entries[i].size > 0})' = Cardinality({i \in Id : entries[i].size > 0}) - 1
  BY <1>0, EvictEntries DEF Evict
<1>b. Band' = Band
  BY <1>0, BandFrame
<1>2. TableInv'
  <2>1. Tidy(tbl) /\ Reached(tbl, hv) /\ Free(tbl) # {} /\ hv \in [Url -> H!Slot]
    BY FreeSlot DEF IInv, TableInv, TypeInv
  <2>2. Has(tbl, u, id) /\ \A v \in Url, i \in Id : Has(tbl, v, i) <=> entries[i].url = v
    BY <1>0 DEF IInv, TableInv
  <2> DEFINE r == H!hshtbl_delete(tbl, hv, u)
  <2>3. /\ Tidy(r) /\ Reached(r, hv) /\ r.N = tbl.N - 1
        /\ \A v \in Url, i \in Id : Has(r, v, i) <=> (Has(tbl, v, i) /\ v # u)
    <3> HIDE DEF u, r
    <3>1. /\ Tidy(H!hshtbl_delete(tbl, hv, u)) /\ Reached(H!hshtbl_delete(tbl, hv, u), hv)
          /\ H!hshtbl_delete(tbl, hv, u).N = tbl.N - 1
          /\ \A v \in Url, i \in Id : Has(H!hshtbl_delete(tbl, hv, u), v, i) <=> (Has(tbl, v, i) /\ v # u)
      BY <2>1, <2>2, <1>0, Deletion
    <3> QED BY <3>1 DEF r
  <2>4. tbl' = r
    BY DEF Evict
  <2> HIDE DEF r
  <2>5. ASSUME NEW v \in Url, NEW i \in Id PROVE Has(tbl', v, i) <=> entries'[i].url = v
    <3>1. Has(tbl', v, i) <=> (entries[i].url = v /\ v # u)
      BY <2>2, <2>3, <2>4
    <3>2. entries[i].url = u <=> i = id
      BY <1>0 DEF IInv, EntriesInv
    <3> QED BY <3>1, <3>2, <1>0, <1>1
  <2>6. tbl'.N = num_entries'
    BY <2>3, <2>4 DEF Evict, IInv, TableInv
  <2> QED BY <2>3, <2>4, <2>5, <2>6, <1>0 DEF TableInv
<1>3. queues' \in [Band -> Queue] /\ \A c \in Band : queues'[c] = IF c = b THEN q ELSE queues[c]
  BY <1>0 DEF Evict, Holds
<1>4. QueuesInv'
  <2> SUFFICES ASSUME NEW c \in Band
               PROVE  /\ Holds(queues'[c], InBand(c) \ {id})
                      /\ \A i \in Id \ (InBand(c) \ {id}) : queues'[c].qp[i] = -1
    BY <1>1, <1>b DEF QueuesInv
  <2>1. Holds(queues[c], InBand(c)) /\ \A i \in Id \ InBand(c) : queues[c].qp[i] = -1
    BY DEF IInv, QueuesInv
  <2>2. CASE c = b
    BY <2>1, <2>2, <1>3
  <2>3. CASE c # b
    <3>1. id \notin InBand(c)
      BY <2>3 DEF InBand
    <3>2. InBand(c) \ {id} = InBand(c)
      BY <3>1
    <3> QED BY <2>1, <2>3, <3>2, <1>3
  <2> QED BY <2>2, <2>3
<1>5. free_ids' \in Seq(Id) /\ FreeInv'
  <2> DEFINE n == Len(free_ids)
  <2>1. free_ids' = <<id>> \o free_ids /\ n \in Nat
    BY <1>0 DEF Evict
  <2>2. free_ids' \in Seq(Id) /\ Len(free_ids') = n + 1
    BY <2>1, <1>0
  <2>3. free_ids'[1] = id /\ \A k \in 1 .. n : free_ids'[k + 1] = free_ids[k]
    BY <2>1, <1>0
  <2>4. \A k \in 2 .. n + 1 : k - 1 \in 1 .. n /\ free_ids'[k] = free_ids[k - 1]
    <3> SUFFICES ASSUME NEW k \in 2 .. n + 1 PROVE k - 1 \in 1 .. n /\ free_ids'[k] = free_ids[k - 1]
      OBVIOUS
    <3>1. k - 1 \in 1 .. n /\ (k - 1) + 1 = k
      BY <2>1
    <3> QED BY <3>1, <2>3
  <2>5. \A k \in 1 .. n : free_ids[k] # id
    BY <1>0 DEF IInv, FreeInv
  <2>6. ASSUME NEW i \in 1 .. n + 1, NEW j \in 1 .. n + 1, free_ids'[i] = free_ids'[j] PROVE i = j
    <3>1. (i = 1 \/ i \in 2 .. n + 1) /\ (j = 1 \/ j \in 2 .. n + 1)
      BY <2>1
    <3>2. CASE i \in 2 .. n + 1 /\ j \in 2 .. n + 1
      <4>1. i - 1 = j - 1
        BY <3>2, <2>4, <2>6 DEF IInv, FreeInv
      <4> QED BY <4>1
    <3>3. CASE i = 1 \/ j = 1
      BY <3>1, <3>3, <2>3, <2>4, <2>5, <2>6
    <3> QED BY <3>1, <3>2, <3>3
  <2>7. ASSUME NEW i \in Id PROVE entries'[i].url = NULL <=> \E k \in 1 .. n + 1 : free_ids'[k] = i
    <3>1. CASE i = id
      BY <3>1, <2>1, <2>3, <1>0, <1>1
    <3>2. CASE i # id
      <4>1. entries'[i].url = NULL <=> \E k \in 1 .. n : free_ids[k] = i
        BY <3>2, <1>1 DEF IInv, FreeInv
      <4>2. ASSUME NEW k \in 1 .. n, free_ids[k] = i PROVE \E l \in 1 .. n + 1 : free_ids'[l] = i
        <5>1. k + 1 \in 1 .. n + 1
          BY <2>1
        <5> QED BY <5>1, <4>2, <2>3
      <4>3. ASSUME NEW k \in 1 .. n + 1, free_ids'[k] = i PROVE \E l \in 1 .. n : free_ids[l] = i
        <5>1. k \in 2 .. n + 1
          BY <4>3, <3>2, <2>1, <2>3
        <5> QED BY <5>1, <4>3, <2>4
      <4> QED BY <4>1, <4>2, <4>3
    <3> QED BY <3>1, <3>2
  <2> HIDE DEF n
  <2>8. \A i, j \in 1 .. Len(free_ids') : free_ids'[i] = free_ids'[j] => i = j
    BY <2>2, <2>6
  <2>9. \A i \in Id : entries'[i].url = NULL <=> \E k \in 1 .. Len(free_ids') : free_ids'[k] = i
    BY <2>2, <2>7
  <2> QED BY <2>2, <2>8, <2>9 DEF FreeInv
<1>6. CountInv' /\ num_entries' \in Int /\ mem_used' \in Int
  <2>1. num_entries' = num_entries - 1 /\ mem_used' = mem_used - entries[id].size
    BY DEF Evict
  <2>2. entries[id].size \in Nat /\ num_entries \in Int /\ mem_used \in Int /\ capacity \in Nat
    BY <1>0, SizeType, CapacityAssumption DEF IInv, TypeInv
  <2>3. num_entries = Cardinality({i \in Id : entries[i].size > 0}) /\ mem_used = Total(entries) /\ mem_used <= capacity
    BY DEF IInv, CountInv
  <2>4. mem_used' <= capacity
    BY <2>1, <2>2, <2>3
  <2> QED BY <2>1, <2>2, <2>3, <2>4, <1>1 DEF CountInv
<1>7. TypeInv'
  <2>1. worth' \in [Url -> Nat]
    BY <1>0 DEF Evict
  <2> QED BY <2>1, <1>0, <1>1, <1>b, <1>3, <1>5, <1>6 DEF TypeInv, IInv
<1> QED BY <1>1, <1>2, <1>4, <1>5, <1>6, <1>7

(* One entry taken: the place on top of the stack of free ones. *)
LEMMA InsertFacts ==
  ASSUME IInv, NEW k \in Nat, NEW t \in 1 .. MaxTime, Insert(k, t)
  PROVE  \E id \in Id, b \in Band :
           /\ id = Head(free_ids) /\ free_ids # <<>> /\ b = band_of(call.size)
           /\ entries[id].url = NULL /\ entries[id].size = 0
           /\ call.url \in Url /\ call.size \in Sizes /\ call.size \in Nat \ {0}
           /\ \A i \in Id : entries[i].url # call.url
           /\ entries' \in [Id -> Entry]
           /\ \A i \in Id : entries'[i] = IF i = id THEN [url |-> call.url, size |-> call.size] ELSE entries[i]
           /\ queues' \in [Band -> Queue] /\ Band' = Band
           /\ Holds(queues[b], InBand(b)) /\ id \notin InBand(b)
           /\ \A c \in Band : queues'[c] = IF c = b THEN indexminpq_insert(queues[b], id, k) ELSE queues[c]
           /\ \A c : InBand(c)' = IF c = b THEN InBand(c) \cup {id} ELSE InBand(c)
           /\ policy' = policy /\ hv' = hv /\ now' = t /\ worth' = [worth EXCEPT ![call.url] = k]
<1> DEFINE id == Head(free_ids)
           b == band_of(call.size)
           rec == [url |-> call.url, size |-> call.size]
<1>1. /\ call # NULL /\ ~need_eviction(call.size)
      /\ entries' = [entries EXCEPT ![id] = rec]
      /\ queues' = [queues EXCEPT ![b] = indexminpq_insert(@, id, k)]
      /\ policy' = policy /\ hv' = hv /\ now' = t /\ worth' = [worth EXCEPT ![call.url] = k]
  BY DEF Insert
<1>2. /\ entries \in [Id -> Entry] /\ free_ids \in Seq(Id) /\ queues \in [Band -> Queue] /\ NULL \notin Url
  BY NullAssumption DEF IInv, TypeInv
<1>3. call.url \in Url /\ call.size \in Sizes /\ call.size \in Nat \ {0} /\ \A i \in Id : entries[i].url # call.url
  <2>1. call.url \in Url /\ call.size \in Sizes
    BY <1>1 DEF IInv, TypeInv
  <2> QED BY <2>1, <1>1, LargestSize DEF IInv, CallInv
<1>4. free_ids # <<>> /\ id \in Id /\ entries[id].url = NULL /\ entries[id].size = 0
  <2>1. num_entries < max_entries
    BY <1>1, Occupied, WidthType DEF need_eviction
  <2>2. PICK i \in Id : entries[i].url = NULL
    BY <2>1, Occupied
  <2>3. PICK j \in 1 .. Len(free_ids) : free_ids[j] = i
    BY <2>2 DEF IInv, FreeInv
  <2>4. free_ids # <<>> /\ 1 \in 1 .. Len(free_ids) /\ id = free_ids[1] /\ id \in Id
    BY <2>3, <1>2
  <2>5. entries[id].url = NULL
    BY <2>4 DEF IInv, FreeInv
  <2> QED BY <2>4, <2>5 DEF IInv, EntriesInv
<1>5. b \in Band
  BY <1>3, BandOf DEF IInv
<1> HIDE DEF id, b
<1>6. entries' \in [Id -> Entry] /\ \A i \in Id : entries'[i] = IF i = id THEN rec ELSE entries[i]
  <2>1. rec \in Entry
    BY <1>3 DEF Entry
  <2> HIDE DEF rec
  <2> QED BY <2>1, <1>1, <1>2, <1>4
<1>7. Holds(queues[b], InBand(b)) /\ id \notin InBand(b)
  BY <1>4, <1>5 DEF IInv, QueuesInv, InBand
<1>8. queues' \in [Band -> Queue] /\ \A c \in Band : queues'[c] = IF c = b THEN indexminpq_insert(queues[b], id, k) ELSE queues[c]
  <2> DEFINE r == indexminpq_insert(queues[b], id, k)
  <2>1. id \in Id \ InBand(b)
    BY <1>4, <1>7
  <2>2. r \in Queue
    BY <2>1, <1>7, InsertDef DEF Holds
  <2>3. queues' = [queues EXCEPT ![b] = r]
    BY <1>1
  <2> HIDE DEF r
  <2>4. queues' \in [Band -> Queue] /\ \A c \in Band : queues'[c] = IF c = b THEN r ELSE queues[c]
    BY <2>2, <2>3, <1>2, <1>5
  <2> QED BY <2>4 DEF r
<1>9. \A c : InBand(c)' = IF c = b THEN InBand(c) \cup {id} ELSE InBand(c)
  <2> SUFFICES ASSUME NEW c PROVE InBand(c)' = IF c = b THEN InBand(c) \cup {id} ELSE InBand(c)
    OBVIOUS
  <2>1. InBand(c)' = {i \in Id : entries'[i].url # NULL /\ band_of(entries'[i].size) = c}
    BY <1>1, BandFrame DEF InBand
  <2>2. \A i \in Id : i # id => entries'[i] = entries[i]
    BY <1>6
  <2>3. entries'[id].url # NULL /\ band_of(entries'[id].size) = b
    BY <1>2, <1>3, <1>4, <1>6 DEF b
  <2> QED BY <2>1, <2>2, <2>3, <1>4 DEF InBand
<1>10. Band' = Band
  BY <1>1, BandFrame
<1> QED BY <1>1, <1>2, <1>3, <1>4, <1>5, <1>6, <1>7, <1>8, <1>9, <1>10 DEF id, b

(* gtcache_set, once there is room. *)
LEMMA InsertStep ==
  ASSUME IInv, NEW k \in Nat, NEW t \in 1 .. MaxTime, Insert(k, t)
  PROVE  IInv'
<1>1. PICK id \in Id, b \in Band :
           /\ id = Head(free_ids) /\ free_ids # <<>> /\ b = band_of(call.size)
           /\ entries[id].url = NULL /\ entries[id].size = 0
           /\ call.url \in Url /\ call.size \in Sizes /\ call.size \in Nat \ {0}
           /\ \A i \in Id : entries[i].url # call.url
           /\ entries' \in [Id -> Entry]
           /\ \A i \in Id : entries'[i] = IF i = id THEN [url |-> call.url, size |-> call.size] ELSE entries[i]
           /\ queues' \in [Band -> Queue] /\ Band' = Band
           /\ Holds(queues[b], InBand(b)) /\ id \notin InBand(b)
           /\ \A c \in Band : queues'[c] = IF c = b THEN indexminpq_insert(queues[b], id, k) ELSE queues[c]
           /\ \A c : InBand(c)' = IF c = b THEN InBand(c) \cup {id} ELSE InBand(c)
           /\ policy' = policy /\ hv' = hv /\ now' = t /\ worth' = [worth EXCEPT ![call.url] = k]
  BY InsertFacts
<1> DEFINE u == call.url
           size == call.size
<1>2. /\ u \in Url /\ size \in Nat \ {0} /\ entries \in [Id -> Entry] /\ free_ids \in Seq(Id)
      /\ NULL \notin Url /\ worth \in [Url -> Nat] /\ hv \in [Url -> H!Slot]
  BY <1>1, NullAssumption DEF IInv, TypeInv
<1>3. \A i \in Id : /\ entries'[i].url = IF i = id THEN u ELSE entries[i].url
                    /\ entries'[i].size = IF i = id THEN size ELSE entries[i].size
  BY <1>1
<1>i. /\ free_ids' = Tail(free_ids) /\ mem_used' = mem_used + size /\ num_entries' = num_entries + 1
      /\ tbl' = H!hshtbl_put(tbl, hv, u, id) /\ call' = NULL /\ ~need_eviction(size)
  BY <1>1 DEF Insert
<1> HIDE DEF u, size
<1>4. EntriesInv'
  BY <1>1, <1>2, <1>3 DEF EntriesInv, IInv, u
<1>5. TableInv'
  <2>1. Tidy(tbl) /\ Reached(tbl, hv) /\ Free(tbl) # {} /\ tbl.N = num_entries
    BY FreeSlot DEF IInv, TableInv
  <2>2. \A v \in Url, i \in Id : Has(tbl, v, i) <=> entries[i].url = v
    BY DEF IInv, TableInv
  <2>3. \A j \in H!Slot : tbl.keys[j] # u
    <3> SUFFICES ASSUME NEW j \in H!Slot, tbl.keys[j] = u PROVE FALSE
      OBVIOUS
    <3>1. tbl.items[j] \in Id
      BY <2>1, <1>2 DEF Tidy, Table
    <3>2. entries[tbl.items[j]].url = u
      BY <3>1, <2>2, <1>2 DEF Has
    <3> QED BY <3>1, <3>2, <1>1 DEF u
  <2>4. /\ Tidy(tbl') /\ Reached(tbl', hv) /\ tbl'.N = tbl.N + 1
        /\ \A v \in Url, i \in Id : Has(tbl', v, i) <=> (Has(tbl, v, i) \/ (v = u /\ i = id))
    BY <2>1, <2>3, <1>2, <1>i, PutReached
  <2>5. \A v \in Url, i \in Id : Has(tbl', v, i) <=> entries'[i].url = v
    BY <2>2, <2>4, <1>1, <1>2, <1>3
  <2> QED BY <2>1, <2>4, <2>5, <1>1, <1>i DEF TableInv
<1>6. QueuesInv'
  <2> SUFFICES ASSUME NEW c \in Band
               PROVE  Holds(queues'[c], InBand(c)') /\ \A i \in Id \ InBand(c)' : queues'[c].qp[i] = -1
    BY <1>1 DEF QueuesInv
  <2>1. Holds(queues[c], InBand(c)) /\ \A i \in Id \ InBand(c) : queues[c].qp[i] = -1
    BY DEF IInv, QueuesInv
  <2>2. CASE c = b
    <3>1. id \in Id \ InBand(b)
      BY <1>1
    <3> DEFINE r == indexminpq_insert(queues[b], id, k)
    <3>2. Holds(r, InBand(b) \cup {id}) /\ \A i \in Id \ (InBand(b) \cup {id}) : r.qp[i] = queues[b].qp[i]
      <4> DEFINE q == queues[b]
                 D == InBand(b)
      <4>1. Holds(q, D) /\ id \in Id \ D
        BY <3>1, <1>1
      <4> HIDE DEF q, D
      <4>2. /\ Holds(indexminpq_insert(q, id, k), D \cup {id})
            /\ \A i \in Id \ (D \cup {id}) : indexminpq_insert(q, id, k).qp[i] = q.qp[i]
        <5> HIDE DEF r
        <5>1. LET e == indexminpq_insert(q, id, k) IN
              /\ Holds(e, D \cup {id}) /\ Len(e.pq) = Len(q.pq) + 1
              /\ e.keys = [q.keys EXCEPT ![id] = k]
              /\ \A i \in Id \ (D \cup {id}) : e.qp[i] = q.qp[i]
              /\ Fits(e) /\ Ordered(q) => Ordered(e)
          BY <4>1, InsertDef, Zenon
        <5> QED BY <5>1
      <4> QED BY <4>2 DEF q, D
    <3>3. queues'[c] = r /\ InBand(c)' = InBand(b) \cup {id}
      BY <2>2, <1>1
    <3> HIDE DEF r
    <3> QED BY <3>2, <3>3, <2>1, <2>2
  <2>3. CASE c # b
    BY <2>1, <2>3, <1>1
  <2> QED BY <2>2, <2>3
<1>7. free_ids' \in Seq(Id) /\ FreeInv'
  <2> DEFINE n == Len(free_ids) - 1
  <2>1. /\ free_ids' \in Seq(Id) /\ Len(free_ids') = n /\ n \in Nat /\ free_ids[1] = id
        /\ \A j \in 1 .. n : free_ids'[j] = free_ids[j + 1]
    BY <1>1, <1>2, <1>i
  <2>2. Len(free_ids) = n + 1
    BY <1>2
  <2>3. \A i, j \in 1 .. n + 1 : free_ids[i] = free_ids[j] => i = j
    BY <2>2 DEF IInv, FreeInv
  <2>4. \A i \in Id : entries[i].url = NULL <=> \E j \in 1 .. n + 1 : free_ids[j] = i
    BY <2>2 DEF IInv, FreeInv
  <2> HIDE DEF n
  <2>5. ASSUME NEW i \in 1 .. n, NEW j \in 1 .. n, free_ids'[i] = free_ids'[j] PROVE i = j
    <3>1. i + 1 \in 1 .. n + 1 /\ j + 1 \in 1 .. n + 1 /\ free_ids[i + 1] = free_ids[j + 1]
      BY <2>1, <2>5
    <3>2. i + 1 = j + 1
      BY <3>1, <2>3
    <3> QED BY <3>2
  <2>6. ASSUME NEW i \in Id PROVE entries'[i].url = NULL <=> \E j \in 1 .. n : free_ids'[j] = i
    <3>1. \A j \in 1 .. n : j + 1 \in 1 .. n + 1 /\ j + 1 # 1
      BY <2>1
    <3>2. \A j \in 1 .. n + 1 : j # 1 => j - 1 \in 1 .. n /\ (j - 1) + 1 = j
      BY <2>1
    <3>3. 1 \in 1 .. n + 1
      BY <2>1
    <3>4. CASE i = id
      <4>1. \A j \in 1 .. n : free_ids'[j] # id
        BY <3>1, <3>3, <2>1, <2>3
      <4> QED BY <4>1, <3>4, <1>2, <1>3
    <3>5. CASE i # id
      <4>1. ASSUME NEW j \in 1 .. n, free_ids'[j] = i PROVE \E l \in 1 .. n + 1 : free_ids[l] = i
        BY <4>1, <3>1, <2>1
      <4>2. ASSUME NEW l \in 1 .. n + 1, free_ids[l] = i PROVE \E j \in 1 .. n : free_ids'[j] = i
        <5>1. l - 1 \in 1 .. n /\ (l - 1) + 1 = l
          BY <4>2, <3>2, <3>5, <2>1
        <5>2. free_ids'[l - 1] = free_ids[l]
          BY <5>1, <2>1
        <5> QED BY <5>1, <5>2, <4>2
      <4> QED BY <4>1, <4>2, <3>5, <2>4, <1>3
    <3> QED BY <3>4, <3>5
  <2>7. \A i, j \in 1 .. Len(free_ids') : free_ids'[i] = free_ids'[j] => i = j
    BY <2>1, <2>5
  <2>8. \A i \in Id : entries'[i].url = NULL <=> \E j \in 1 .. Len(free_ids') : free_ids'[j] = i
    BY <2>1, <2>6
  <2> QED BY <2>1, <2>7, <2>8 DEF FreeInv
<1>8. CountInv' /\ num_entries' \in Int /\ mem_used' \in Int
  <2>1. num_entries \in Int /\ mem_used \in Int /\ capacity \in Nat
    BY CapacityAssumption DEF IInv, TypeInv
  <2>2. num_entries = Cardinality({i \in Id : entries[i].size > 0}) /\ mem_used = Total(entries)
    BY DEF IInv, CountInv
  <2>3. mem_used' <= capacity
    BY <2>1, <1>2, <1>i DEF need_eviction
  <2>4. Total(entries') = Total(entries) + size
    <3> DEFINE em == entries'
    <3>1. em \in [Id -> Entry] /\ em[id].size = size /\ entries[id].size = 0 /\ \A i \in Id \ {id} : em[i].size = entries[i].size
      BY <1>1, <1>3
    <3> HIDE DEF em
    <3>2. Total(em) = Total(entries) + em[id].size - entries[id].size /\ Total(entries) \in Nat
      BY <1>2, <3>1, TotalUpdate
    <3>3. Total(em) = Total(entries) + size
      BY <3>1, <3>2, <1>2
    <3> QED BY <3>3 DEF em
  <2>5. Cardinality({i \in Id : entries'[i].size > 0}) = Cardinality({i \in Id : entries[i].size > 0}) + 1
    <3> DEFINE T == {i \in Id : entries[i].size > 0}
    <3>1. id \notin T /\ T \in SUBSET Id
      BY <1>1
    <3>2. {i \in Id : entries'[i].size > 0} = T \cup {id}
      BY <1>2, <1>3
    <3> HIDE DEF T
    <3>3. Cardinality(T \cup {id}) = Cardinality(T) + 1
      BY <3>1, SizesFrame
    <3> QED BY <3>2, <3>3 DEF T
  <2>6. Total(entries)' = Total(entries')
    OBVIOUS
  <2> QED BY <2>1, <2>2, <2>3, <2>4, <2>5, <2>6, <1>2, <1>i DEF CountInv
<1>9. TypeInv'
  <2>1. worth' \in [Url -> Nat]
    BY <1>1, <1>2
  <2> QED BY <2>1, <1>1, <1>7, <1>8, <1>i DEF TypeInv, IInv
<1>10. CallInv'
  BY <1>i DEF CallInv
<1> QED BY <1>4, <1>5, <1>6, <1>7, <1>8, <1>9, <1>10 DEF IInv

(* An entry found. *)
LEMMA TouchFacts ==
  ASSUME IInv, NEW u \in Url, NEW k \in Nat, NEW t, Touch(u, k, t)
  PROVE  \E id \in Id, b \in Band :
           /\ id = place(u) /\ entries[id].url = u /\ b = band_of(entries[id].size) /\ id \in InBand(b)
           /\ Holds(queues[b], InBand(b))
           /\ queues' \in [Band -> Queue] /\ Band' = Band
           /\ \A c \in Band : queues'[c] = IF c = b THEN indexminpq_increasekey(queues[b], id, k) ELSE queues[c]
           /\ \A c : InBand(c)' = InBand(c)
           /\ worth' = [worth EXCEPT ![u] = k] /\ now' = t
           /\ call' = call /\ policy' = policy /\ entries' = entries
<1> DEFINE id == place(u)
           b == band_of(entries[id].size)
<1>1. /\ id # NULL /\ queues' = [queues EXCEPT ![b] = indexminpq_increasekey(@, id, k)]
      /\ worth' = [worth EXCEPT ![u] = k] /\ now' = t
      /\ call' = call /\ policy' = policy /\ entries' = entries
  BY DEF Touch
<1>2. id \in Id /\ entries[id].url = u
  BY <1>1, PlaceDef
<1>3. entries[id].size \in Sizes /\ u # NULL
  <2>1. entries[id].size \in Sizes \cup {0}
    BY <1>2, SizeType DEF IInv, TypeInv
  <2> QED BY <2>1, <1>2, NullAssumption DEF IInv, EntriesInv
<1>4. b \in Band /\ id \in InBand(b)
  BY <1>2, <1>3, BandOf DEF IInv, InBand
<1> HIDE DEF id
<1>b. b = band_of(entries[id].size)
  OBVIOUS
<1> HIDE DEF b
<1>5. Holds(queues[b], InBand(b)) /\ queues \in [Band -> Queue]
  BY <1>4 DEF IInv, QueuesInv, TypeInv
<1> DEFINE r == indexminpq_increasekey(queues[b], id, k)
<1>6. r \in Queue
  BY <1>4, <1>5, IncreaseDef DEF Holds
<1>7. queues' = [queues EXCEPT ![b] = r]
  BY <1>1
<1> HIDE DEF r
<1>8. queues' \in [Band -> Queue] /\ \A c \in Band : queues'[c] = IF c = b THEN r ELSE queues[c]
  BY <1>4, <1>5, <1>6, <1>7
<1>9. Band' = Band /\ \A c : InBand(c)' = InBand(c)
  BY <1>1, BandFrame DEF InBand
<1> QED BY <1>1, <1>2, <1>4, <1>5, <1>8, <1>9, <1>b DEF id, r

(* gtcache_get of a cached URL. *)
LEMMA TouchStep ==
  ASSUME IInv, NEW u \in Url, NEW k \in Nat, NEW t \in 1 .. MaxTime, Touch(u, k, t)
  PROVE  IInv'
<1>1. PICK id \in Id, b \in Band :
           /\ id = place(u) /\ entries[id].url = u /\ b = band_of(entries[id].size) /\ id \in InBand(b)
           /\ Holds(queues[b], InBand(b))
           /\ queues' \in [Band -> Queue] /\ Band' = Band
           /\ \A c \in Band : queues'[c] = IF c = b THEN indexminpq_increasekey(queues[b], id, k) ELSE queues[c]
           /\ \A c : InBand(c)' = InBand(c)
           /\ worth' = [worth EXCEPT ![u] = k] /\ now' = t
           /\ call' = call /\ policy' = policy /\ entries' = entries
  BY TouchFacts
<1>2. UNCHANGED <<policy, hv, tbl, free_ids, entries, num_entries, mem_used, call>>
  BY DEF Touch
<1>3. QueuesInv'
  <2> SUFFICES ASSUME NEW c \in Band
               PROVE  Holds(queues'[c], InBand(c)) /\ \A i \in Id \ InBand(c) : queues'[c].qp[i] = -1
    BY <1>1 DEF QueuesInv
  <2>1. Holds(queues[c], InBand(c)) /\ \A i \in Id \ InBand(c) : queues[c].qp[i] = -1
    BY DEF IInv, QueuesInv
  <2>2. CASE c = b
    <3> DEFINE q == queues[b]
               D == InBand(b)
    <3>1. Holds(q, D) /\ id \in D
      BY <1>1
    <3> HIDE DEF q, D
    <3>2. LET r == indexminpq_increasekey(q, id, k) IN
          /\ Holds(r, D) /\ r.keys = [q.keys EXCEPT ![id] = k]
          /\ \A i \in Id \ D : r.qp[i] = q.qp[i]
          /\ Fits(r) /\ Ordered(q) /\ q.keys[id] <= k => Ordered(r)
      BY <3>1, IncreaseDef, Zenon
    <3>3. Holds(indexminpq_increasekey(q, id, k), D)
          /\ \A i \in Id \ D : indexminpq_increasekey(q, id, k).qp[i] = q.qp[i]
      BY <3>2
    <3>4. queues'[c] = indexminpq_increasekey(q, id, k)
      BY <2>2, <1>1 DEF q
    <3> QED BY <3>3, <3>4, <2>1, <2>2 DEF q, D
  <2>3. CASE c # b
    BY <2>1, <2>3, <1>1
  <2> QED BY <2>2, <2>3
<1>4. TypeInv'
  <2>1. worth' \in [Url -> Nat]
    BY <1>1 DEF IInv, TypeInv
  <2> QED BY <2>1, <1>1, <1>2 DEF IInv, TypeInv
<1>5. EntriesInv' /\ TableInv' /\ FreeInv'
  BY <1>2 DEF IInv, EntriesInv, TableInv, FreeInv
<1>6. CountInv'
  BY <1>2 DEF IInv, CountInv
<1>7. CallInv'
  BY <1>2 DEF IInv, CallInv, need_eviction
<1> QED BY <1>3, <1>4, <1>5, <1>6, <1>7 DEF IInv

(* The call of gtcache_set. *)
LEMMA BeginSetStep == ASSUME IInv, NEW u \in Url, NEW size \in Sizes, BeginSet(u, size) PROVE IInv'
<1>1. /\ UNCHANGED <<policy, hv, cache, now, worth>> /\ place(u) = NULL
      /\ call' = [url |-> u, size |-> size, eviction_size |-> size]
  BY DEF BeginSet, place
<1>2. Cached(u) = {}
  <2>1. NULL \notin Id
    BY NullAssumption
  <2> QED BY <2>1, <1>1, PlaceDef
<1>3. size \in Nat \ {0} /\ size \in 0 .. shift[SizeBits] - 1
  BY LargestSize, SizeBitsAssumption, ShiftDef, BoundsAssumption
<1>4. TypeInv'
  <2>1. Band' = Band
    BY <1>1, BandFrame
  <2> QED BY <2>1, <1>1, <1>3 DEF IInv, TypeInv, cache
<1>5. QueuesInv'
  <2>1. Band' = Band /\ \A c : InBand(c)' = InBand(c)
    BY <1>1, BandFrame DEF InBand, cache
  <2> QED BY <2>1, <1>1 DEF IInv, QueuesInv, cache
<1>6. EntriesInv' /\ TableInv' /\ FreeInv'
  BY <1>1 DEF IInv, EntriesInv, TableInv, FreeInv, cache
<1>7. CountInv'
  BY <1>1 DEF IInv, CountInv, cache
<1>8. CallInv'
  <2>1. \A id \in Id : entries'[id].url # call'.url
    BY <1>1, <1>2 DEF cache, Cached
  <2>2. call'.eviction_size <= call'.size /\ mem_used' + call'.size - call'.eviction_size <= capacity
    <3>1. mem_used \in Int /\ mem_used <= capacity /\ capacity \in Nat
      BY CapacityAssumption DEF IInv, TypeInv, CountInv
    <3> QED BY <3>1, <1>1, <1>3 DEF cache
  <2> QED BY <2>1, <2>2 DEF CallInv
<1> QED BY <1>4, <1>5, <1>6, <1>7, <1>8 DEF IInv

(* Steps that leave the cache alone. *)
LEMMA Stutter == ASSUME IInv, UNCHANGED <<policy, hv, cache, now, worth>>, call' = NULL \/ call' = call PROVE IInv'
<1>1. UNCHANGED <<policy, hv, tbl, queues, free_ids, entries, num_entries, mem_used, now, worth>>
  BY DEF cache
<1>2. Band' = Band /\ \A c : InBand(c)' = InBand(c)
  BY <1>1, BandFrame DEF InBand
<1>3. TypeInv' /\ QueuesInv'
  BY <1>1, <1>2 DEF IInv, TypeInv, QueuesInv
<1>4. EntriesInv' /\ TableInv' /\ FreeInv'
  BY <1>1 DEF IInv, EntriesInv, TableInv, FreeInv
<1>5. CountInv'
  BY <1>1 DEF IInv, CountInv
<1>6. CallInv'
  BY <1>1 DEF IInv, CallInv, need_eviction
<1> QED BY <1>3, <1>4, <1>5, <1>6 DEF IInv

(* The first of a heap evicted. *)
LEMMA EvictMinFacts ==
  ASSUME IInv, NEW b \in Band, EvictMin(b)
  PROVE  \E id \in InBand(b), q \in Queue :
           /\ id = indexminpq_minindex(queues[b]) /\ Evict(b, id, q)
           /\ Holds(q, InBand(b) \ {id}) /\ q.qp[id] = -1
           /\ \A i \in Id \ InBand(b) : q.qp[i] = queues[b].qp[i]
           /\ \A i \in Id : q.keys[i] = IF i = id THEN 0 ELSE queues[b].keys[i]
           /\ Fits(queues[b]) /\ Ordered(queues[b]) => Ordered(q)
<1> DEFINE p == queues[b]
           D == InBand(b)
           id == indexminpq_minindex(queues[b])
           r == indexminpq_delmin(p)
           q == SetKey(r, id, 0)
<1>1. Holds(p, D) /\ p.pq # <<>> /\ id = p.pq[1]
  BY DEF IInv, QueuesInv, EvictMin, indexminpq_minindex
<1>2. Evict(b, id, q)
  BY DEF EvictMin, SetKey
<1> HIDE DEF p, D, q, id
<1>3. LET m == p.pq[1] IN
      /\ m \in D /\ Holds(r, D \ {m}) /\ r.keys = p.keys
      /\ r.qp[m] = -1 /\ \A i \in Id \ D : r.qp[i] = p.qp[i]
      /\ Fits(p) /\ Ordered(p) => Ordered(r)
  BY <1>1, DelMinDef, Zenon
<1>4. /\ id \in D /\ Holds(r, D \ {id}) /\ r.keys = p.keys /\ r.qp[id] = -1
      /\ \A i \in Id \ D : r.qp[i] = p.qp[i]
      /\ Fits(p) /\ Ordered(p) => Ordered(r)
  BY <1>1, <1>3
<1> HIDE DEF r
<1>5. r \in Queue /\ id \in Id /\ D \subseteq Id
  BY <1>1, <1>4 DEF Holds
<1>6. /\ q \in Queue /\ q.pq = r.pq /\ q.qp = r.qp
      /\ \A i \in Id : q.keys[i] = IF i = id THEN 0 ELSE r.keys[i]
  BY <1>5, SetKeyDef DEF q
<1>7. Holds(q, D \ {id}) /\ (Ordered(r) => Ordered(q))
  <2>1. id \in Id \ (D \ {id})
    BY <1>5
  <2> QED BY <2>1, <1>4, <1>5, <1>6, ForgetIndex
<1>8. /\ id = indexminpq_minindex(p) /\ Evict(b, id, q)
      /\ Holds(q, D \ {id}) /\ q.qp[id] = -1
      /\ \A i \in Id \ D : q.qp[i] = p.qp[i]
  BY <1>2, <1>4, <1>6, <1>7 DEF p, id
<1>9. /\ \A i \in Id : q.keys[i] = IF i = id THEN 0 ELSE p.keys[i]
      /\ Fits(p) /\ Ordered(p) => Ordered(q)
  BY <1>4, <1>6, <1>7
<1> QED BY <1>4, <1>6, <1>8, <1>9 DEF p, D

(* Where lrumin evicts. *)
LEMMA TargetBand ==
  ASSUME IInv, policy = "lrumin", call # NULL, need_eviction(call.size), NEW b \in tgt_band
  PROVE  /\ b \in Band /\ get_band(call.eviction_size) \in Band
         /\ \A c \in Band : c > get_band(call.eviction_size) /\ queues[c].pq # <<>>
              => b > get_band(call.eviction_size)
<1> DEFINE a == get_band(call.eviction_size)
           n == num_bands
           order == search(a)
           filled == {k \in 1 .. n : queues[order[k]].pq # <<>>}
<1>1. a \in 0 .. n - 1 /\ n \in Nat \ {0} /\ Band = 0 .. n - 1
  <2>1. get_band(call.eviction_size) \in Band
    BY BandAllocatedHolds DEF BandAllocated
  <2> QED BY <2>1, NumBands, BoundsAssumption DEF Band
<1>2. filled # {} /\ b = order[Min(filled)]
  BY DEF tgt_band
<1>3. \A k \in 1 .. n : order[k] = IF a + k < n THEN a + k ELSE n - k
  BY DEF search
<1> HIDE DEF a, n, order
<1>4. Min(filled) \in filled /\ \A k \in filled : Min(filled) <= k
  <2>1. filled \in SUBSET Nat
    BY <1>1
  <2> HIDE DEF filled
  <2> QED BY <2>1, <1>2, MinOf
<1>5. PICK m \in 1 .. n : b = order[m] /\ \A k \in filled : m <= k
  BY <1>2, <1>4
<1>6. b \in 0 .. n - 1
  BY <1>1, <1>3, <1>5
<1>7. ASSUME NEW c \in Band, c > a, queues[c].pq # <<>> PROVE b > a
  <2>1. c - a \in 1 .. n /\ a + (c - a) = c /\ c < n
    BY <1>1, <1>7
  <2>2. order[c - a] = c
    BY <2>1, <1>3
  <2>3. c - a \in filled
    BY <2>1, <2>2, <1>7
  <2>4. m <= c - a
    BY <2>3, <1>5
  <2>5. a + m < n /\ m >= 1
    BY <2>1, <2>4, <1>1
  <2> QED BY <2>5, <1>1, <1>3, <1>5
<1> QED BY <1>1, <1>6, <1>7 DEF a

(* lrumin gives up only when all bands are empty: it looks at each.        *)
LEMMA NoTarget ==
  ASSUME IInv, call # NULL, need_eviction(call.size),
         IF policy = "lrumin" THEN tgt_band = {} ELSE queues[0].pq = <<>>,
         NEW c \in Band
  PROVE  queues[c].pq = <<>>
<1>1. CASE policy # "lrumin"
  BY <1>1 DEF Band
<1>2. CASE policy = "lrumin"
  <2> DEFINE a == get_band(call.eviction_size)
             n == num_bands
             order == search(a)
             filled == {k \in 1 .. n : queues[order[k]].pq # <<>>}
  <2>1. a \in 0 .. n - 1 /\ n \in Nat \ {0} /\ c \in 0 .. n - 1
    <3>1. get_band(call.eviction_size) \in Band
      BY <1>2, BandAllocatedHolds DEF BandAllocated
    <3> QED BY <1>2, <3>1, NumBands, BoundsAssumption DEF Band
  <2>2. filled = {}
    BY <1>2 DEF tgt_band
  <2>3. \A k \in 1 .. n : order[k] = IF a + k < n THEN a + k ELSE n - k
    BY DEF search
  <2> HIDE DEF a, n, order
  <2>4. CASE c > a
    <3>1. c - a \in 1 .. n /\ a + (c - a) = c /\ c < n
      BY <2>1, <2>4
    <3> QED BY <2>2, <2>3, <3>1
  <2>5. CASE ~(c > a)
    <3>1. n - c \in 1 .. n /\ ~(a + (n - c) < n) /\ n - (n - c) = c
      BY <2>1, <2>5
    <3> QED BY <2>2, <2>3, <3>1
  <2> QED BY <2>4, <2>5
<1> QED BY <1>1, <1>2

(* An eviction does not cache the value of the call. *)
LEMMA EvictCall ==
  ASSUME IInv, NEW id \in Id, call # NULL, call'.url = call.url,
         policy # "lrumin", policy' = policy,
         \A i \in Id : entries'[i] = IF i = id THEN FreeEntry ELSE entries[i]
  PROVE  CallInv'
<1>1. call.url \in Url /\ FreeEntry.url = NULL /\ NULL \notin Url
  BY NullAssumption DEF IInv, TypeInv, FreeEntry
<1> QED BY <1>1 DEF IInv, CallInv

(* The evictions of lru.c and lfu.c. *)
LEMMA LruEvictStep == ASSUME IInv, (lru_evict \/ lfu_evict) PROVE IInv'
<1>1. policy \in {"lru", "lfu"} /\ EvictMin(0) /\ call' = call
  BY DEF lru_evict, lfu_evict
<1>2. 0 \in Band
  BY <1>1 DEF Band
<1>3. PICK id \in InBand(0), q \in Queue :
           /\ Evict(0, id, q)
           /\ Holds(q, InBand(0) \ {id}) /\ q.qp[id] = -1
           /\ \A i \in Id \ InBand(0) : q.qp[i] = queues[0].qp[i]
  <2>1. EvictMin(0)
    BY <1>1
  <2> QED BY <2>1, <1>2, EvictMinFacts
<1>4. /\ TypeInv' /\ EntriesInv' /\ TableInv' /\ QueuesInv' /\ FreeInv' /\ CountInv'
      /\ \A i \in Id : entries'[i] = IF i = id THEN FreeEntry ELSE entries[i]
  <2>1. call' \in {NULL} \cup [url : Url, size : Sizes, eviction_size : 0 .. shift[SizeBits] - 1]
    BY <1>1 DEF IInv, TypeInv
  <2> QED BY <2>1, <1>2, <1>3, EvictStep
<1>5. CallInv'
  <2>1. id \in Id /\ call # NULL /\ policy' = policy
    BY <1>3 DEF InBand, Evict
  <2> QED BY <2>1, <1>1, <1>4, EvictCall
<1> QED BY <1>4, <1>5 DEF IInv

(* Any entry of the queue of rnd.c evicted. *)
LEMMA RndFacts ==
  ASSUME IInv, NEW id \in Id, rnd_evict(id)
  PROVE  \E q \in Queue :
           /\ 0 \in Band /\ id \in InBand(0) /\ Evict(0, id, q)
           /\ Holds(q, InBand(0) \ {id}) /\ q.qp[id] = -1 /\ q.keys = queues[0].keys
           /\ \A i \in Id \ InBand(0) : q.qp[i] = queues[0].qp[i]
<1> DEFINE p == queues[0]
           D == InBand(0)
           q == indexrndq_dequeue(p, id)
<1>1. 0 \in Band /\ Evict(0, id, q) /\ p.qp[id] # -1
  BY DEF rnd_evict, Band
<1>2. Holds(p, D) /\ id \in D
  BY <1>1 DEF IInv, QueuesInv
<1> HIDE DEF p, D
<1>3. LET r == indexrndq_dequeue(p, id) IN
      /\ Holds(r, D \ {id}) /\ r.keys = p.keys
      /\ r.qp[id] = -1 /\ \A i \in Id \ D : r.qp[i] = p.qp[i]
  <2> HIDE DEF q
  <2>1. Holds(p, D)
    BY <1>2
  <2>2. id \in D
    BY <1>2
  <2>3. ASSUME NEW i \in D
        PROVE  LET r == indexrndq_dequeue(p, i) IN
               /\ Holds(r, D \ {i}) /\ r.keys = p.keys
               /\ r.qp[i] = -1 /\ \A j \in Id \ D : r.qp[j] = p.qp[j]
    BY <2>1, DequeueDef
  <2> QED BY <2>2, <2>3
<1>4. q \in Queue
  BY <1>3 DEF Holds
<1> HIDE DEF q
<1>5. /\ Holds(q, D \ {id}) /\ q.keys = p.keys
      /\ q.qp[id] = -1 /\ \A i \in Id \ D : q.qp[i] = p.qp[i]
  BY <1>3 DEF q
<1> QED BY <1>1, <1>2, <1>4, <1>5 DEF p, D

(* The evictions of rnd.c. *)
LEMMA RndEvictStep == ASSUME IInv, NEW id \in Id, rnd_evict(id) PROVE IInv'
<1>1. policy = "rnd" /\ call' = call
  BY DEF rnd_evict
<1>2. PICK q \in Queue :
           /\ 0 \in Band /\ id \in InBand(0) /\ Evict(0, id, q)
           /\ Holds(q, InBand(0) \ {id}) /\ q.qp[id] = -1
           /\ \A i \in Id \ InBand(0) : q.qp[i] = queues[0].qp[i]
  BY RndFacts
<1>3. /\ TypeInv' /\ EntriesInv' /\ TableInv' /\ QueuesInv' /\ FreeInv' /\ CountInv'
      /\ \A i \in Id : entries'[i] = IF i = id THEN FreeEntry ELSE entries[i]
  <2>1. call' \in {NULL} \cup [url : Url, size : Sizes, eviction_size : 0 .. shift[SizeBits] - 1]
    BY <1>1 DEF IInv, TypeInv
  <2> QED BY <2>1, <1>2, EvictStep
<1>4. CallInv'
  <2>1. call # NULL /\ policy' = policy
    BY <1>2 DEF Evict
  <2> QED BY <2>1, <1>1, <1>3, EvictCall
<1> QED BY <1>3, <1>4 DEF IInv

(* The accounting of lrumin. *)
LEMMA LruminEvictStep ==
  ASSUME IInv, lrumin_evict
  PROVE  /\ IInv'
         /\ call'.size = call.size
         /\ (\E c \in Band : c > get_band(call.eviction_size) /\ queues[c].pq # <<>>)
              => ~need_eviction(call.size)'
<1>1. policy = "lrumin" /\ call # NULL /\ need_eviction(call.size)
  BY DEF lrumin_evict
<1>2. PICK b \in tgt_band :
        /\ EvictMin(b)
        /\ call' = [call EXCEPT !.eviction_size =
                      (@ - entries[indexminpq_minindex(queues[b])].size) % shift[SizeBits]]
  BY DEF lrumin_evict
<1>3. /\ b \in Band /\ get_band(call.eviction_size) \in Band
      /\ \A c \in Band : c > get_band(call.eviction_size) /\ queues[c].pq # <<>>
           => b > get_band(call.eviction_size)
  BY <1>1, TargetBand
<1>4. PICK id \in InBand(b), q \in Queue :
           /\ id = indexminpq_minindex(queues[b]) /\ Evict(b, id, q)
           /\ Holds(q, InBand(b) \ {id}) /\ q.qp[id] = -1
           /\ \A i \in Id \ InBand(b) : q.qp[i] = queues[b].qp[i]
  <2>1. b \in Band /\ EvictMin(b)
    BY <1>2, <1>3
  <2> QED BY <2>1, EvictMinFacts
<1> DEFINE e == call.eviction_size
           size == call.size
           v == entries[id].size
           W == shift[SizeBits]
<1>5. /\ call \in [url : Url, size : Sizes, eviction_size : 0 .. W - 1]
      /\ size \in Nat \ {0} /\ size \in Sizes /\ size < W /\ e \in 0 .. W - 1 /\ call.url \in Url /\ W \in Nat \ {0}
  <2>1. call \in [url : Url, size : Sizes, eviction_size : 0 .. W - 1]
    BY <1>1 DEF IInv, TypeInv
  <2> QED BY <2>1, LargestSize, SizeBitsAssumption, ShiftDef, BoundsAssumption
<1>6. id \in Id /\ v \in Nat \ {0} /\ v < W /\ get_band(v) = b
  <2>1. id \in Id /\ entries[id].url # NULL /\ band_of(v) = b
    BY DEF InBand
  <2>2. v \in Sizes
    <3>1. v \in Sizes \cup {0}
      BY <2>1, SizeType DEF IInv, TypeInv
    <3> QED BY <2>1, <3>1 DEF IInv, EntriesInv
  <2>3. get_band(v) = b
    BY <2>1, <1>1 DEF band_of
  <2> QED BY <2>1, <2>2, <2>3, LargestSize, SizeBitsAssumption
<1> DEFINE x == (e - v) % W
<1>7. /\ call' = [call EXCEPT !.eviction_size = x] /\ x \in 0 .. W - 1
      /\ v <= e => x = e - v
  <2>1. call' = [call EXCEPT !.eviction_size = x]
    BY <1>2, <1>4
  <2> DEFINE d == e - v
  <2>2. d \in Int /\ (v <= e => d \in 0 .. W - 1)
    BY <1>5, <1>6
  <2> HIDE DEF d, W
  <2>3. d % W \in 0 .. W - 1 /\ (v <= e => d % W = d)
    BY <2>2, <1>5, ModBelow, ModType
  <2> QED BY <2>1, <2>3 DEF d
<1> HIDE DEF x
<1>8. /\ call'.url = call.url /\ call'.size = size /\ call'.eviction_size = x
      /\ call' \in [url : Url, size : Sizes, eviction_size : 0 .. W - 1]
  BY <1>5, <1>7
<1>9. /\ TypeInv' /\ EntriesInv' /\ TableInv' /\ QueuesInv' /\ FreeInv' /\ CountInv'
      /\ \A i \in Id : entries'[i] = IF i = id THEN FreeEntry ELSE entries[i]
  <2>1. call' \in {NULL} \cup [url : Url, size : Sizes, eviction_size : 0 .. shift[SizeBits] - 1]
    BY <1>8
  <2> QED BY <2>1, <1>3, <1>4, EvictStep
<1>10. /\ mem_used \in Int /\ capacity \in Nat /\ num_entries \in 0 .. max_entries /\ max_entries \in Nat
       /\ mem_used' = mem_used - v /\ num_entries' = num_entries - 1
       /\ e <= size /\ mem_used + size - e <= capacity
  <2>1. e <= size /\ mem_used + size - e <= capacity
    BY <1>1 DEF IInv, CallInv
  <2> QED BY <2>1, <1>4, Occupied, WidthType, CapacityAssumption DEF IInv, TypeInv, Evict
<1>n. need_eviction(size)' <=> num_entries' >= max_entries \/ mem_used' + size' > capacity
  BY DEF need_eviction
<1>11. v > e => ~(num_entries' >= max_entries) /\ ~(mem_used' + size > capacity)
  BY <1>5, <1>6, <1>10
<1>12. CallInv'
  <2>1. \A i \in Id : entries'[i].url # call'.url
    <3>1. FreeEntry.url = NULL /\ NULL \notin Url
      BY NullAssumption DEF FreeEntry
    <3> QED BY <3>1, <1>1, <1>5, <1>8, <1>9 DEF IInv, CallInv
  <2>2. ASSUME num_entries' >= max_entries \/ mem_used' + size > capacity
        PROVE  x <= size /\ mem_used' + size - x <= capacity
    <3>1. v <= e
      BY <2>2, <1>5, <1>6, <1>11
    <3>2. x = e - v
      BY <3>1, <1>7
    <3> QED BY <3>1, <3>2, <1>5, <1>6, <1>10
  <2>3. need_eviction(call.size)' => call'.eviction_size <= call'.size /\ mem_used' + call'.size - call'.eviction_size <= capacity
    BY <2>2, <1>8 DEF need_eviction
  <2> QED BY <2>1, <2>3 DEF CallInv
<1>13. ASSUME NEW c \in Band, c > get_band(call.eviction_size), queues[c].pq # <<>>
       PROVE  ~need_eviction(call.size)'
  <2>1. get_band(v) > get_band(e)
    BY <1>3, <1>6, <1>13
  <2>2. v > e
    BY <2>1, <1>5, <1>6, LargerBand
  <2> QED BY <2>2, <1>8, <1>11 DEF need_eviction
<1> QED BY <1>8, <1>9, <1>12, <1>13 DEF IInv

(* gettimeofday does not go back. *)
LEMMA ClockType == ASSUME IInv, NEW t \in Clock PROVE t \in 1 .. MaxTime /\ t >= now
  BY BoundsAssumption DEF Clock, IInv, TypeInv

(* gtcache_destroy and gtcache_init. *)
LEMMA ReinitStep == ASSUME IInv, Reinit PROVE IInv' /\ OrderInv'
<1>1. (FreshCache /\ call = NULL /\ Typed => IInv /\ OrderInv)'
  BY FreshInv, PTL
<1>2. Band' = Band
  BY BandFrame DEF Reinit
<1>3. FreshCache'
  BY <1>2 DEF FreshCache, Fresh, Reinit
<1>4. call' = NULL /\ Typed'
  BY DEF Reinit, Typed, IInv, TypeInv
<1> QED BY <1>1, <1>3, <1>4

(* Every step keeps the invariant. *)
LEMMA StepInv == IInv /\ [Next]_vars => IInv'
<1> SUFFICES ASSUME IInv, [Next]_vars PROVE IInv'
  OBVIOUS
<1>1. CASE Reinit
  BY <1>1, ReinitStep
<1>2. CASE Refuse
  BY <1>2, Stutter DEF Refuse
<1>3. ASSUME NEW u \in Url, NEW t \in Clock, lru_get(u, t) \/ lrumin_get(u, t) PROVE IInv'
  <2>1. t \in 1 .. MaxTime /\ Touch(u, t, t)
    BY <1>3, ClockType DEF lru_get, lrumin_get
  <2> QED BY <2>1, TouchStep
<1>4. ASSUME NEW u \in Url, lfu_get(u) PROVE IInv'
  <2> DEFINE hits == queues[0].keys[place(u)] + 1
  <2>1. Touch(u, hits, now) /\ place(u) # NULL /\ 0 \in Band
    BY <1>4 DEF lfu_get, Band
  <2>2. place(u) \in Id
    BY <2>1, PlaceDef
  <2>3. hits \in Nat /\ now \in 1 .. MaxTime
    BY <2>1, <2>2 DEF IInv, TypeInv, Queue
  <2> HIDE DEF hits
  <2> QED BY <2>1, <2>3, TouchStep
<1>5. ASSUME NEW u \in Url, rnd_get(u) PROVE IInv'
  BY <1>5, Stutter DEF rnd_get, vars
<1>6. ASSUME NEW u \in Url, NEW size \in Sizes, BeginSet(u, size) PROVE IInv'
  BY <1>6, BeginSetStep
<1>7. CASE lru_evict \/ lfu_evict
  BY <1>7, LruEvictStep
<1>8. CASE lrumin_evict
  BY <1>8, LruminEvictStep
<1>9. ASSUME NEW id \in Id, rnd_evict(id) PROVE IInv'
  BY <1>9, RndEvictStep
<1>10. ASSUME NEW t \in Clock, lru_insert(t) \/ lrumin_insert(t) PROVE IInv'
  <2>1. t \in 1 .. MaxTime /\ Insert(t, t)
    BY <1>10, ClockType DEF lru_insert, lrumin_insert
  <2> QED BY <2>1, InsertStep
<1>11. CASE lfu_insert \/ rnd_insert
  <2>1. now \in 1 .. MaxTime /\ 0 \in Nat /\ 1 \in Nat
    BY DEF IInv, TypeInv
  <2>2. Insert(0, now) \/ Insert(1, now)
    BY <1>11 DEF lfu_insert, rnd_insert
  <2> QED BY <2>1, <2>2, InsertStep
<1>12. CASE UNCHANGED vars
  BY <1>12, Stutter DEF vars
<1> QED BY <1>1, <1>2, <1>3, <1>4, <1>5, <1>6, <1>7, <1>8, <1>9, <1>10, <1>11, <1>12 DEF Next

-----------------------------------------------------------------------------
(* The order of the queues, while the differences of keys fit an int.      *)

(* No key reaches IntHalf. *)
LEMMA KeyBelow == IInv /\ MaxTime < IntHalf /\ MaxHits < IntHalf => \A x \in Key : x \in Nat /\ x < IntHalf
  BY BoundsAssumption DEF IInv, TypeInv, Key

(* So every queue compares its keys as numbers. *)
LEMMA QueuesFit ==
  ASSUME IInv, OrderInv, MaxTime < IntHalf, MaxHits < IntHalf, NEW b \in Band PROVE Fits(queues[b])
  BY KeyBelow DEF OrderInv, Fits

(* A step that changes one queue, and the worth of one URL. *)
Requeues(b, r, id, u, k) ==
  /\ b \in Band /\ r \in Queue /\ Band' = Band /\ id \in Id /\ u \in Url /\ k \in Nat
  /\ \A c \in Band : queues'[c] = IF c = b THEN r ELSE queues[c]
  /\ Ordered(r) /\ \A i \in Id : r.keys[i] \in Key'
  /\ Key \subseteq Key' /\ worth' = [worth EXCEPT ![u] = k]
  /\ \A i \in Id : i # id => r.keys[i] = queues[b].keys[i]
  /\ \A c \in Band : id \in InBand(c)' => c = b /\ entries'[id].url = u /\ r.keys[id] = k
  /\ \A c \in Band, i \in Id : i # id /\ i \in InBand(c)' =>
       i \in InBand(c) /\ entries'[i].url = entries[i].url /\ entries[i].url # u

(* Such a step keeps the order. *)
LEMMA OrderStep ==
  ASSUME IInv, OrderInv, NEW b, NEW r, NEW id, NEW u, NEW k, Requeues(b, r, id, u, k)
  PROVE  OrderInv'
<1> SUFFICES ASSUME NEW c \in Band
             PROVE  /\ Ordered(queues'[c]) /\ \A i \in Id : queues'[c].keys[i] \in Key'
                    /\ \A i \in InBand(c)' : queues'[c].keys[i] = worth'[entries'[i].url]
  BY DEF OrderInv, Requeues
<1>0. worth \in [Url -> Nat] /\ entries \in [Id -> Entry]
  BY DEF IInv, TypeInv
<1>1. Ordered(queues'[c]) /\ \A i \in Id : queues'[c].keys[i] \in Key'
  BY DEF OrderInv, Requeues
<1>2. ASSUME NEW i \in InBand(c)' PROVE queues'[c].keys[i] = worth'[entries'[i].url]
  <2>1. i \in Id
    BY DEF InBand
  <2>2. CASE i = id
    BY <2>2, <1>0 DEF Requeues
  <2>3. CASE i # id
    <3>1. i \in InBand(c) /\ entries'[i].url = entries[i].url /\ entries[i].url # u
      BY <2>1, <2>3 DEF Requeues
    <3>2. entries[i].url \in Url
      BY <2>1, <3>1, <1>0, SizeType DEF InBand
    <3>3. queues[c].keys[i] = worth[entries[i].url]
      BY <3>1 DEF OrderInv
    <3>4. queues'[c].keys[i] = queues[c].keys[i]
      BY <2>1, <2>3 DEF Requeues
    <3>5. worth'[entries[i].url] = worth[entries[i].url]
      BY <3>1, <3>2, <1>0 DEF Requeues
    <3> QED BY <3>1, <3>3, <3>4, <3>5
  <2> QED BY <2>2, <2>3
<1> QED BY <1>1, <1>2

(* A step that leaves the cache alone keeps the order. *)
LEMMA OrderFrame ==
  ASSUME IInv, OrderInv, UNCHANGED <<policy, hv, cache, now, worth>> PROVE OrderInv'
<1>1. Band' = Band /\ Key' = Key /\ \A c : InBand(c)' = InBand(c)
  BY BandFrame DEF InBand, Key, cache
<1> QED BY <1>1 DEF OrderInv, cache

(* A get keeps the order, as a key never gets smaller. *)
LEMMA TouchOrder ==
  ASSUME IInv, IInv', OrderInv, MaxTime < IntHalf, MaxHits < IntHalf,
         NEW u \in Url, NEW k \in Nat, NEW t \in 1 .. MaxTime, Touch(u, k, t), k \in Key', Key \subseteq Key',
         \A b \in Band : place(u) \in InBand(b) => queues[b].keys[place(u)] <= k
  PROVE  OrderInv'
<1>1. PICK id \in Id, b \in Band :
           /\ id = place(u) /\ entries[id].url = u /\ b = band_of(entries[id].size) /\ id \in InBand(b)
           /\ Holds(queues[b], InBand(b))
           /\ queues' \in [Band -> Queue] /\ Band' = Band
           /\ \A c \in Band : queues'[c] = IF c = b THEN indexminpq_increasekey(queues[b], id, k) ELSE queues[c]
           /\ \A c : InBand(c)' = InBand(c)
           /\ worth' = [worth EXCEPT ![u] = k] /\ now' = t
           /\ call' = call /\ policy' = policy /\ entries' = entries
  BY TouchFacts
<1> DEFINE q == queues[b]
           D == InBand(b)
           r == indexminpq_increasekey(q, id, k)
<1>2. Holds(q, D) /\ id \in D /\ q.keys[id] <= k /\ Ordered(q) /\ \A i \in Id : q.keys[i] \in Key'
  BY <1>1 DEF OrderInv
<1>q. q \in Queue
  BY <1>2 DEF Holds
<1>w. \A c \in Band : queues'[c] = IF c = b THEN r ELSE queues[c]
  BY <1>1
<1> HIDE DEF q, D, r
<1>3. /\ Holds(r, D) /\ r.keys = [q.keys EXCEPT ![id] = k]
      /\ Fits(r) /\ Ordered(q) /\ q.keys[id] <= k => Ordered(r)
  <2>1. ASSUME NEW i \in D
        PROVE  LET e == indexminpq_increasekey(q, i, k) IN
               /\ Holds(e, D) /\ e.keys = [q.keys EXCEPT ![i] = k]
               /\ \A j \in Id \ D : e.qp[j] = q.qp[j]
               /\ Fits(e) /\ Ordered(q) /\ q.keys[i] <= k => Ordered(e)
    BY <1>2, IncreaseDef
  <2> QED BY <1>2, <2>1 DEF r
<1>4. r \in Queue /\ \A i \in Id : r.keys[i] = IF i = id THEN k ELSE q.keys[i]
  BY <1>3, <1>q DEF Holds, Queue
<1>5. \A i \in Id : r.keys[i] \in Key'
  BY <1>2, <1>4
<1>6. Ordered(r)
  <2>1. (IInv /\ MaxTime < IntHalf /\ MaxHits < IntHalf => \A x \in Key : x \in Nat /\ x < IntHalf)'
    BY KeyBelow, PTL
  <2>2. Fits(r)
    BY <2>1, <1>5 DEF Fits
  <2> QED BY <2>2, <1>2, <1>3
<1>7. ASSUME NEW c \in Band, NEW i \in Id, i # id, i \in InBand(c)'
      PROVE  i \in InBand(c) /\ entries'[i].url = entries[i].url /\ entries[i].url # u
  BY <1>7, <1>1, NullAssumption DEF IInv, EntriesInv
<1>8. \A c \in Band : id \in InBand(c)' => c = b /\ entries'[id].url = u /\ r.keys[id] = k
  BY <1>1, <1>4 DEF InBand
<1>9. \A i \in Id : i # id => r.keys[i] = queues[b].keys[i]
  BY <1>4 DEF q
<1>10. Requeues(b, r, id, u, k)
  BY <1>1, <1>w, <1>4, <1>5, <1>6, <1>7, <1>8, <1>9 DEF Requeues
<1> QED BY <1>10, OrderStep

(* An eviction keeps the order. *)
LEMMA EvictOrder ==
  ASSUME IInv, OrderInv, NEW b \in Band, NEW id \in InBand(b), NEW q \in Queue, Evict(b, id, q),
         \A i \in Id : i # id => q.keys[i] = queues[b].keys[i], q.keys[id] \in Key, Ordered(q)
  PROVE  OrderInv'
<1> DEFINE u == entries[id].url
<1>1. /\ policy' = policy /\ now' = now /\ queues' = [queues EXCEPT ![b] = q]
      /\ entries' = [entries EXCEPT ![id] = FreeEntry] /\ worth' = [worth EXCEPT ![u] = 0]
  BY DEF Evict
<1>2. id \in Id /\ u # NULL /\ entries \in [Id -> Entry] /\ queues \in [Band -> Queue]
  BY DEF InBand, IInv, TypeInv
<1>3. u \in Url
  BY <1>2, SizeType
<1>4. /\ \A i \in Id : entries'[i] = IF i = id THEN FreeEntry ELSE entries[i]
      /\ \A c : InBand(c)' = InBand(c) \ {id}
  BY <1>1, <1>2, EvictEntries
<1>5. Band' = Band /\ Key' = Key
  BY <1>1, BandFrame DEF Key
<1> HIDE DEF u
<1>6. \A c \in Band : queues'[c] = IF c = b THEN q ELSE queues[c]
  BY <1>1, <1>2
<1>7. \A i \in Id : q.keys[i] \in Key'
  BY <1>5 DEF OrderInv
<1>8. \A c \in Band, i \in Id : i # id /\ i \in InBand(c)' =>
        i \in InBand(c) /\ entries'[i].url = entries[i].url /\ entries[i].url # u
  BY <1>2, <1>4 DEF u, IInv, EntriesInv
<1>9. Requeues(b, q, id, u, 0)
  BY <1>1, <1>2, <1>3, <1>4, <1>5, <1>6, <1>7, <1>8 DEF Requeues
<1> QED BY <1>9, OrderStep

LEMMA EvictMinOrder ==
  ASSUME IInv, OrderInv, MaxTime < IntHalf, MaxHits < IntHalf, NEW b \in Band, EvictMin(b)
  PROVE  OrderInv'
<1>1. PICK id \in InBand(b), q \in Queue :
           /\ Evict(b, id, q)
           /\ \A i \in Id : q.keys[i] = IF i = id THEN 0 ELSE queues[b].keys[i]
           /\ Fits(queues[b]) /\ Ordered(queues[b]) => Ordered(q)
  BY EvictMinFacts
<1>2. Ordered(q)
  BY <1>1, QueuesFit DEF OrderInv
<1>3. id \in Id /\ 0 \in Key
  BY BoundsAssumption DEF InBand, Key, IInv, TypeInv
<1> QED BY <1>1, <1>2, <1>3, EvictOrder

LEMMA RndEvictOrder ==
  ASSUME IInv, OrderInv, NEW id \in Id, rnd_evict(id)
  PROVE  OrderInv'
<1>1. PICK q \in Queue :
           /\ 0 \in Band /\ id \in InBand(0) /\ Evict(0, id, q) /\ q.keys = queues[0].keys
  BY RndFacts
<1>2. Key = {0}
  BY DEF rnd_evict, Key
<1>3. \A i \in Id : q.keys[i] = 0
  BY <1>1, <1>2 DEF OrderInv
<1>4. Ordered(q)
  <2> SUFFICES ASSUME NEW c \in 2 .. Len(q.pq) PROVE key(q, c \div 2) <= key(q, c)
    BY DEF Ordered
  <2>1. Len(q.pq) \in Nat /\ c \in 1 .. Len(q.pq) /\ c \div 2 \in 1 .. Len(q.pq)
    BY DEF Queue
  <2>2. q.pq[c] \in Id /\ q.pq[c \div 2] \in Id
    BY <2>1 DEF Queue
  <2> QED BY <2>2, <1>3 DEF key
<1> QED BY <1>1, <1>2, <1>3, <1>4, EvictOrder

(* A set keeps the order. *)
LEMMA InsertOrder ==
  ASSUME IInv, IInv', OrderInv, MaxTime < IntHalf, MaxHits < IntHalf,
         NEW k \in Nat, NEW t \in 1 .. MaxTime, Insert(k, t), k \in Key', Key \subseteq Key'
  PROVE  OrderInv'
<1>1. PICK id \in Id, b \in Band :
           /\ id = Head(free_ids) /\ free_ids # <<>> /\ b = band_of(call.size)
           /\ entries[id].url = NULL /\ entries[id].size = 0
           /\ call.url \in Url /\ call.size \in Sizes /\ call.size \in Nat \ {0}
           /\ \A i \in Id : entries[i].url # call.url
           /\ entries' \in [Id -> Entry]
           /\ \A i \in Id : entries'[i] = IF i = id THEN [url |-> call.url, size |-> call.size] ELSE entries[i]
           /\ queues' \in [Band -> Queue] /\ Band' = Band
           /\ Holds(queues[b], InBand(b)) /\ id \notin InBand(b)
           /\ \A c \in Band : queues'[c] = IF c = b THEN indexminpq_insert(queues[b], id, k) ELSE queues[c]
           /\ \A c : InBand(c)' = IF c = b THEN InBand(c) \cup {id} ELSE InBand(c)
           /\ policy' = policy /\ hv' = hv /\ now' = t /\ worth' = [worth EXCEPT ![call.url] = k]
  BY InsertFacts
<1> DEFINE q == queues[b]
           D == InBand(b)
           r == indexminpq_insert(q, id, k)
           u == call.url
<1>2. Holds(q, D) /\ id \in Id \ D /\ Ordered(q) /\ \A i \in Id : q.keys[i] \in Key'
  BY <1>1 DEF OrderInv
<1>w. \A c \in Band : queues'[c] = IF c = b THEN r ELSE queues[c]
  BY <1>1
<1>u. /\ u \in Url /\ worth' = [worth EXCEPT ![u] = k] /\ \A i \in Id : entries[i].url # u
      /\ entries'[id].url = u
  BY <1>1
<1> HIDE DEF q, D, r, u
<1>3. /\ Holds(r, D \cup {id}) /\ r.keys = [q.keys EXCEPT ![id] = k]
      /\ Fits(r) /\ Ordered(q) => Ordered(r)
  <2>1. LET e == indexminpq_insert(q, id, k) IN
        /\ Holds(e, D \cup {id}) /\ Len(e.pq) = Len(q.pq) + 1
        /\ e.keys = [q.keys EXCEPT ![id] = k]
        /\ \A i \in Id \ (D \cup {id}) : e.qp[i] = q.qp[i]
        /\ Fits(e) /\ Ordered(q) => Ordered(e)
    BY <1>2, InsertDef, Zenon
  <2> QED BY <2>1 DEF r
<1>4. r \in Queue /\ \A i \in Id : r.keys[i] = IF i = id THEN k ELSE q.keys[i]
  <2>1. r \in Queue /\ q \in Queue
    BY <1>2, <1>3 DEF Holds
  <2>2. q.keys \in [Id -> Nat]
    BY <2>1 DEF Queue
  <2> QED BY <2>1, <2>2, <1>3
<1>5. \A i \in Id : r.keys[i] \in Key'
  BY <1>2, <1>4
<1>6. Ordered(r)
  <2>1. (IInv /\ MaxTime < IntHalf /\ MaxHits < IntHalf => \A x \in Key : x \in Nat /\ x < IntHalf)'
    BY KeyBelow, PTL
  <2>2. Fits(r)
    BY <2>1, <1>5 DEF Fits
  <2> QED BY <2>2, <1>2, <1>3
<1>7. ASSUME NEW c \in Band, NEW i \in Id, i # id, i \in InBand(c)'
      PROVE  i \in InBand(c) /\ entries'[i].url = entries[i].url /\ entries[i].url # u
  BY <1>7, <1>1, <1>u
<1>8. ASSUME NEW c \in Band, id \in InBand(c)' PROVE c = b /\ entries'[id].url = u /\ r.keys[id] = k
  <2>1. id \notin InBand(c)
    BY <1>1 DEF InBand
  <2> QED BY <2>1, <1>8, <1>1, <1>4, <1>u
<1>9. \A i \in Id : i # id => r.keys[i] = queues[b].keys[i]
  BY <1>4 DEF q
<1>10. Requeues(b, r, id, u, k)
  BY <1>1, <1>u, <1>w, <1>4, <1>5, <1>6, <1>7, <1>8, <1>9 DEF Requeues
<1> QED BY <1>10, OrderStep

(* Every step keeps the order. *)
LEMMA StepOrder ==
  MaxTime < IntHalf /\ MaxHits < IntHalf => (IInv /\ IInv' /\ OrderInv /\ [Next]_vars => OrderInv')
<1> SUFFICES ASSUME MaxTime < IntHalf, MaxHits < IntHalf, IInv, IInv', OrderInv, [Next]_vars PROVE OrderInv'
  OBVIOUS
<1>0. now \in 1 .. MaxTime /\ MaxHits \in Nat \ {0}
  BY BoundsAssumption DEF IInv, TypeInv
<1>1. CASE Reinit
  BY <1>1, ReinitStep
<1>2. CASE Refuse
  BY <1>2, OrderFrame DEF Refuse
<1>3. ASSUME NEW u \in Url, NEW t \in Clock, lru_get(u, t) \/ lrumin_get(u, t) PROVE OrderInv'
  <2>1. t \in 1 .. MaxTime /\ t >= now /\ Touch(u, t, t) /\ policy \in {"lru", "lrumin"}
    BY <1>3, ClockType DEF lru_get, lrumin_get
  <2>2. policy' = policy /\ now' = t /\ place(u) # NULL
    BY <2>1 DEF Touch
  <2>3. Key = 0 .. now /\ Key' = 0 .. t
    BY <2>1, <2>2 DEF Key
  <2>4. t \in Key' /\ Key \subseteq Key' /\ t \in Nat
    BY <2>1, <2>3, <1>0
  <2>5. \A b \in Band : queues[b].keys[place(u)] <= t
    <3>1. place(u) \in Id
      BY <2>2, PlaceDef
    <3>2. \A b \in Band : queues[b].keys[place(u)] \in 0 .. now
      BY <2>3, <3>1 DEF OrderInv
    <3> QED BY <3>2, <2>1, <1>0
  <2> QED BY <2>1, <2>4, <2>5, TouchOrder
<1>4. ASSUME NEW u \in Url, lfu_get(u) PROVE OrderInv'
  <2> DEFINE hits == queues[0].keys[place(u)] + 1
  <2>1. Touch(u, hits, now) /\ place(u) # NULL /\ Band = {0} /\ hits <= MaxHits /\ policy = "lfu"
    BY <1>4 DEF lfu_get, Band
  <2>2. place(u) \in Id /\ policy' = policy
    BY <2>1, PlaceDef DEF Touch
  <2>3. Key = 0 .. MaxHits /\ Key' = 0 .. MaxHits
    BY <2>1, <2>2 DEF Key
  <2>4. queues[0].keys[place(u)] \in Nat
    BY <2>1, <2>2 DEF IInv, TypeInv, Queue
  <2>5. hits \in Key' /\ Key \subseteq Key' /\ hits \in Nat /\ \A b \in Band : queues[b].keys[place(u)] <= hits
    BY <2>1, <2>3, <2>4, <1>0
  <2> HIDE DEF hits
  <2> QED BY <2>1, <2>5, <1>0, TouchOrder
<1>5. ASSUME NEW u \in Url, rnd_get(u) PROVE OrderInv'
  BY <1>5, OrderFrame DEF rnd_get, vars
<1>6. ASSUME NEW u \in Url, NEW size \in Sizes, BeginSet(u, size) PROVE OrderInv'
  BY <1>6, OrderFrame DEF BeginSet
<1>7. CASE lru_evict \/ lfu_evict
  <2>1. EvictMin(0) /\ 0 \in Band
    BY <1>7 DEF lru_evict, lfu_evict, Band
  <2> QED BY <2>1, EvictMinOrder
<1>8. CASE lrumin_evict
  <2>1. PICK b \in tgt_band : EvictMin(b)
    BY <1>8 DEF lrumin_evict
  <2>2. b \in Band
    BY <1>8, TargetBand DEF lrumin_evict
  <2> QED BY <2>1, <2>2, EvictMinOrder
<1>9. ASSUME NEW id \in Id, rnd_evict(id) PROVE OrderInv'
  BY <1>9, RndEvictOrder
<1>10. ASSUME NEW t \in Clock, lru_insert(t) \/ lrumin_insert(t) PROVE OrderInv'
  <2>1. t \in 1 .. MaxTime /\ t >= now /\ Insert(t, t) /\ policy \in {"lru", "lrumin"}
    BY <1>10, ClockType DEF lru_insert, lrumin_insert
  <2>2. policy' = policy /\ now' = t
    BY <2>1 DEF Insert
  <2>3. Key = 0 .. now /\ Key' = 0 .. t
    BY <2>1, <2>2 DEF Key
  <2>4. t \in Key' /\ Key \subseteq Key' /\ t \in Nat
    BY <2>1, <2>3, <1>0
  <2> QED BY <2>1, <2>4, InsertOrder
<1>11. CASE lfu_insert
  <2>1. Insert(1, now) /\ policy = "lfu"
    BY <1>11 DEF lfu_insert
  <2>2. policy' = policy
    BY <2>1 DEF Insert
  <2>3. 1 \in Key' /\ Key \subseteq Key' /\ 1 \in Nat
    BY <2>1, <2>2, <1>0 DEF Key
  <2> QED BY <2>1, <2>3, <1>0, InsertOrder
<1>12. CASE rnd_insert
  <2>1. Insert(0, now) /\ policy = "rnd"
    BY <1>12 DEF rnd_insert
  <2>2. policy' = policy
    BY <2>1 DEF Insert
  <2>3. 0 \in Key' /\ Key \subseteq Key' /\ 0 \in Nat
    BY <2>1, <2>2 DEF Key
  <2> QED BY <2>1, <2>3, <1>0, InsertOrder
<1>13. CASE UNCHANGED vars
  BY <1>13, OrderFrame DEF vars
<1> QED BY <1>1, <1>2, <1>3, <1>4, <1>5, <1>6, <1>7, <1>8, <1>9, <1>10, <1>11, <1>12, <1>13 DEF Next

(* The order implies the property. *)
LEMMA HeapOrderHolds == ASSUME IInv, OrderInv PROVE HeapOrder
<1> SUFFICES ASSUME NEW b \in Band
             PROVE  LET q == queues[b] IN
                    /\ \A k \in 2 .. Len(q.pq) : q.keys[q.pq[k \div 2]] <= q.keys[q.pq[k]]
                    /\ \A k \in DOMAIN q.pq : q.keys[q.pq[k]] = worth[entries[q.pq[k]].url]
  BY DEF HeapOrder
<1>1. Holds(queues[b], InBand(b)) /\ DOMAIN queues[b].pq = 1 .. Len(queues[b].pq)
  BY DEF IInv, QueuesInv, Holds, Queue
<1>2. \A k \in 1 .. Len(queues[b].pq) : queues[b].pq[k] \in InBand(b)
  BY <1>1 DEF Holds
<1> QED BY <1>1, <1>2 DEF OrderInv, Ordered, key

-----------------------------------------------------------------------------
(* The steps that evict. *)

(* A cached URL has one place, in its band. *)
LEMMA CachedAt ==
  ASSUME IInv, NEW u \in Url, Cached(u) # {}
  PROVE  \E i \in Id : /\ Cached(u) = {i} /\ entries[i].url = u /\ entries[i].size \in Sizes
                       /\ size_of(u) = entries[i].size
                       /\ band_of(size_of(u)) \in Band /\ i \in InBand(band_of(size_of(u)))
<1>1. PICK i \in Id : entries[i].url = u
  BY DEF Cached
<1>2. u # NULL /\ entries \in [Id -> Entry]
  BY NullAssumption DEF IInv, TypeInv
<1>3. Cached(u) = {i}
  BY <1>1, <1>2 DEF Cached, IInv, EntriesInv
<1>4. size_of(u) = entries[i].size
  BY <1>3 DEF size_of
<1>5. entries[i].size \in Sizes
  BY <1>1, <1>2, SizeType DEF IInv, EntriesInv
<1>6. band_of(size_of(u)) \in Band
  BY <1>4, <1>5, BandOf DEF IInv
<1> QED BY <1>1, <1>2, <1>3, <1>4, <1>5, <1>6 DEF InBand

(* A step that evicts the least of a band. *)
LEMMA EvictsLeastAt ==
  ASSUME IInv, OrderInv, NEW b \in Band, NEW id \in InBand(b), NEW q, Evict(b, id, q),
         \A j \in InBand(b) : queues[b].keys[id] <= queues[b].keys[j],
         NEW u \in Url, NEW v \in Url,
         Cached(u) # {}, Cached(u)' = {}, Cached(v) # {},
         band_of(size_of(u)) = band_of(size_of(v))
  PROVE  worth[u] <= worth[v]
<1>1. PICK i \in Id : /\ entries[i].url = u
                      /\ band_of(size_of(u)) \in Band /\ i \in InBand(band_of(size_of(u)))
  BY CachedAt
<1>2. PICK j \in Id : /\ entries[j].url = v
                      /\ band_of(size_of(v)) \in Band /\ j \in InBand(band_of(size_of(v)))
  BY CachedAt
<1>3. i = id
  <2>1. entries' = [entries EXCEPT ![id] = FreeEntry] /\ entries \in [Id -> Entry]
    BY DEF Evict, IInv, TypeInv
  <2>2. i # id => entries'[i].url = u
    BY <1>1, <2>1
  <2> QED BY <2>2 DEF Cached
<1>4. band_of(size_of(u)) = b
  BY <1>1, <1>3 DEF InBand
<1>5. queues[b].keys[i] = worth[u] /\ queues[b].keys[j] = worth[v]
  BY <1>1, <1>2, <1>4 DEF OrderInv
<1>6. queues[b].keys[id] <= queues[b].keys[j]
  BY <1>2, <1>4
<1> QED BY <1>3, <1>5, <1>6

(* The first of a heap is the victim. *)
LEMMA EvictMinLeast ==
  ASSUME IInv, OrderInv, NEW b \in Band, EvictMin(b)
  PROVE  \E id \in InBand(b), q \in Queue :
           /\ Evict(b, id, q)
           /\ \A j \in InBand(b) : queues[b].keys[id] <= queues[b].keys[j]
<1>1. PICK id \in InBand(b), q \in Queue : id = indexminpq_minindex(queues[b]) /\ Evict(b, id, q)
  BY EvictMinFacts
<1>2. id = queues[b].pq[1]
  BY <1>1 DEF indexminpq_minindex
<1> DEFINE p == queues[b]
           D == InBand(b)
<1>3. Holds(p, D) /\ Ordered(p)
  BY DEF IInv, QueuesInv, OrderInv
<1> HIDE DEF p, D
<1>4. ASSUME NEW j \in D PROVE p.keys[p.pq[1]] <= p.keys[j]
  BY <1>3, HeapMin
<1> QED BY <1>1, <1>2, <1>4 DEF p, D

(* EvictsLeast and LargerVictimSuffices, of one step. *)
Least ==
  \A u, v \in Url :
    call # NULL
      /\ Cached(u) # {} /\ Cached(u)' = {}
      /\ Cached(v) # {} /\ Cached(v)' # {}
      /\ band_of(size_of(u)) = band_of(size_of(v))
    => worth[u] <= worth[v]

(* EvictsLeast of one step. *)
LEMMA LeastStep == IInv /\ OrderInv /\ [Next]_vars => Least
<1> SUFFICES ASSUME IInv, OrderInv, [Next]_vars, NEW u \in Url, NEW v \in Url,
                    call # NULL, Cached(u) # {}, Cached(u)' = {}, Cached(v) # {},
                    band_of(size_of(u)) = band_of(size_of(v))
             PROVE  worth[u] <= worth[v]
  BY DEF Least
<1>0. entries' # entries
  BY DEF Cached
<1>1. ASSUME NEW b \in Band, EvictMin(b) PROVE worth[u] <= worth[v]
  <2>1. PICK id \in InBand(b), q \in Queue :
          /\ Evict(b, id, q)
          /\ \A j \in InBand(b) : queues[b].keys[id] <= queues[b].keys[j]
    BY <1>1, EvictMinLeast
  <2> QED BY <2>1, EvictsLeastAt
<1>2. CASE lru_evict \/ lfu_evict
  <2>1. EvictMin(0) /\ 0 \in Band
    BY <1>2 DEF lru_evict, lfu_evict, Band
  <2> QED BY <2>1, <1>1
<1>3. CASE lrumin_evict
  <2>1. PICK b \in tgt_band : EvictMin(b)
    BY <1>3 DEF lrumin_evict
  <2>2. b \in Band
    BY <1>3, TargetBand DEF lrumin_evict
  <2> QED BY <2>1, <2>2, <1>1
<1>4. ASSUME NEW id \in Id, rnd_evict(id) PROVE worth[u] <= worth[v]
  <2>1. PICK q \in Queue : 0 \in Band /\ id \in InBand(0) /\ Evict(0, id, q)
    BY <1>4, RndFacts
  <2>2. Key = {0}
    BY <1>4 DEF rnd_evict, Key
  <2>3. \A j \in InBand(0) : queues[0].keys[j] = 0
    BY <2>1, <2>2 DEF OrderInv, InBand
  <2>4. \A j \in InBand(0) : queues[0].keys[id] <= queues[0].keys[j]
    BY <2>1, <2>3
  <2> QED BY <2>1, <2>4, EvictsLeastAt
<1>5. ASSUME NEW k \in Nat, NEW t \in 1 .. MaxTime, Insert(k, t) PROVE FALSE
  <2>1. PICK id \in Id :
           /\ entries[id].url = NULL
           /\ \A i \in Id : entries'[i] = IF i = id THEN [url |-> call.url, size |-> call.size] ELSE entries[i]
    BY <1>5, InsertFacts
  <2>2. PICK i \in Id : entries[i].url = u /\ u # NULL
    BY NullAssumption DEF Cached
  <2>3. entries'[i] = entries[i]
    BY <2>1, <2>2
  <2> QED BY <2>2, <2>3 DEF Cached
<1>6. ASSUME NEW t \in Clock, lru_insert(t) \/ lrumin_insert(t) PROVE FALSE
  <2>1. t \in 1 .. MaxTime /\ t \in Nat /\ Insert(t, t)
    BY <1>6, ClockType DEF lru_insert, lrumin_insert
  <2> QED BY <2>1, <1>5
<1>7. CASE lfu_insert \/ rnd_insert
  <2>1. now \in 1 .. MaxTime /\ 0 \in Nat /\ 1 \in Nat
    BY DEF IInv, TypeInv
  <2>2. Insert(0, now) \/ Insert(1, now)
    BY <1>7 DEF lfu_insert, rnd_insert
  <2> QED BY <2>1, <2>2, <1>5
<1>8. /\ ~Reinit /\ ~Refuse /\ ~UNCHANGED vars
      /\ \A x \in Url : ~rnd_get(x) /\ ~lfu_get(x) /\ \A size \in Sizes : ~BeginSet(x, size)
      /\ \A x \in Url, t \in Clock : ~lru_get(x, t) /\ ~lrumin_get(x, t)
  BY <1>0 DEF Reinit, Refuse, vars, cache, rnd_get, lfu_get, lru_get, lrumin_get, Touch, BeginSet
<1> QED BY <1>2, <1>3, <1>4, <1>6, <1>7, <1>8 DEF Next

Suffices ==
  policy = "lrumin" /\ call # NULL /\ num_entries' < num_entries
    /\ (\E id \in Id : entries[id].url # NULL
          /\ get_band(entries[id].size) > get_band(call.eviction_size))
    => ~need_eviction(call.size)'

(* LargerVictimSuffices of one step. *)
LEMMA SufficesStep == IInv /\ [Next]_vars => Suffices
<1> SUFFICES ASSUME IInv, [Next]_vars, policy = "lrumin", call # NULL, num_entries' < num_entries,
                    NEW id \in Id, entries[id].url # NULL,
                    get_band(entries[id].size) > get_band(call.eviction_size)
             PROVE  ~need_eviction(call.size)'
  BY DEF Suffices
<1>0. num_entries \in Int
  BY DEF IInv, TypeInv
<1>1. ~UNCHANGED num_entries /\ num_entries' # num_entries + 1
  BY <1>0
<1>2. lrumin_evict
  <2>1. /\ ~Reinit /\ ~Refuse /\ ~UNCHANGED vars
        /\ \A x \in Url : ~rnd_get(x) /\ ~lfu_get(x) /\ \A size \in Sizes : ~BeginSet(x, size)
        /\ \A x \in Url, t \in Clock : ~lru_get(x, t) /\ ~lrumin_get(x, t)
    BY <1>1 DEF Reinit, Refuse, vars, cache, rnd_get, lfu_get, lru_get, lrumin_get, Touch, BeginSet
  <2>2. \A t \in Clock : ~lru_insert(t) /\ ~lrumin_insert(t)
    BY <1>1 DEF lru_insert, lrumin_insert, Insert
  <2>3. ~lfu_insert /\ ~rnd_insert
    BY DEF lfu_insert, rnd_insert
  <2>4. ~lru_evict /\ ~lfu_evict /\ \A i \in Id : ~rnd_evict(i)
    BY DEF lru_evict, lfu_evict, rnd_evict
  <2> QED BY <2>1, <2>2, <2>3, <2>4 DEF Next
<1> DEFINE c == get_band(entries[id].size)
<1>3. c \in Band /\ id \in InBand(c)
  <2>1. entries[id].size \in Sizes
    BY SizeType DEF IInv, TypeInv, EntriesInv
  <2>2. band_of(entries[id].size) = c
    BY DEF band_of
  <2> QED BY <2>1, <2>2, BandOf DEF IInv, InBand
<1>4. queues[c].pq # <<>>
  <2>1. Holds(queues[c], InBand(c))
    BY <1>3 DEF IInv, QueuesInv
  <2>2. queues[c].qp[id] \in 1 .. Len(queues[c].pq)
    BY <2>1, <1>3 DEF Holds
  <2> QED BY <2>2
<1> QED BY <1>2, <1>3, <1>4, LruminEvictStep

-----------------------------------------------------------------------------
(* The theorems. *)

(* The inductive invariant holds of each of the four caches, whatever the  *)
(* keys, the sizes and the hash values, after any sequence of the sets,    *)
(* gets and evictions of lru.c, lfu.c, rnd.c and lrumin.c.                 *)
THEOREM Invariance == Spec => []IInv
<1>1. Init => IInv
  BY InitInv
<1>2. IInv /\ [Next]_vars => IInv'
  BY StepInv
<1> QED BY <1>1, <1>2, PTL DEF Spec

(* Every structure keeps its type, and the hash table of hshtbl.c never    *)
(* holds more keys than half its slots, so that each search ends.          *)
THEOREM TypeCorrectness == Spec => []TypeOK
<1>1. IInv => TypeOK
  BY TypeOKHolds
<1> QED BY <1>1, Invariance, PTL

(* The hash table, the array of entries, the stack of free places and the  *)
(* queues agree: a URL is found exactly when it has a place, though        *)
(* hshtbl_delete empties a slot in the middle of a run of others' keys.    *)
THEOREM Agreement == Spec => []StructuresAgree
<1>1. IInv => StructuresAgree
  BY StructuresAgreeHolds
<1> QED BY <1>1, Invariance, PTL

(* gtcache_memused is the sum of the sizes of the entries and never more   *)
(* than the capacity that gtcache_init was given.                          *)
THEOREM Memory == Spec => []MemoryBounded
<1>1. IInv => MemoryBounded
  BY MemoryBoundedHolds
<1> QED BY <1>1, Invariance, PTL

(* While lrumin.c needs room, the band of eviction_size is one of those    *)
(* gtcache_init allocated: the size has not wrapped.                       *)
THEOREM Bands == Spec => []BandAllocated
<1>1. IInv => BandAllocated
  BY BandAllocatedHolds
<1> QED BY <1>1, Invariance, PTL

(* When a larger band has an entry, one eviction of lrumin.c makes room.   *)
THEOREM LargerVictim == Spec => LargerVictimSuffices
<1>1. IInv /\ [Next]_vars => [Suffices]_vars
  BY SufficesStep
<1>2. [][Suffices]_vars => LargerVictimSuffices
  BY PTL DEF LargerVictimSuffices, Suffices
<1> QED BY <1>1, <1>2, Invariance, PTL DEF Spec

(* The differences of keys fit an int: the comparison of two times in      *)
(* lru.c and lrumin.c is right only then.                                  *)
KeysFit == MaxTime < IntHalf /\ MaxHits < IntHalf

(* The order of the queues is invariant. *)
LEMMA Order == ASSUME KeysFit PROVE Spec => []OrderInv
<1>1. Init => OrderInv
  BY InitInv
<1>2. IInv /\ IInv' /\ OrderInv /\ [Next]_vars => OrderInv'
  BY StepOrder DEF KeysFit
<1> QED BY <1>1, <1>2, Invariance, PTL DEF Spec

(* Every heap stays a heap of the times of access or of the hits, which    *)
(* swim and sink of indexminpq.c keep while the keys fit an int.           *)
THEOREM Heaps == ASSUME KeysFit PROVE Spec => []HeapOrder
<1>1. IInv /\ OrderInv => HeapOrder
  BY HeapOrderHolds
<1> QED BY <1>1, Order, Invariance, PTL

(* The victim is the least recently used entry (lru.c), the one with the   *)
(* fewest hits (lfu.c), the least recently used of its band (lrumin.c).    *)
THEOREM LeastEvicted == ASSUME KeysFit PROVE Spec => EvictsLeast
<1>1. IInv /\ OrderInv /\ [Next]_vars => [Least]_vars
  BY LeastStep
<1>2. [][Least]_vars => EvictsLeast
  BY PTL DEF EvictsLeast, Least
<1> QED BY <1>1, <1>2, Order, Invariance, PTL DEF Spec

-----------------------------------------------------------------------------
(* The store that gtcache.h promises. *)

(* A key has the size of its entry; one without an entry has none. *)
Lookup ==
  /\ \A u \in Url, i \in Id : entries[i].url = u => found(u) = entries[i].size /\ found(u) \in Sizes
  /\ \A u \in Url : (\A i \in Id : entries[i].url # u) => found(u) = 0

LEMMA LookupHolds == IInv => Lookup
<1> SUFFICES ASSUME IInv PROVE Lookup
  OBVIOUS
<1>0. entries \in [Id -> Entry] /\ NULL \notin Url /\ NULL \notin Id
  BY NullAssumption DEF IInv, TypeInv
<1>1. ASSUME NEW u \in Url, NEW i \in Id, entries[i].url = u
      PROVE  found(u) = entries[i].size /\ found(u) \in Sizes
  <2>1. i \in Cached(u)
    BY <1>1 DEF Cached
  <2>2. place(u) = i
    BY <2>1, PlaceDef
  <2>3. entries[i].size \in Sizes
    BY <1>0, <1>1, SizeType DEF IInv, EntriesInv
  <2> QED BY <2>2, <2>3, <1>0 DEF found
<1>2. ASSUME NEW u \in Url, \A i \in Id : entries[i].url # u
      PROVE  found(u) = 0
  <2>1. Cached(u) = {}
    BY <1>2 DEF Cached
  <2>2. place(u) = NULL
    BY <2>1, PlaceDef
  <2> QED BY <2>2 DEF found
<1> QED BY <1>1, <1>2 DEF Lookup

(* As many keys have a value as places are taken. *)
LEMMA KeysCounted == ASSUME IInv PROVE Cardinality({u \in Url : Contents[u] # 0}) = num_entries
<1> DEFINE T == {i \in Id : entries[i].size > 0}
           U == {u \in Url : Contents[u] # 0}
           f == [i \in T |-> entries[i].url]
<1>0. entries \in [Id -> Entry] /\ Lookup /\ \A size \in Sizes : size \in Nat \ {0}
  BY LookupHolds, LargestSize DEF IInv, TypeInv
<1>1. \A i \in Id : i \in T <=> entries[i].url \in Url
  <2> SUFFICES ASSUME NEW i \in Id PROVE i \in T <=> entries[i].url \in Url
    OBVIOUS
  <2>1. entries[i].size \in Nat /\ entries[i].url \in Url \cup {NULL}
    BY <1>0, SizeType
  <2> QED BY <2>1, NullAssumption DEF IInv, EntriesInv
<1>2. \A u \in Url : u \in U <=> \E i \in Id : entries[i].url = u
  BY <1>0 DEF Lookup, Contents
<1>3. f \in [T -> U] /\ \A i, j \in T : f[i] = f[j] => i = j
  <2>1. \A i \in T : i \in Id /\ entries[i].url \in Url /\ entries[i].url # NULL
    BY <1>1, NullAssumption
  <2>2. \A i \in T : entries[i].url \in U
    BY <2>1, <1>2
  <2>3. \A i, j \in T : entries[i].url = entries[j].url => i = j
    BY <2>1 DEF IInv, EntriesInv
  <2> HIDE DEF T, U
  <2> QED BY <2>2, <2>3
<1>4. ASSUME NEW u \in U PROVE \E i \in T : f[i] = u
  <2>1. u \in Url
    OBVIOUS
  <2>2. PICK i \in Id : entries[i].url = u
    BY <2>1, <1>2
  <2>3. i \in T
    BY <2>1, <2>2, <1>1
  <2> QED BY <2>2, <2>3
<1>5. T \in SUBSET Id /\ num_entries = Cardinality(T)
  BY DEF IInv, CountInv
<1> HIDE DEF T, U, f
<1>6. f \in Bijection(T, U)
  <2>1. f \in Injection(T, U)
    BY <1>3 DEF Injection, IsInjective
  <2>2. f \in Surjection(T, U)
    BY <1>3, <1>4 DEF Surjection
  <2> QED BY <2>1, <2>2 DEF Bijection
<1>7. ExistsBijection(T, U)
  BY <1>6 DEF ExistsBijection
<1>8. IsFiniteSet(T)
  BY <1>5, FiniteId
<1>9. Cardinality(U) = Cardinality(T)
  BY <1>7, <1>8, FS_Bijection
<1> QED BY <1>5, <1>9 DEF U

(* The store sees that there is no room when the cache does. *)
LEMMA RoomAgrees ==
  ASSUME IInv, NEW size \in Nat
  PROVE  Store!Room(size) <=> ~need_eviction(size)
<1>1. Store!Full <=> num_entries >= max_entries
  BY KeysCounted DEF Store!Full, Store!Cardinality, Cardinality
<1>2. mem_used \in Int /\ capacity \in Nat /\ num_entries \in Int /\ max_entries \in Nat
  BY CapacityAssumption, WidthType DEF IInv, TypeInv
<1> QED BY <1>1, <1>2 DEF Store!Room, need_eviction

(* The call as the store sees it. *)
LEMMA PendingCall ==
  ASSUME IInv, call # NULL
  PROVE  Pending # NULL /\ Pending.url = call.url /\ Pending.size = call.size
         /\ call.url \in Url /\ call.size \in Sizes /\ call.size \in Nat \ {0}
<1>1. call.url \in Url /\ call.size \in Sizes
  BY DEF IInv, TypeInv
<1> QED BY <1>1, LargestSize, CallAssumption DEF Pending

(* What the store sees of the invariant in two successive states. *)
Seen == Lookup /\ Lookup' /\ entries \in [Id -> Entry] /\ entries' \in [Id -> Entry] /\ \A u \in Url : found(u) \in Int

LEMMA SeenHolds == IInv /\ IInv' => Seen
<1> SUFFICES ASSUME IInv, IInv' PROVE Seen
  OBVIOUS
<1>1. Lookup'
  BY LookupHolds, PTL
<1>2. Lookup
  BY LookupHolds
<1>3. \A u \in Url : found(u) \in Int
  BY <1>2, LargestSize DEF Lookup
<1> QED BY <1>1, <1>2, <1>3 DEF Seen, IInv, TypeInv

(* The entries say what is found. *)
LEMMA SameFound ==
  ASSUME Seen, NEW u \in Url,
         \A i \in Id : (entries[i].url = u \/ entries'[i].url = u) => entries'[i] = entries[i]
  PROVE  found(u)' = found(u)
<1>1. CASE \E i \in Id : entries[i].url = u
  BY <1>1 DEF Seen, Lookup
<1>2. CASE \A i \in Id : entries[i].url # u
  BY <1>2 DEF Seen, Lookup
<1> QED BY <1>1, <1>2

(* A step that changes no entry. *)
LEMMA StoreStutter ==
  ASSUME Seen, UNCHANGED <<entries, mem_used>>, Pending' = Pending
  PROVE  UNCHANGED <<Contents, mem_used, Pending>>
<1>1. \A u \in Url : found(u)' = found(u)
  BY SameFound
<1> QED BY <1>1 DEF Contents

(* An eviction gives up one key. *)
LEMMA StoreGiveUp ==
  ASSUME IInv, Seen, NEW b \in Band, NEW id \in InBand(b), NEW q, Evict(b, id, q), Pending' = Pending
  PROVE  \E u \in Url : Store!GiveUp(u)
<1>1. /\ call # NULL /\ need_eviction(call.size) /\ entries' = [entries EXCEPT ![id] = FreeEntry]
      /\ mem_used' = mem_used - entries[id].size
  BY DEF Evict
<1>2. PICK u \in Url : entries[id].url = u /\ id \in Id /\ FreeEntry.url = NULL /\ NULL \notin Url
                        /\ entries \in [Id -> Entry]
  <2>1. id \in Id /\ entries[id].url # NULL
    BY DEF InBand
  <2> QED BY <2>1, SizeType, NullAssumption DEF IInv, TypeInv, FreeEntry
<1>3. \A i \in Id : entries'[i] = IF i = id THEN FreeEntry ELSE entries[i]
  BY <1>1, <1>2
<1>4. found(u) = entries[id].size /\ found(u) # 0
  BY <1>2, LargestSize DEF Seen, Lookup
<1>5. found(u)' = 0
  <2>1. \A i \in Id : entries'[i].url # u
    BY <1>2, <1>3 DEF IInv, EntriesInv
  <2> QED BY <2>1, <1>2 DEF Seen, Lookup
<1>6. ASSUME NEW v \in Url, v # u PROVE found(v)' = found(v)
  <2>1. \A i \in Id : (entries[i].url = v \/ entries'[i].url = v) => entries'[i] = entries[i]
    BY <1>2, <1>3, <1>6
  <2> QED BY <2>1, SameFound
<1>7. Contents' = [Contents EXCEPT ![u] = 0]
  BY <1>2, <1>5, <1>6 DEF Contents
<1>8. Pending # NULL /\ ~Store!Room(Pending.size)
  BY <1>1, PendingCall, RoomAgrees
<1>9. Contents[u] = found(u)
  BY <1>2 DEF Contents
<1> QED BY <1>1, <1>2, <1>4, <1>7, <1>8, <1>9 DEF Store!GiveUp

(* An insertion keeps the value of the call. *)
LEMMA StoreKeep ==
  ASSUME IInv, Seen, NEW k \in Nat, NEW t \in 1 .. MaxTime, Insert(k, t)
  PROVE  Store!Keep
<1>1. PICK id \in Id :
           /\ entries[id].url = NULL
           /\ call.url \in Url /\ call.size \in Sizes /\ call.size \in Nat \ {0}
           /\ \A i \in Id : entries[i].url # call.url
           /\ \A i \in Id : entries'[i] = IF i = id THEN [url |-> call.url, size |-> call.size] ELSE entries[i]
  BY InsertFacts
<1>2. call # NULL /\ ~need_eviction(call.size) /\ mem_used' = mem_used + call.size /\ call' = NULL
  BY DEF Insert
<1>u. PICK u \in Url : u = call.url
  BY <1>1
<1>3. found(u)' = call.size
  BY <1>1, <1>u DEF Seen, Lookup
<1>4. ASSUME NEW v \in Url, v # u PROVE found(v)' = found(v)
  <2>1. \A i \in Id : (entries[i].url = v \/ entries'[i].url = v) => entries'[i] = entries[i]
    BY <1>1, <1>u, <1>4, NullAssumption
  <2> QED BY <2>1, SameFound
<1>5. Contents' = [Contents EXCEPT ![u] = call.size]
  BY <1>1, <1>3, <1>4 DEF Contents
<1>6. Pending # NULL /\ Pending.url = u /\ Pending.size = call.size /\ Store!Room(Pending.size) /\ Pending' = NULL
  BY <1>u, <1>2, PendingCall, RoomAgrees DEF Pending
<1> QED BY <1>2, <1>5, <1>6 DEF Store!Keep

LEMMA StoreClear == ASSUME Seen, Reinit PROVE Store!Clear
<1>1. \A i \in Id : entries'[i].url = NULL
  BY DEF Reinit, Fresh, FreeEntry
<1>2. \A u \in Url : found(u)' = 0
  BY <1>1, NullAssumption DEF Seen, Lookup
<1>3. Contents' = [u \in Url |-> 0]
  BY <1>2 DEF Contents
<1> QED BY <1>3 DEF Reinit, Store!Clear, Store!Empty, Pending

(* When everything is evicted and there is no room, the value is larger    *)
(* than the cache.                                                         *)
LEMMA StoreReject == ASSUME IInv, Seen, Refuse PROVE Store!Reject
<1>1. call # NULL /\ need_eviction(call.size) /\ call' = NULL /\ entries' = entries /\ mem_used' = mem_used
  BY DEF Refuse, cache
<1>2. ASSUME NEW i \in Id PROVE entries[i].url = NULL
  <2> SUFFICES ASSUME entries[i].url # NULL PROVE FALSE
    OBVIOUS
  <2>1. entries[i].size \in Sizes
    BY SizeType DEF IInv, TypeInv, EntriesInv
  <2> DEFINE b == band_of(entries[i].size)
  <2>2. b \in Band /\ i \in InBand(b)
    BY <2>1, BandOf DEF IInv, InBand
  <2>3. Holds(queues[b], InBand(b)) /\ queues[b].pq = <<>>
    <3>1. queues[b].pq = <<>>
      BY <1>1, <2>2, NoTarget DEF Refuse
    <3> QED BY <2>2, <3>1 DEF IInv, QueuesInv
  <2>4. queues[b].qp[i] \in 1 .. Len(queues[b].pq)
    BY <2>2, <2>3 DEF Holds
  <2> QED BY <2>3, <2>4
<1>3. \A u \in Url : found(u) = 0 /\ found(u)' = 0
  BY <1>1, <1>2, NullAssumption DEF Seen, Lookup
<1>4. Contents = [u \in Url |-> 0] /\ Contents' = Contents
  BY <1>3 DEF Contents
<1>5. call.size > capacity
  <2>1. \A i \in Id : entries[i].size = 0
    BY <1>2 DEF IInv, EntriesInv
  <2>2. mem_used = 0
    BY <2>1, TotalEmpty DEF IInv, TypeInv, CountInv
  <2>3. {i \in Id : entries[i].size > 0} = {}
    BY <2>1
  <2>4. num_entries = 0
    BY <2>3, FS_EmptySet DEF IInv, CountInv
  <2> QED BY <2>2, <2>4, <1>1, WidthType, CapacityAssumption, PendingCall DEF need_eviction
<1> QED BY <1>1, <1>4, <1>5, PendingCall DEF Store!Reject, Store!Empty, Pending

(* The call of gtcache_set. *)
LEMMA StoreSet ==
  ASSUME IInv, Seen, NEW u \in Url, NEW size \in Sizes, BeginSet(u, size)
  PROVE  Store!Set(u, size)
<1>1. /\ call = NULL /\ place(u) = NULL /\ entries' = entries /\ mem_used' = mem_used
      /\ call' = [url |-> u, size |-> size, eviction_size |-> size]
  BY DEF BeginSet, place, cache
<1>2. call' # NULL
  <2>1. size \in 0 .. shift[SizeBits] - 1
    BY LargestSize, SizeBitsAssumption, ShiftDef, BoundsAssumption
  <2> QED BY <2>1, <1>1, CallAssumption
<1>3. Pending = NULL /\ Pending' = [url |-> u, size |-> size]
  BY <1>1, <1>2 DEF Pending
<1>4. \A v \in Url : found(v)' = found(v)
  BY <1>1, SameFound
<1>5. Contents' = Contents /\ Contents[u] = 0
  BY <1>1, <1>4 DEF Contents, found
<1> QED BY <1>1, <1>3, <1>5 DEF Store!Set

(* Every step is a step of the store, or none. *)
LEMMA StoreStep ==
  IInv /\ IInv' /\ [Next]_vars => Store!SNext \/ UNCHANGED <<Contents, mem_used, Pending>>
<1> SUFFICES ASSUME IInv, IInv', [Next]_vars PROVE Store!SNext \/ UNCHANGED <<Contents, mem_used, Pending>>
  OBVIOUS
<1>0. Seen
  BY SeenHolds
<1>c. ASSUME call' = call PROVE Pending' = Pending
  BY <1>c DEF Pending
<1>1. CASE Reinit
  BY <1>0, <1>1, StoreClear DEF Store!SNext
<1>2. CASE Refuse
  BY <1>0, <1>2, StoreReject DEF Store!SNext
<1>3. ASSUME NEW u \in Url, NEW t \in Clock, lru_get(u, t) \/ lrumin_get(u, t)
      PROVE  UNCHANGED <<Contents, mem_used, Pending>>
  BY <1>0, <1>c, <1>3, StoreStutter DEF lru_get, lrumin_get, Touch
<1>4. ASSUME NEW u \in Url, lfu_get(u) \/ rnd_get(u)
      PROVE  UNCHANGED <<Contents, mem_used, Pending>>
  BY <1>0, <1>c, <1>4, StoreStutter DEF lfu_get, rnd_get, Touch, vars, cache
<1>5. ASSUME NEW u \in Url, NEW size \in Sizes, BeginSet(u, size) PROVE Store!SNext
  BY <1>0, <1>5, StoreSet DEF Store!SNext
<1>6. ASSUME NEW b \in Band, EvictMin(b), Pending' = Pending PROVE Store!SNext
  <2>1. PICK id \in InBand(b), q \in Queue : Evict(b, id, q)
    BY <1>6, EvictMinFacts
  <2> QED BY <2>1, <1>0, <1>6, StoreGiveUp DEF Store!SNext
<1>7. CASE lru_evict \/ lfu_evict
  <2>1. EvictMin(0) /\ 0 \in Band /\ call' = call
    BY <1>7 DEF lru_evict, lfu_evict, Band
  <2> QED BY <2>1, <1>c, <1>6
<1>8. CASE lrumin_evict
  <2>1. PICK b \in tgt_band :
          /\ EvictMin(b) /\ call # NULL
          /\ call' = [call EXCEPT !.eviction_size =
                        (@ - entries[indexminpq_minindex(queues[b])].size) % shift[SizeBits]]
    BY <1>8 DEF lrumin_evict
  <2>2. b \in Band
    BY <1>8, TargetBand DEF lrumin_evict
  <2>3. Pending' = Pending
    <3> DEFINE x == (call.eviction_size - entries[indexminpq_minindex(queues[b])].size) % shift[SizeBits]
    <3>1. call \in [url : Url, size : Sizes, eviction_size : 0 .. shift[SizeBits] - 1]
      BY <2>1 DEF IInv, TypeInv
    <3>2. call' = [call EXCEPT !.eviction_size = x]
      BY <2>1
    <3> HIDE DEF x
    <3>3. call'.url = call.url /\ call'.size = call.size
      BY <3>1, <3>2
    <3>4. call' # NULL
      <4>1. indexminpq_minindex(queues[b]) \in Id
        BY <2>1, <2>2, EvictMinFacts DEF InBand
      <4>2. entries[indexminpq_minindex(queues[b])].size \in Int /\ shift[SizeBits] \in Nat \ {0}
        <5>1. entries \in [Id -> Entry]
          BY DEF IInv, TypeInv
        <5>2. entries[indexminpq_minindex(queues[b])].size \in Int
          BY <4>1, <5>1, SizeType
        <5>3. SizeBits \in 0 .. SizeBits + 1
          BY BoundsAssumption
        <5> QED BY <5>2, <5>3, ShiftDef
      <4>3. x \in 0 .. shift[SizeBits] - 1
        <5> DEFINE d == call.eviction_size - entries[indexminpq_minindex(queues[b])].size
        <5>1. d \in Int
          BY <3>1, <4>2
        <5> HIDE DEF d
        <5>2. d % shift[SizeBits] \in 0 .. shift[SizeBits] - 1
          BY <5>1, <4>2, ModType
        <5> QED BY <5>2 DEF x, d
      <4>4. call' \in [url : Url, size : Sizes, eviction_size : 0 .. shift[SizeBits] - 1]
        BY <3>1, <3>2, <4>3
      <4> QED BY <4>4, CallAssumption
    <3> QED BY <2>1, <3>3, <3>4 DEF Pending
  <2> QED BY <2>1, <2>2, <2>3, <1>6
<1>9. ASSUME NEW id \in Id, rnd_evict(id) PROVE Store!SNext
  <2>1. PICK q \in Queue : 0 \in Band /\ id \in InBand(0) /\ Evict(0, id, q)
    BY <1>9, RndFacts
  <2>2. Pending' = Pending
    BY <1>9, <1>c DEF rnd_evict
  <2> QED BY <2>1, <2>2, <1>0, StoreGiveUp DEF Store!SNext
<1>10. ASSUME NEW t \in Clock, lru_insert(t) \/ lrumin_insert(t) PROVE Store!SNext
  <2>1. t \in 1 .. MaxTime /\ t \in Nat /\ Insert(t, t)
    BY <1>10, ClockType DEF lru_insert, lrumin_insert
  <2> QED BY <2>1, <1>0, StoreKeep DEF Store!SNext
<1>11. CASE lfu_insert \/ rnd_insert
  <2>1. now \in 1 .. MaxTime /\ 0 \in Nat /\ 1 \in Nat
    BY DEF IInv, TypeInv
  <2>2. Insert(0, now) \/ Insert(1, now)
    BY <1>11 DEF lfu_insert, rnd_insert
  <2> QED BY <2>1, <2>2, <1>0, StoreKeep DEF Store!SNext
<1>12. CASE UNCHANGED vars
  BY <1>0, <1>c, <1>12, StoreStutter DEF vars, cache
<1> QED BY <1>1, <1>2, <1>3, <1>4, <1>5, <1>7, <1>8, <1>9, <1>10, <1>11, <1>12 DEF Next

LEMMA StoreInit == Init => Store!SInit
<1> SUFFICES ASSUME Init PROVE Store!SInit
  OBVIOUS
<1>1. IInv /\ \A i \in Id : entries[i].url = NULL
  BY InitInv DEF Init, Fresh, FreeEntry
<1>2. \A u \in Url : found(u) = 0
  BY <1>1, LookupHolds, NullAssumption DEF Lookup
<1>3. Contents = [u \in Url |-> 0]
  BY <1>2 DEF Contents
<1> QED BY <1>3 DEF Init, Pending, Store!SInit, Store!Empty

(* Whatever the policy, what gtcache_get finds is the store of gtcache.h:  *)
(* gtcache_set gives up one key after another, only while there is no      *)
(* room, then stores its value, and refuses only what is larger than the   *)
(* whole cache; no search through colliding keys sees another key come or  *)
(* go.                                                                     *)
THEOREM StoreImplemented == Spec => ImplementsStore
<1>1. Init => Store!SInit
  BY StoreInit
<1>2. IInv /\ IInv' /\ [Next]_vars => [Store!SNext]_(<<Contents, mem_used, Pending>>)
  BY StoreStep
<1> QED BY <1>1, <1>2, Invariance, PTL DEF Spec, ImplementsStore, Store!SSpec, Store!svars

=============================================================================
