-------------------------- MODULE MpiBarrier_proof --------------------------
(***************************************************************************)
(* Proofs about MpiBarrier: the three programs keep their lists, receive   *)
(* every message in the episode in which it was sent, and implement the    *)
(* abstract barrier, for any number of processes, any number of episodes,  *)
(* and with buffered sends as without.                                     *)
(*                                                                         *)
(* First some facts about remainders and powers of two, then what the      *)
(* lists of the three programs have in common, last the invariant.         *)
(***************************************************************************)
EXTENDS MpiBarrier, SequenceTheorems, WellFoundedInduction, TLAPS

-----------------------------------------------------------------------------
(* Who talks to whom.  What a list says beside its tags is the same in     *)
(* every episode.                                                          *)

plan(prog, p) == operations(prog, p, 0)

Sends(prog, p, q, k) ==
  k \in DOMAIN plan(prog, p) /\ plan(prog, p)[k].do = "send" /\ plan(prog, p)[k].peer = q

Receives(prog, q, p, k) ==
  k \in DOMAIN plan(prog, q) /\ plan(prog, q)[k].do = "recv" /\ plan(prog, q)[k].peer = p

Talks(prog, p, q) == \E k \in Nat : Sends(prog, p, q, k)

(* The places of the one send from p to q in the list of p, and of its     *)
(* receive in the list of q.                                               *)
to(prog, p, q) == CHOOSE k \in Nat : Sends(prog, p, q, k)
from(prog, q, p) == CHOOSE k \in Nat : Receives(prog, q, p, k)

(* Who has entered the episode for certain when p is at place k.           *)
distance(x, p) == IF x <= p THEN p - x ELSE p - x + num_procs

Beaten(p, j) == {x \in Proc : p <= x /\ x < p + 2 ^ (j - 1)}

Known(prog, p, k) ==
  CASE prog = "counter" -> IF p = 0 THEN {x \in Proc : x < k}
                                    ELSE IF k <= 2 THEN {p} ELSE Proc
    [] prog = "dissemination" -> {x \in Proc : distance(x, p) < 2 ^ ((k - 1) \div 2)}
    [] prog = "tournament" ->
         LET last == lastround(p) IN
         IF k <= last THEN Beaten(p, k)
         ELSE IF k = last + 1 /\ role(p, last) = "loser" THEN Beaten(p, last) ELSE Proc

-----------------------------------------------------------------------------
(* The inductive invariant. *)

CallOK ==
  \A p \in Proc :
    /\ entered[p] = IF pc[p] = 0 THEN left[p] ELSE left[p] + 1
    /\ cur_bar[p] = left[p]
    /\ p \in sending => At(p, "send") /\ ~buffered

(* How many messages p has sent to q, and how many of them q has received. *)
sent(p, q) ==
  LET k == to(program, p, q) IN
  IF pc[p] > k \/ (pc[p] = k /\ p \in sending) THEN left[p] + 1 ELSE left[p]

received(q, p) == IF pc[q] > from(program, q, p) THEN left[q] + 1 ELSE left[q]

(* The messages between, those of the episodes r + 1 .. s, are in the      *)
(* channel c from p to q in their order.                                   *)
InOrder(prog, p, q, c, r, s) ==
  IF Talks(prog, p, q)
    THEN /\ r <= s /\ Len(c) = s - r
         /\ \A i \in 1 .. Len(c) :
              /\ c[i].ep = r + i
              /\ c[i].tag = operations(prog, p, r + i - 1)[to(prog, p, q)].tag
    ELSE c = <<>>

Orderly(p, q) == InOrder(program, p, q, channel[<<p, q>>], received(q, p), sent(p, q))

ChannelOK == \A p, q \in Proc : Orderly(p, q)

KnownOK ==
  \A p \in Proc : pc[p] # 0 =>
    \A x \in Known(program, p, pc[p]) : entered[p] <= entered[x]

(* Nobody leaves an episode before everybody has entered it. *)
BarrierSafety == \A p, q \in Proc : left[p] <= entered[q]

IInv == TypeOK /\ CallOK /\ ChannelOK /\ KnownOK /\ BarrierSafety

-----------------------------------------------------------------------------
(* Numbers.  A set of numbers that is not empty has a least one, which     *)
(* stands for induction here.                                              *)

LEMMA LeastNumber ==
  ASSUME NEW S \in SUBSET Nat, S # {}
  PROVE  \E n \in S : \A m \in S : n <= m
<1>. DEFINE Smaller == OpToRel(<, Nat)
<1>1. \A x, y \in Nat : x < y => <<x, y>> \in Smaller
  BY Zenon DEF OpToRel
<1>. HIDE DEF Smaller
<1>2. IsWellFoundedOn(Smaller, Nat)
  BY Zenon, NatLessThanWellFounded DEF Smaller
<1>3. PICK n \in S : \A m \in S : ~ (<<m, n>> \in Smaller)
  BY <1>2, WFMin
<1>4. ASSUME NEW m \in S PROVE n <= m
  <2>1. m \in Nat /\ n \in Nat /\ ~ (m < n)
    BY Zenon, <1>1, <1>3
  <2>. QED  BY <2>1
<1>. QED  BY <1>4

LEMMA CountUp ==
  ASSUME NEW n \in Nat, NEW S, 0 \in S, \A i \in 0 .. n : i \in S => i + 1 \in S
  PROVE  0 .. n + 1 \subseteq S
<1>. DEFINE Missing == {i \in 0 .. n + 1 : i \notin S}
<1>. SUFFICES ASSUME Missing # {} PROVE FALSE
  OBVIOUS
<1>1. PICK m \in Missing : \A i \in Missing : m <= i
  <2>1. Missing \in SUBSET Nat
    OBVIOUS
  <2>. HIDE DEF Missing
  <2>. QED  BY <2>1, LeastNumber
<1>2. m - 1 \in 0 .. n /\ m - 1 \notin Missing /\ (m - 1) + 1 = m
  BY <1>1
<1>. QED  BY <1>1, <1>2

(* 2 ^ i, for the numbers i that occur. *)
LEMMA PowerStep ==
  ASSUME NEW i \in 0 .. num_procs
  PROVE  2 ^ (i + 1) = 2 * 2 ^ i
  BY PowersAssumption

LEMMA PowerType ==
  \A i \in 0 .. num_procs + 1 : 2 ^ i \in Nat /\ i < 2 ^ i
<1>. DEFINE Good == {i \in Nat : 2 ^ i \in Nat /\ i < 2 ^ i}
<1>1. 0 \in Good
  BY PowersAssumption
<1>2. ASSUME NEW i \in 0 .. num_procs, i \in Good PROVE i + 1 \in Good
  BY <1>2, PowerStep, NumProcsAssumption
<1>. HIDE DEF Good
<1>3. 0 .. num_procs + 1 \subseteq Good
  BY <1>1, <1>2, CountUp, NumProcsAssumption
<1>. QED  BY <1>3 DEF Good

LEMMA PowerGrows ==
  \A i \in 0 .. num_procs + 1 : \A j \in 0 .. i :
     /\ 2 ^ j <= 2 ^ i
     /\ j < i => 2 * 2 ^ j <= 2 ^ i
<1>. DEFINE Good == {i \in Nat : \A j \in 0 .. i : 2 ^ j <= 2 ^ i /\ (j < i => 2 * 2 ^ j <= 2 ^ i)}
<1>1. 0 \in Good
  <2>1. 2 ^ 0 <= 2 ^ 0 /\ ~ (0 < 0)
    BY PowersAssumption
  <2>2. \A j \in 0 .. 0 : j = 0
    OBVIOUS
  <2>. QED  BY <2>1, <2>2
<1>2. ASSUME NEW i \in 0 .. num_procs, i \in Good PROVE i + 1 \in Good
  <2>. SUFFICES ASSUME NEW j \in 0 .. i + 1
                PROVE  2 ^ j <= 2 ^ (i + 1) /\ (j < i + 1 => 2 * 2 ^ j <= 2 ^ (i + 1))
    OBVIOUS
  <2>1. 2 ^ (i + 1) = 2 * 2 ^ i /\ 2 ^ i \in Nat
    BY PowerStep, PowerType, NumProcsAssumption
  <2>2. CASE j = i + 1
    BY <2>1, <2>2
  <2>3. CASE j # i + 1
    <3>1. j \in 0 .. i /\ j \in 0 .. num_procs + 1
      BY <2>3, NumProcsAssumption
    <3>2. 2 ^ j <= 2 ^ i /\ 2 ^ j \in Nat
      BY <1>2, <3>1, PowerType
    <3>. QED  BY <2>1, <3>2
  <2>. QED  BY <2>2, <2>3
<1>. HIDE DEF Good
<1>3. 0 .. num_procs + 1 \subseteq Good
  BY <1>1, <1>2, CountUp, NumProcsAssumption
<1>. QED  BY <1>3 DEF Good

LEMMA RemainderSmall ==
  ASSUME NEW n \in Nat \ {0}, NEW a \in Nat, a < 2 * n
  PROVE  a % n = IF a < n THEN a ELSE a - n
  OBVIOUS

LEMMA RemainderUnique ==
  ASSUME NEW n \in Nat \ {0}, NEW q \in Nat, NEW r \in 0 .. n - 1
  PROVE  (n * q + r) % n = r
  OBVIOUS

LEMMA RemainderSplit ==
  ASSUME NEW n \in Nat \ {0}, NEW a \in Nat
  PROVE  /\ a % n \in 0 .. n - 1
         /\ a \div n \in Nat
         /\ a = n * (a \div n) + (a % n)
<1>1. a % n \in 0 .. n - 1
  OBVIOUS
<1>2. a = n * (a \div n) + (a % n) /\ a \div n \in Int
  OBVIOUS
<1>3. a \div n >= 0
  OBVIOUS
<1>. QED  BY <1>1, <1>2, <1>3

Rest(a, n, r) == \E q \in Nat : a = n * q + r

LEMMA RestIsRemainder ==
  ASSUME NEW n \in Nat \ {0}, NEW a \in Nat, NEW r \in 0 .. n - 1
  PROVE  a % n = r <=> Rest(a, n, r)
<1>1. ASSUME a % n = r PROVE Rest(a, n, r)
  <2>1. a \div n \in Nat /\ a = n * (a \div n) + (a % n)
    BY RemainderSplit
  <2>2. a = n * (a \div n) + r
    BY <1>1, <2>1
  <2>. QED  BY <2>1, <2>2 DEF Rest
<1>2. ASSUME Rest(a, n, r) PROVE a % n = r
  <2>1. PICK q \in Nat : a = n * q + r
    BY <1>2 DEF Rest
  <2>2. (n * q + r) % n = r
    BY RemainderUnique
  <2>. QED  BY <2>1, <2>2
<1>. QED  BY <1>1, <1>2

(* Multiples of n are the multiples of 2 * n and what is halfway between.  *)
LEMMA RestDouble ==
  ASSUME NEW n \in Nat \ {0}, NEW a \in Nat
  PROVE  Rest(a, n, 0) <=> Rest(a, 2 * n, 0) \/ Rest(a, 2 * n, n)
<1>1. ASSUME NEW q \in Nat
      PROVE  /\ (2 * n) * q + 0 = n * (2 * q) + 0 /\ 2 * q \in Nat
             /\ (2 * n) * q + n = n * (2 * q + 1) + 0 /\ 2 * q + 1 \in Nat
  OBVIOUS
<1>2. ASSUME Rest(a, 2 * n, 0) PROVE Rest(a, n, 0)
  <2>1. PICK q \in Nat : a = (2 * n) * q + 0
    BY <1>2 DEF Rest
  <2>2. a = n * (2 * q) + 0 /\ 2 * q \in Nat
    BY <1>1, <2>1
  <2>. QED  BY <2>2 DEF Rest
<1>3. ASSUME Rest(a, 2 * n, n) PROVE Rest(a, n, 0)
  <2>1. PICK q \in Nat : a = (2 * n) * q + n
    BY <1>3 DEF Rest
  <2>2. a = n * (2 * q + 1) + 0 /\ 2 * q + 1 \in Nat
    BY <1>1, <2>1
  <2>. QED  BY <2>2 DEF Rest
<1>4. ASSUME Rest(a, n, 0) PROVE Rest(a, 2 * n, 0) \/ Rest(a, 2 * n, n)
  <2>1. PICK m \in Nat : a = n * m + 0
    BY <1>4 DEF Rest
  <2>2. PICK q \in Nat : m = 2 * q \/ m = 2 * q + 1
    <3>1. m % 2 \in 0 .. 1 /\ m \div 2 \in Nat /\ m = 2 * (m \div 2) + (m % 2)
      BY RemainderSplit
    <3>. QED  BY <3>1
  <2>3. a = (2 * n) * q + 0 \/ a = (2 * n) * q + n
    BY <1>1, <2>1, <2>2
  <2>. QED  BY <2>3 DEF Rest
<1>. QED  BY <1>2, <1>3, <1>4

LEMMA RestShift ==
  ASSUME NEW n \in Nat, NEW d \in Nat, NEW a \in Nat
  PROVE  /\ Rest(a, d, 0) => Rest(a + n, d, n)
         /\ Rest(a, d, n) => a >= n /\ Rest(a - n, d, 0)
<1>1. ASSUME Rest(a, d, 0) PROVE Rest(a + n, d, n)
  <2>1. PICK q \in Nat : a = d * q + 0
    BY <1>1 DEF Rest
  <2>2. a + n = d * q + n
    BY <2>1
  <2>. QED  BY <2>2 DEF Rest
<1>2. ASSUME Rest(a, d, n) PROVE a >= n /\ Rest(a - n, d, 0)
  <2>1. PICK q \in Nat : a = d * q + n
    BY <1>2 DEF Rest
  <2>2. d * q \in Nat
    OBVIOUS
  <2>3. a >= n /\ a - n = d * q + 0
    BY <2>1, <2>2
  <2>. QED  BY <2>3 DEF Rest
<1>. QED  BY <1>1, <1>2

LEMMA RemainderDouble ==
  ASSUME NEW n \in Nat \ {0}, NEW d, d = 2 * n, NEW a \in Nat
  PROVE  a % n = 0 <=> a % d = 0 \/ a % d = n
<1>1. d \in Nat \ {0} /\ 0 \in 0 .. n - 1 /\ 0 \in 0 .. d - 1 /\ n \in 0 .. d - 1
  OBVIOUS
<1>2. /\ a % n = 0 <=> Rest(a, n, 0)
      /\ a % d = 0 <=> Rest(a, d, 0)
      /\ a % d = n <=> Rest(a, d, n)
  BY <1>1, RestIsRemainder
<1>. QED  BY <1>2, RestDouble

LEMMA RemainderShift ==
  ASSUME NEW n \in Nat \ {0}, NEW d, d = 2 * n, NEW a \in Nat
  PROVE  /\ a % d = 0 => (a + n) % d = n
         /\ a % d = n => a >= n /\ (a - n) % d = 0
<1>1. d \in Nat \ {0} /\ 0 \in 0 .. d - 1 /\ n \in 0 .. d - 1 /\ a + n \in Nat
  OBVIOUS
<1>2. a % d = 0 <=> Rest(a, d, 0)
  BY <1>1, RestIsRemainder
<1>3. a % d = n <=> Rest(a, d, n)
  BY <1>1, RestIsRemainder
<1>4. (a + n) % d = n <=> Rest(a + n, d, n)
  BY <1>1, RestIsRemainder
<1>5. ASSUME a >= n PROVE (a - n) % d = 0 <=> Rest(a - n, d, 0)
  <2>1. a - n \in Nat
    BY <1>5
  <2>. QED  BY <1>1, <2>1, RestIsRemainder
<1>6. /\ Rest(a, d, 0) => Rest(a + n, d, n)
      /\ Rest(a, d, n) => a >= n /\ Rest(a - n, d, 0)
  BY <1>1, RestShift
<1>. QED  BY <1>2, <1>3, <1>4, <1>5, <1>6

LEMMA Half ==
  ASSUME NEW k \in Nat \ {0}
  PROVE  /\ (k - 1) \div 2 \in Nat
         /\ k % 2 = 1 => k = 2 * ((k - 1) \div 2) + 1
         /\ k % 2 # 1 => k = 2 * ((k - 1) \div 2) + 2
<1>1. /\ (k - 1) % 2 \in 0 .. 1 /\ (k - 1) \div 2 \in Nat
      /\ k - 1 = 2 * ((k - 1) \div 2) + ((k - 1) % 2)
  BY RemainderSplit
<1>2. k % 2 \in 0 .. 1 /\ k \div 2 \in Nat /\ k = 2 * (k \div 2) + (k % 2)
  BY RemainderSplit
<1>. QED  BY <1>1, <1>2

(* ceillog2(num_procs) is the number of bits of num_procs - 1. *)
LEMMA Rounds ==
  /\ ceillog2(num_procs) \in 1 .. num_procs
  /\ 2 ^ ceillog2(num_procs) >= num_procs
  /\ \A j \in 0 .. ceillog2(num_procs) - 1 : 2 ^ j < num_procs
<1>. DEFINE Enough == {i \in 0 .. num_procs : 2 ^ i >= num_procs}
            IsLog(i) == 2 ^ i >= num_procs /\ \A j \in 0 .. i - 1 : 2 ^ j < num_procs
            r == CHOOSE i \in 0 .. num_procs : IsLog(i)
<1>1. num_procs \in Enough /\ Enough \in SUBSET Nat
  BY PowerType, NumProcsAssumption
<1>2. PICK m \in Enough : \A i \in Enough : m <= i
  <2>. HIDE DEF Enough
  <2>. QED  BY <1>1, LeastNumber
<1>3. ASSUME NEW j \in 0 .. m - 1 PROVE 2 ^ j < num_procs
  <2>1. j \in 0 .. num_procs /\ j \notin Enough /\ j \in 0 .. num_procs + 1
    BY <1>2, NumProcsAssumption
  <2>2. 2 ^ j \in Nat
    BY <2>1, PowerType
  <2>. QED  BY <2>1, <2>2, NumProcsAssumption
<1>4. m \in 0 .. num_procs /\ IsLog(m)
  BY <1>2, <1>3
<1>5. r \in 0 .. num_procs /\ IsLog(r)
  <2>. HIDE DEF IsLog
  <2>. QED  BY <1>4
<1>6. r # 0
  BY <1>5, PowersAssumption, NumProcsAssumption
<1>7. r \in 1 .. num_procs /\ IsLog(r)
  <2>. HIDE DEF IsLog, r
  <2>. QED  BY <1>5, <1>6
<1>8. ceillog2(num_procs) = r
  BY DEF ceillog2
<1>. QED
  <2>. HIDE DEF r
  <2>. QED  BY <1>7, <1>8

(* 2 ^ i for a round i. *)
LEMMA RoundPower ==
  ASSUME NEW i \in 0 .. ceillog2(num_procs) - 1
  PROVE  /\ 2 ^ i \in 1 .. num_procs - 1
         /\ 2 ^ (i + 1) = 2 * 2 ^ i
         /\ \A j \in 0 .. ceillog2(num_procs) - 1 : 2 ^ i = 2 ^ j => i = j
<1>1. i \in 0 .. num_procs /\ i \in 0 .. num_procs + 1
  BY Rounds, NumProcsAssumption
<1>2. 2 ^ i \in Nat /\ i < 2 ^ i /\ 2 ^ i < num_procs
  BY <1>1, PowerType, Rounds
<1>3. ASSUME NEW j \in 0 .. ceillog2(num_procs) - 1, i # j PROVE 2 ^ i # 2 ^ j
  <2>1. j \in 0 .. num_procs + 1
    BY Rounds, NumProcsAssumption
  <2>2. 2 ^ j \in Nat /\ j < 2 ^ j
    BY <2>1, PowerType
  <2>3. CASE i < j
    <3>1. 2 * 2 ^ i <= 2 ^ j
      BY <1>1, <2>1, <2>3, PowerGrows
    <3>. QED  BY <1>1, <1>2, <2>2, <3>1
  <2>4. CASE j < i
    <3>1. 2 * 2 ^ j <= 2 ^ i
      BY <1>1, <2>1, <2>4, PowerGrows
    <3>. QED  BY <1>1, <1>2, <2>1, <2>2, <3>1
  <2>. QED  BY <1>1, <1>3, <2>1, <2>3, <2>4
<1>4. 2 ^ i \in 1 .. num_procs - 1
  BY <1>1, <1>2, NumProcsAssumption
<1>. QED  BY <1>1, <1>3, <1>4, PowerStep

-----------------------------------------------------------------------------
(* What is to be shown of each of the three programs.                      *)

Operation == [do : {"send", "recv", "bye"}, peer : Proc, tag : Nat]

(* Length, kinds and peers do not depend on the episode. *)
Alike(l, m) == Len(l) = Len(m) /\ \A k \in 1 .. Len(l) : l[k].do = m[k].do /\ l[k].peer = m[k].peer

Shaped(prog) ==
  \A p \in Proc : \A b \in 0 .. Episodes :
    /\ operations(prog, p, b) \in Seq(Operation) /\ Len(operations(prog, p, b)) >= 1
    /\ Alike(operations(prog, p, b), plan(prog, p))

(* Between two processes there is one message in an episode. *)
OnePlace(prog) ==
  \A p, q \in Proc : \A j, k \in Nat :
    /\ Sends(prog, p, q, j) /\ Sends(prog, p, q, k) => j = k
    /\ Receives(prog, q, p, j) /\ Receives(prog, q, p, k) => j = k

Paired(prog) ==
  \A p, q \in Proc : \A k \in Nat :
    /\ Sends(prog, p, q, k) => \E j \in Nat : Receives(prog, q, p, j)
    /\ Receives(prog, q, p, k) => \E j \in Nat : Sends(prog, p, q, j)

(* It has one tag, and brings what the sender knows. *)
Delivered(prog) ==
  \A p, q \in Proc : \A j, k \in Nat :
    Sends(prog, p, q, j) /\ Receives(prog, q, p, k) =>
      /\ \A b \in 0 .. Episodes : operations(prog, p, b)[j].tag = operations(prog, q, b)[k].tag
      /\ Known(prog, q, k + 1) \subseteq Known(prog, q, k) \cup Known(prog, p, j)

(* From itself to everybody, and only by what is received. *)
Learned(prog) ==
  \A p \in Proc :
    /\ Known(prog, p, 1) \subseteq {p}
    /\ Known(prog, p, Len(plan(prog, p)) + 1) = Proc
    /\ \A j, k \in 1 .. Len(plan(prog, p)) + 1 : j <= k => Known(prog, p, j) \subseteq Known(prog, p, k)
    /\ \A k \in 1 .. Len(plan(prog, p)) :
         plan(prog, p)[k].do # "recv" => Known(prog, p, k + 1) \subseteq Known(prog, p, k)

-----------------------------------------------------------------------------
(* The counter. *)

LEMMA CounterList ==
  ASSUME NEW p \in Proc, NEW b
  PROVE  /\ operations("counter", p, b) = counter[p]
         /\ p = 0 => /\ counter[p] \in Seq(Operation)
                     /\ Len(counter[p]) = 2 * (num_procs - 1)
                     /\ \A k \in 1 .. num_procs - 1 : counter[p][k] = Recv(k, 1)
                     /\ \A k \in num_procs .. 2 * (num_procs - 1) : counter[p][k] = Send(k - num_procs + 1, 1)
         /\ p # 0 => counter[p] = <<Send(0, 1), Recv(0, 1)>> /\ counter[p] \in Seq(Operation)
<1>. DEFINE m == 2 * (num_procs - 1)
            list == [k \in 1 .. m |-> IF k < num_procs THEN Recv(k, 1) ELSE Send(k - num_procs + 1, 1)]
<1>1. operations("counter", p, b) = counter[p]
  BY Zenon DEF operations
<1>2. counter[p] = IF p = 0 THEN list ELSE <<Send(0, 1), Recv(0, 1)>>
  BY DEF counter
<1>3. m \in Nat /\ 0 \in Proc
  BY NumProcsAssumption DEF Proc
<1>4. \A k \in 1 .. m : list[k] \in Operation
  <2>. SUFFICES ASSUME NEW k \in 1 .. m PROVE list[k] \in Operation
    OBVIOUS
  <2>1. CASE k < num_procs
    BY <2>1, NumProcsAssumption DEF Proc, Operation, Recv
  <2>2. CASE ~ (k < num_procs)
    BY <2>2, NumProcsAssumption DEF Proc, Operation, Send
  <2>. QED  BY <2>1, <2>2
<1>5. list \in [1 .. m -> Operation]
  BY <1>4
<1>6. list \in Seq(Operation) /\ Len(list) = m
  <2>1. DOMAIN list = 1 .. m
    OBVIOUS
  <2>. HIDE DEF list
  <2>. QED  BY <1>3, <1>5, <2>1
<1>7. /\ \A k \in 1 .. num_procs - 1 : list[k] = Recv(k, 1)
      /\ \A k \in num_procs .. m : list[k] = Send(k - num_procs + 1, 1)
  BY NumProcsAssumption
<1>8. <<Send(0, 1), Recv(0, 1)>> \in Seq(Operation)
  BY <1>3 DEF Send, Recv, Operation
<1>. HIDE DEF list
<1>. QED  BY <1>1, <1>2, <1>6, <1>7, <1>8

(* The places at which it sends and receives. *)
LEMMA CounterTalk ==
  ASSUME NEW p \in Proc, NEW q \in Proc, NEW k \in Nat
  PROVE  /\ Sends("counter", p, q, k) <=>
              IF p = 0 THEN q # 0 /\ k = q + num_procs - 1 ELSE q = 0 /\ k = 1
         /\ Receives("counter", p, q, k) <=>
              IF p = 0 THEN q # 0 /\ k = q ELSE q = 0 /\ k = 2
<1>1. plan("counter", p) = counter[p]
  BY CounterList DEF plan
<1>2. CASE p = 0
  <2>1. /\ DOMAIN counter[p] = 1 .. 2 * (num_procs - 1)
        /\ \A i \in 1 .. num_procs - 1 : counter[p][i] = Recv(i, 1)
        /\ \A i \in num_procs .. 2 * (num_procs - 1) : counter[p][i] = Send(i - num_procs + 1, 1)
    <3>1. counter[p] \in Seq(Operation) /\ Len(counter[p]) = 2 * (num_procs - 1)
      BY <1>2, CounterList
    <3>2. DOMAIN counter[p] = 1 .. 2 * (num_procs - 1)
      BY <3>1
    <3>. QED  BY <1>2, <3>2, CounterList
  <2>2. ASSUME NEW i \in 1 .. num_procs - 1
        PROVE  counter[p][i].do = "recv" /\ counter[p][i].peer = i
    <3>1. counter[p][i] = Recv(i, 1)
      BY <2>1
    <3>. QED  BY <3>1 DEF Recv
  <2>3. ASSUME NEW i \in num_procs .. 2 * (num_procs - 1)
        PROVE  counter[p][i].do = "send" /\ counter[p][i].peer = i - num_procs + 1
    <3>1. counter[p][i] = Send(i - num_procs + 1, 1)
      BY <2>1
    <3>. QED  BY <3>1 DEF Send
  <2>4. CASE k \in 1 .. num_procs - 1
    BY <1>1, <1>2, <2>1, <2>2, <2>4, NumProcsAssumption DEF Sends, Receives, Proc
  <2>5. CASE k \in num_procs .. 2 * (num_procs - 1)
    BY <1>1, <1>2, <2>1, <2>3, <2>5, NumProcsAssumption DEF Sends, Receives, Proc
  <2>6. CASE k \notin 1 .. 2 * (num_procs - 1)
    BY <1>1, <1>2, <2>1, <2>6, NumProcsAssumption DEF Sends, Receives, Proc
  <2>. QED  BY <2>4, <2>5, <2>6, NumProcsAssumption
<1>3. CASE p # 0
  <2>1. counter[p] = <<Send(0, 1), Recv(0, 1)>>
    BY <1>3, CounterList
  <2>2. /\ DOMAIN counter[p] = 1 .. 2
        /\ counter[p][1].do = "send" /\ counter[p][1].peer = 0
        /\ counter[p][2].do = "recv" /\ counter[p][2].peer = 0
    BY <2>1 DEF Send, Recv
  <2>. QED  BY <1>1, <1>3, <2>2 DEF Sends, Receives
<1>. QED  BY <1>2, <1>3

LEMMA CounterShaped == Shaped("counter")
<1>. SUFFICES ASSUME NEW p \in Proc, NEW b \in 0 .. Episodes
     PROVE  /\ operations("counter", p, b) \in Seq(Operation) /\ Len(operations("counter", p, b)) >= 1
            /\ Alike(operations("counter", p, b), plan("counter", p))
  BY Zenon DEF Shaped
<1>1. operations("counter", p, b) = counter[p] /\ plan("counter", p) = counter[p]
  BY CounterList DEF plan
<1>2. counter[p] \in Seq(Operation) /\ Len(counter[p]) >= 1
  <2>1. CASE p = 0
    BY <2>1, CounterList, NumProcsAssumption
  <2>2. CASE p # 0
    <3>1. counter[p] \in Seq(Operation) /\ counter[p] = <<Send(0, 1), Recv(0, 1)>>
      BY <2>2, CounterList
    <3>2. Len(<<Send(0, 1), Recv(0, 1)>>) = 2
      OBVIOUS
    <3>. QED  BY <3>1, <3>2
  <2>. QED  BY <2>1, <2>2
<1>. QED  BY <1>1, <1>2 DEF Alike

LEMMA CounterOnePlace == OnePlace("counter")
  BY CounterTalk DEF OnePlace

LEMMA CounterPaired == Paired("counter")
<1>. SUFFICES ASSUME NEW p \in Proc, NEW q \in Proc, NEW k \in Nat
     PROVE  /\ Sends("counter", p, q, k) => \E j \in Nat : Receives("counter", q, p, j)
            /\ Receives("counter", q, p, k) => \E j \in Nat : Sends("counter", p, q, j)
  BY Zenon DEF Paired
<1>1. p \in Nat /\ q \in Nat /\ q + num_procs - 1 \in Nat
  BY NumProcsAssumption DEF Proc
<1>. QED  BY <1>1, CounterTalk

LEMMA CounterDelivered == Delivered("counter")
<1>. SUFFICES ASSUME NEW p \in Proc, NEW q \in Proc, NEW j \in Nat, NEW k \in Nat,
                     Sends("counter", p, q, j), Receives("counter", q, p, k)
     PROVE  /\ \A b \in 0 .. Episodes : operations("counter", p, b)[j].tag = operations("counter", q, b)[k].tag
            /\ Known("counter", q, k + 1) \subseteq Known("counter", q, k) \cup Known("counter", p, j)
  BY Zenon DEF Delivered
<1>1. /\ IF p = 0 THEN q # 0 /\ j = q + num_procs - 1 ELSE q = 0 /\ j = 1
      /\ IF q = 0 THEN p # 0 /\ k = p ELSE p = 0 /\ k = 2
  BY CounterTalk
<1>2. counter[p][j].tag = 1 /\ counter[q][k].tag = 1
  <2>1. CASE p = 0
    <3>1. q # 0 /\ counter[q] = <<Send(0, 1), Recv(0, 1)>> /\ k = 2
      BY <1>1, <2>1, CounterList
    <3>2. j \in num_procs .. 2 * (num_procs - 1)
      BY <1>1, <2>1, NumProcsAssumption DEF Proc
    <3>3. counter[p][j] = Send(j - num_procs + 1, 1)
      BY <2>1, <3>2, CounterList
    <3>. QED  BY <3>1, <3>3 DEF Send, Recv
  <2>2. CASE p # 0
    <3>1. q = 0 /\ counter[p] = <<Send(0, 1), Recv(0, 1)>> /\ j = 1
      BY <1>1, <2>2, CounterList
    <3>2. k \in 1 .. num_procs - 1
      BY <1>1, <2>2, NumProcsAssumption DEF Proc
    <3>3. counter[q][k] = Recv(k, 1)
      BY <3>1, <3>2, CounterList
    <3>. QED  BY <3>1, <3>3 DEF Send, Recv
  <2>. QED  BY <2>1, <2>2
<1>3. Known("counter", q, k + 1) \subseteq Known("counter", q, k) \cup Known("counter", p, j)
  BY <1>1, NumProcsAssumption DEF Known, Proc
<1>. QED  BY <1>2, <1>3, CounterList

LEMMA CounterLearned == Learned("counter")
<1>. SUFFICES ASSUME NEW p \in Proc
     PROVE  /\ Known("counter", p, 1) \subseteq {p}
            /\ Known("counter", p, Len(plan("counter", p)) + 1) = Proc
            /\ \A j, k \in 1 .. Len(plan("counter", p)) + 1 :
                 j <= k => Known("counter", p, j) \subseteq Known("counter", p, k)
            /\ \A k \in 1 .. Len(plan("counter", p)) :
                 plan("counter", p)[k].do # "recv" => Known("counter", p, k + 1) \subseteq Known("counter", p, k)
  BY Zenon DEF Learned
<1>1. plan("counter", p) = counter[p]
  BY CounterList DEF plan
<1>2. Len(counter[p]) = IF p = 0 THEN 2 * (num_procs - 1) ELSE 2
  <2>1. Len(<<Send(0, 1), Recv(0, 1)>>) = 2
    OBVIOUS
  <2>. QED  BY <2>1, CounterList
<1>3. \A k \in Nat : Known("counter", p, k) = IF p = 0 THEN {x \in Proc : x < k}
                                                    ELSE IF k <= 2 THEN {p} ELSE Proc
  BY Zenon DEF Known
<1>4. Known("counter", p, 1) \subseteq {p}
  BY <1>3, NumProcsAssumption DEF Proc
<1>5. Known("counter", p, Len(plan("counter", p)) + 1) = Proc
  <2>1. CASE p = 0
    <3>1. 2 * (num_procs - 1) + 1 >= num_procs /\ 2 * (num_procs - 1) + 1 \in Nat
      BY NumProcsAssumption
    <3>2. \A x \in Proc : x < 2 * (num_procs - 1) + 1
      BY NumProcsAssumption DEF Proc
    <3>. QED  BY <1>1, <1>2, <1>3, <2>1, <3>1, <3>2
  <2>2. CASE p # 0
    BY <1>1, <1>2, <1>3, <2>2
  <2>. QED  BY <2>1, <2>2
<1>6. ASSUME NEW j \in 1 .. Len(plan("counter", p)) + 1, NEW k \in 1 .. Len(plan("counter", p)) + 1, j <= k
      PROVE  Known("counter", p, j) \subseteq Known("counter", p, k)
  BY <1>1, <1>2, <1>3, <1>6, NumProcsAssumption DEF Proc
<1>7. ASSUME NEW k \in 1 .. Len(plan("counter", p)), plan("counter", p)[k].do # "recv"
      PROVE  Known("counter", p, k + 1) \subseteq Known("counter", p, k)
  <2>1. CASE p = 0
    <3>1. k \in 1 .. num_procs - 1 => counter[p][k].do = "recv"
      <4>. SUFFICES ASSUME k \in 1 .. num_procs - 1 PROVE counter[p][k].do = "recv"
        OBVIOUS
      <4>1. counter[p][k] = Recv(k, 1)
        BY <2>1, CounterList
      <4>. QED  BY <4>1 DEF Recv
    <3>2. k >= num_procs /\ k \in Nat
      BY <1>1, <1>2, <1>7, <2>1, <3>1, NumProcsAssumption
    <3>. QED  BY <1>3, <2>1, <3>2, NumProcsAssumption DEF Proc
  <2>2. CASE p # 0
    <3>1. counter[p][2].do = "recv"
      BY <2>2, CounterList DEF Recv
    <3>2. k = 1
      BY <1>1, <1>2, <1>7, <2>2, <3>1
    <3>. QED  BY <1>3, <2>2, <3>2
  <2>. QED  BY <2>1, <2>2
<1>. QED  BY <1>4, <1>5, <1>6, <1>7

-----------------------------------------------------------------------------
(* The dissemination barrier. *)

up(p, i) == (p + 2 ^ i) % num_procs
down(p, i) == (p - 2 ^ i + num_procs) % num_procs

LEMMA UpDown ==
  ASSUME NEW p \in Proc, NEW i \in 0 .. ceillog2(num_procs) - 1
  PROVE  /\ up(p, i) \in Proc /\ down(p, i) \in Proc
         /\ up(p, i) = IF p + 2 ^ i < num_procs THEN p + 2 ^ i ELSE p + 2 ^ i - num_procs
         /\ down(p, i) = IF 2 ^ i <= p THEN p - 2 ^ i ELSE p - 2 ^ i + num_procs
<1>1. 2 ^ i \in 1 .. num_procs - 1
  BY RoundPower
<1>. DEFINE d == 2 ^ i
<1>2. d \in 1 .. num_procs - 1 /\ num_procs \in Nat \ {0} /\ p \in 0 .. num_procs - 1
  BY <1>1, NumProcsAssumption DEF Proc
<1>. HIDE DEF d
<1>3. (p + d) % num_procs = IF p + d < num_procs THEN p + d ELSE p + d - num_procs
  <2>1. p + d \in Nat /\ p + d < 2 * num_procs
    BY <1>2
  <2>2. (p + d) % num_procs = IF p + d < num_procs THEN p + d ELSE (p + d) - num_procs
    BY <1>2, <2>1, RemainderSmall
  <2>. QED  BY <1>2, <2>2
<1>4. (p - d + num_procs) % num_procs = IF d <= p THEN p - d ELSE p - d + num_procs
  <2>1. p - d + num_procs \in Nat /\ p - d + num_procs < 2 * num_procs
    BY <1>2
  <2>2. (p - d + num_procs) % num_procs =
           IF p - d + num_procs < num_procs THEN p - d + num_procs ELSE (p - d + num_procs) - num_procs
    BY <1>2, <2>1, RemainderSmall
  <2>. QED  BY <1>2, <2>2
<1>5. (p + d) % num_procs \in Proc /\ (p - d + num_procs) % num_procs \in Proc
  BY <1>2, <1>3, <1>4 DEF Proc
<1>. QED  BY <1>3, <1>4, <1>5 DEF d, up, down

LEMMA DisseminationList ==
  ASSUME NEW p \in Proc, NEW b \in 0 .. Episodes
  PROVE  LET rounds == ceillog2(num_procs)
             list == operations("dissemination", p, b) IN
         /\ list \in Seq(Operation) /\ Len(list) = 2 * rounds
         /\ \A k \in 1 .. 2 * rounds :
              LET i == (k - 1) \div 2 IN
              list[k] = IF k % 2 = 1 THEN Send(up(p, i), i + b * rounds)
                                     ELSE Recv(down(p, i), i + b * rounds)
<1>. DEFINE rounds == ceillog2(num_procs)
            item(k) == LET i == (k - 1) \div 2 IN
                       IF k % 2 = 1 THEN Send(up(p, i), i + b * rounds)
                                    ELSE Recv(down(p, i), i + b * rounds)
            list == [k \in 1 .. 2 * rounds |-> item(k)]
<1>1. operations("dissemination", p, b) = list
  BY DEF operations, dissemination, up, down
<1>2. rounds \in Nat \ {0} /\ b \in Nat
  BY Rounds, EpisodesAssumption
<1>3. ASSUME NEW k \in 1 .. 2 * rounds PROVE item(k) \in Operation
  <2>. DEFINE i == (k - 1) \div 2
  <2>1. i \in 0 .. ceillog2(num_procs) - 1
    <3>1. i \in Nat /\ (k = 2 * i + 1 \/ k = 2 * i + 2)
      BY Half, <1>2
    <3>. HIDE DEF i
    <3>. QED  BY <3>1, <1>2
  <2>2. i + b * rounds \in Nat
    BY <1>2, <2>1
  <2>3. up(p, i) \in Proc /\ down(p, i) \in Proc
    <3>. HIDE DEF i
    <3>. QED  BY <2>1, UpDown
  <2>. HIDE DEF i, rounds
  <2>4. Send(up(p, i), i + b * rounds) \in Operation /\ Recv(down(p, i), i + b * rounds) \in Operation
    BY <2>2, <2>3 DEF Send, Recv, Operation
  <2>. QED  BY <2>4 DEF i
<1>. HIDE DEF item, rounds
<1>4. list \in [1 .. 2 * rounds -> Operation] /\ DOMAIN list = 1 .. 2 * rounds
  BY <1>3
<1>5. \A k \in 1 .. 2 * rounds : list[k] = item(k)
  OBVIOUS
<1>. HIDE DEF list
<1>6. list \in Seq(Operation) /\ Len(list) = 2 * rounds
  BY <1>2, <1>4
<1>. QED  BY <1>1, <1>5, <1>6 DEF item, rounds

LEMMA DisseminationItems ==
  ASSUME NEW p \in Proc, NEW b \in 0 .. Episodes, NEW i \in 0 .. ceillog2(num_procs) - 1
  PROVE  LET list == operations("dissemination", p, b)
             tag == i + b * ceillog2(num_procs) IN
         /\ list[2 * i + 1] = Send(up(p, i), tag)
         /\ list[2 * i + 2] = Recv(down(p, i), tag)
<1>1. 2 * i + 1 \in 1 .. 2 * ceillog2(num_procs) /\ 2 * i + 2 \in 1 .. 2 * ceillog2(num_procs)
  BY Rounds
<1>2. (2 * i + 1) % 2 = 1 /\ (2 * i + 2) % 2 # 1 /\ ((2 * i + 1) - 1) \div 2 = i /\ ((2 * i + 2) - 1) \div 2 = i
  OBVIOUS
<1>. DEFINE list == operations("dissemination", p, b)
            tag == i + b * ceillog2(num_procs)
            m == 2 * ceillog2(num_procs)
<1>3. \A k \in 1 .. m :
        list[k] = IF k % 2 = 1 THEN Send(up(p, (k - 1) \div 2), ((k - 1) \div 2) + b * ceillog2(num_procs))
                               ELSE Recv(down(p, (k - 1) \div 2), ((k - 1) \div 2) + b * ceillog2(num_procs))
  BY Zenon, DisseminationList
<1>. HIDE DEF list
<1>4. list[2 * i + 1] = Send(up(p, i), tag)
  BY Zenon, <1>1, <1>2, <1>3
<1>5. list[2 * i + 2] = Recv(down(p, i), tag)
  BY Zenon, <1>1, <1>2, <1>3
<1>. QED  BY <1>4, <1>5 DEF list

LEMMA DisseminationPlace ==
  ASSUME NEW k \in 1 .. 2 * ceillog2(num_procs)
  PROVE  \E i \in 0 .. ceillog2(num_procs) - 1 : k = 2 * i + 1 \/ k = 2 * i + 2
<1>. DEFINE i == (k - 1) \div 2
<1>1. i \in Nat /\ (k = 2 * i + 1 \/ k = 2 * i + 2)
  BY Half, Rounds
<1>. HIDE DEF i
<1>. QED  BY <1>1, Rounds

LEMMA DisseminationTalk ==
  ASSUME NEW p \in Proc, NEW q \in Proc, NEW k \in Nat
  PROVE  /\ Sends("dissemination", p, q, k) <=>
              \E i \in 0 .. ceillog2(num_procs) - 1 : k = 2 * i + 1 /\ q = up(p, i)
         /\ Receives("dissemination", p, q, k) <=>
              \E i \in 0 .. ceillog2(num_procs) - 1 : k = 2 * i + 2 /\ q = down(p, i)
<1>. DEFINE R == 0 .. ceillog2(num_procs) - 1
            list == operations("dissemination", p, 0)
<1>1. plan("dissemination", p) = list /\ DOMAIN list = 1 .. 2 * ceillog2(num_procs)
  <2>1. list \in Seq(Operation) /\ Len(list) = 2 * ceillog2(num_procs)
    BY DisseminationList, EpisodesAssumption
  <2>. HIDE DEF list
  <2>2. DOMAIN list = 1 .. 2 * ceillog2(num_procs)
    BY <2>1
  <2>. QED  BY <2>2 DEF list, plan
<1>2. ASSUME NEW i \in R
      PROVE  /\ list[2 * i + 1].do = "send" /\ list[2 * i + 1].peer = up(p, i)
             /\ list[2 * i + 2].do = "recv" /\ list[2 * i + 2].peer = down(p, i)
  <2>1. PICK t : list[2 * i + 1] = Send(up(p, i), t) /\ list[2 * i + 2] = Recv(down(p, i), t)
    BY DisseminationItems, EpisodesAssumption
  <2>. HIDE DEF list
  <2>. QED  BY <2>1 DEF Send, Recv
<1>3. \A i \in R : 2 * i + 1 \in DOMAIN list /\ 2 * i + 2 \in DOMAIN list
  BY <1>1, Rounds
<1>4. k \in DOMAIN list => \E i \in R : k = 2 * i + 1 \/ k = 2 * i + 2
  BY <1>1, DisseminationPlace
<1>. HIDE DEF list, R
<1>5. Sends("dissemination", p, q, k) <=> \E i \in R : k = 2 * i + 1 /\ q = up(p, i)
  <2>1. ASSUME NEW i \in R, k = 2 * i + 1, q = up(p, i) PROVE Sends("dissemination", p, q, k)
    BY <1>1, <1>2, <1>3, <2>1 DEF Sends
  <2>2. ASSUME Sends("dissemination", p, q, k) PROVE \E i \in R : k = 2 * i + 1 /\ q = up(p, i)
    <3>1. k \in DOMAIN list /\ list[k].do = "send" /\ list[k].peer = q
      BY <1>1, <2>2 DEF Sends
    <3>2. PICK i \in R : k = 2 * i + 1 \/ k = 2 * i + 2
      BY <1>4, <3>1
    <3>3. k # 2 * i + 2
      BY <1>2, <3>1
    <3>4. k = 2 * i + 1 /\ q = up(p, i)
      BY <1>2, <3>1, <3>2, <3>3
    <3>. QED  BY <3>4
  <2>. QED  BY <2>1, <2>2
<1>6. Receives("dissemination", p, q, k) <=> \E i \in R : k = 2 * i + 2 /\ q = down(p, i)
  <2>1. ASSUME NEW i \in R, k = 2 * i + 2, q = down(p, i) PROVE Receives("dissemination", p, q, k)
    BY <1>1, <1>2, <1>3, <2>1 DEF Receives
  <2>2. ASSUME Receives("dissemination", p, q, k) PROVE \E i \in R : k = 2 * i + 2 /\ q = down(p, i)
    <3>1. k \in DOMAIN list /\ list[k].do = "recv" /\ list[k].peer = q
      BY <1>1, <2>2 DEF Receives
    <3>2. PICK i \in R : k = 2 * i + 1 \/ k = 2 * i + 2
      BY <1>4, <3>1
    <3>3. k # 2 * i + 1
      BY <1>2, <3>1
    <3>4. k = 2 * i + 2 /\ q = down(p, i)
      BY <1>2, <3>1, <3>2, <3>3
    <3>. QED  BY <3>4
  <2>. QED  BY <2>1, <2>2
<1>. QED  BY <1>5, <1>6 DEF R

LEMMA DisseminationShaped == Shaped("dissemination")
<1>. SUFFICES ASSUME NEW p \in Proc, NEW b \in 0 .. Episodes
     PROVE  /\ operations("dissemination", p, b) \in Seq(Operation) /\ Len(operations("dissemination", p, b)) >= 1
            /\ Alike(operations("dissemination", p, b), plan("dissemination", p))
  BY Zenon DEF Shaped
<1>. DEFINE r == ceillog2(num_procs)
            list == operations("dissemination", p, b)
            first == operations("dissemination", p, 0)
<1>0. r \in Nat \ {0} /\ 0 \in 0 .. Episodes
  BY Rounds, EpisodesAssumption
<1>1. list \in Seq(Operation) /\ Len(list) = 2 * r /\ Len(first) = 2 * r
  BY <1>0, DisseminationList
<1>2. ASSUME NEW k \in 1 .. 2 * r PROVE list[k].do = first[k].do /\ list[k].peer = first[k].peer
  <2>1. PICK i \in 0 .. r - 1 : k = 2 * i + 1 \/ k = 2 * i + 2
    BY DisseminationPlace
  <2>2. PICK s : list[2 * i + 1] = Send(up(p, i), s) /\ list[2 * i + 2] = Recv(down(p, i), s)
    BY DisseminationItems
  <2>3. PICK t : first[2 * i + 1] = Send(up(p, i), t) /\ first[2 * i + 2] = Recv(down(p, i), t)
    BY <1>0, DisseminationItems
  <2>. HIDE DEF list, first
  <2>. QED  BY <2>1, <2>2, <2>3 DEF Send, Recv
<1>3. plan("dissemination", p) = first
  BY DEF plan
<1>. HIDE DEF list, first, r
<1>4. Alike(list, first)
  BY <1>1, <1>2 DEF Alike
<1>5. Len(list) >= 1
  BY <1>0, <1>1
<1>. QED  BY <1>1, <1>3, <1>4, <1>5 DEF list

LEMMA UpInjective ==
  ASSUME NEW p \in Proc, NEW i \in 0 .. ceillog2(num_procs) - 1, NEW j \in 0 .. ceillog2(num_procs) - 1
  PROVE  /\ up(p, i) = up(p, j) => i = j
         /\ down(p, i) = down(p, j) => i = j
         /\ down(up(p, i), i) = p
         /\ up(down(p, i), i) = p
<1>1. /\ 2 ^ i \in 1 .. num_procs - 1 /\ 2 ^ j \in 1 .. num_procs - 1
      /\ 2 ^ i = 2 ^ j => i = j
  BY RoundPower
<1>2. p \in 0 .. num_procs - 1 /\ num_procs \in Nat
  BY NumProcsAssumption DEF Proc
<1>3. /\ up(p, i) = IF p + 2 ^ i < num_procs THEN p + 2 ^ i ELSE p + 2 ^ i - num_procs
      /\ down(p, i) = IF 2 ^ i <= p THEN p - 2 ^ i ELSE p - 2 ^ i + num_procs
      /\ up(p, j) = IF p + 2 ^ j < num_procs THEN p + 2 ^ j ELSE p + 2 ^ j - num_procs
      /\ down(p, j) = IF 2 ^ j <= p THEN p - 2 ^ j ELSE p - 2 ^ j + num_procs
      /\ up(p, i) \in Proc /\ down(p, i) \in Proc
  BY UpDown
<1>4. /\ down(up(p, i), i) = IF 2 ^ i <= up(p, i) THEN up(p, i) - 2 ^ i ELSE up(p, i) - 2 ^ i + num_procs
      /\ up(down(p, i), i) = IF down(p, i) + 2 ^ i < num_procs THEN down(p, i) + 2 ^ i ELSE down(p, i) + 2 ^ i - num_procs
  BY <1>3, UpDown
<1>5. up(p, i) = up(p, j) => 2 ^ i = 2 ^ j
  BY <1>1, <1>2, <1>3
<1>6. down(p, i) = down(p, j) => 2 ^ i = 2 ^ j
  BY <1>1, <1>2, <1>3
<1>7. down(up(p, i), i) = p
  BY <1>1, <1>2, <1>3, <1>4
<1>8. up(down(p, i), i) = p
  BY <1>1, <1>2, <1>3, <1>4
<1>. QED  BY <1>1, <1>5, <1>6, <1>7, <1>8

LEMMA DisseminationOnePlace == OnePlace("dissemination")
<1>. SUFFICES ASSUME NEW p \in Proc, NEW q \in Proc, NEW j \in Nat, NEW k \in Nat
     PROVE  /\ Sends("dissemination", p, q, j) /\ Sends("dissemination", p, q, k) => j = k
            /\ Receives("dissemination", q, p, j) /\ Receives("dissemination", q, p, k) => j = k
  BY Zenon DEF OnePlace
<1>1. ASSUME Sends("dissemination", p, q, j), Sends("dissemination", p, q, k) PROVE j = k
  BY <1>1, DisseminationTalk, UpInjective
<1>2. ASSUME Receives("dissemination", q, p, j), Receives("dissemination", q, p, k) PROVE j = k
  BY <1>2, DisseminationTalk, UpInjective
<1>. QED  BY <1>1, <1>2

LEMMA DisseminationPaired == Paired("dissemination")
<1>. SUFFICES ASSUME NEW p \in Proc, NEW q \in Proc, NEW k \in Nat
     PROVE  /\ Sends("dissemination", p, q, k) => \E j \in Nat : Receives("dissemination", q, p, j)
            /\ Receives("dissemination", q, p, k) => \E j \in Nat : Sends("dissemination", p, q, j)
  BY Zenon DEF Paired
<1>1. ASSUME Sends("dissemination", p, q, k) PROVE \E j \in Nat : Receives("dissemination", q, p, j)
  <2>1. PICK i \in 0 .. ceillog2(num_procs) - 1 : q = up(p, i)
    BY <1>1, DisseminationTalk
  <2>2. p = down(q, i) /\ 2 * i + 2 \in Nat
    BY <2>1, UpInjective, Rounds
  <2>3. Receives("dissemination", q, p, 2 * i + 2)
    BY <2>2, DisseminationTalk
  <2>. QED  BY <2>2, <2>3
<1>2. ASSUME Receives("dissemination", q, p, k) PROVE \E j \in Nat : Sends("dissemination", p, q, j)
  <2>1. PICK i \in 0 .. ceillog2(num_procs) - 1 : p = down(q, i)
    BY <1>2, DisseminationTalk
  <2>2. q = up(p, i) /\ 2 * i + 1 \in Nat
    BY <2>1, UpInjective, Rounds
  <2>3. Sends("dissemination", p, q, 2 * i + 1)
    BY <2>2, DisseminationTalk
  <2>. QED  BY <2>2, <2>3
<1>. QED  BY <1>1, <1>2

(* At the places of round i a process knows of 2 ^ i processes. *)
LEMMA DisseminationKnown ==
  ASSUME NEW p \in Proc, NEW i \in Nat
  PROVE  /\ Known("dissemination", p, 2 * i + 1) = {x \in Proc : distance(x, p) < 2 ^ i}
         /\ Known("dissemination", p, 2 * i + 2) = {x \in Proc : distance(x, p) < 2 ^ i}
<1>1. ((2 * i + 1) - 1) \div 2 = i /\ ((2 * i + 2) - 1) \div 2 = i
  OBVIOUS
<1>2. \A k \in Nat : Known("dissemination", p, k) = {x \in Proc : distance(x, p) < 2 ^ ((k - 1) \div 2)}
  BY Zenon DEF Known
<1>3. 2 * i + 1 \in Nat /\ 2 * i + 2 \in Nat
  OBVIOUS
<1>. QED  BY Zenon, <1>1, <1>2, <1>3

LEMMA DisseminationDelivered == Delivered("dissemination")
<1>. SUFFICES ASSUME NEW p \in Proc, NEW q \in Proc, NEW j \in Nat, NEW k \in Nat,
                     Sends("dissemination", p, q, j), Receives("dissemination", q, p, k)
     PROVE  /\ \A b \in 0 .. Episodes :
                 operations("dissemination", p, b)[j].tag = operations("dissemination", q, b)[k].tag
            /\ Known("dissemination", q, k + 1) \subseteq Known("dissemination", q, k) \cup Known("dissemination", p, j)
  BY Zenon DEF Delivered
<1>1. PICK i \in 0 .. ceillog2(num_procs) - 1 : j = 2 * i + 1 /\ q = up(p, i)
  BY DisseminationTalk
<1>2. PICK h \in 0 .. ceillog2(num_procs) - 1 : k = 2 * h + 2 /\ p = down(q, h)
  BY DisseminationTalk
<1>3. h = i
  <2>1. p = down(q, i)
    BY <1>1, UpInjective
  <2>2. down(q, h) = down(q, i) => h = i
    BY UpInjective
  <2>. QED  BY <1>2, <2>1, <2>2
<1>4. ASSUME NEW b \in 0 .. Episodes
      PROVE  operations("dissemination", p, b)[j].tag = operations("dissemination", q, b)[k].tag
  <2>. DEFINE t == i + b * ceillog2(num_procs)
  <2>1. /\ operations("dissemination", p, b)[j] = Send(up(p, i), t)
        /\ operations("dissemination", q, b)[k] = Recv(down(q, i), t)
    BY <1>1, <1>2, <1>3, DisseminationItems
  <2>. HIDE DEF t
  <2>. QED  BY <2>1 DEF Send, Recv
<1>5. Known("dissemination", q, k + 1) \subseteq Known("dissemination", q, k) \cup Known("dissemination", p, j)
  <2>1. i \in Nat /\ i + 1 \in Nat /\ k + 1 = 2 * (i + 1) + 1
    BY <1>2, <1>3, Rounds
  <2>2. /\ Known("dissemination", q, k + 1) = {x \in Proc : distance(x, q) < 2 ^ (i + 1)}
        /\ Known("dissemination", q, k) = {x \in Proc : distance(x, q) < 2 ^ i}
        /\ Known("dissemination", p, j) = {x \in Proc : distance(x, p) < 2 ^ i}
    BY <2>1, <1>1, <1>2, <1>3, DisseminationKnown
  <2>3. 2 ^ i \in 1 .. num_procs - 1 /\ 2 ^ (i + 1) = 2 * 2 ^ i
    BY RoundPower
  <2>4. p = IF 2 ^ i <= q THEN q - 2 ^ i ELSE q - 2 ^ i + num_procs
    BY <1>2, <1>3, UpDown
  <2>5. ASSUME NEW x \in Proc, distance(x, q) < 2 * 2 ^ i PROVE distance(x, q) < 2 ^ i \/ distance(x, p) < 2 ^ i
    BY <2>3, <2>4, <2>5, NumProcsAssumption DEF distance, Proc
  <2>. QED  BY <2>2, <2>3, <2>5
<1>. QED  BY <1>4, <1>5

LEMMA DisseminationLearned == Learned("dissemination")
<1>. SUFFICES ASSUME NEW p \in Proc
     PROVE  /\ Known("dissemination", p, 1) \subseteq {p}
            /\ Known("dissemination", p, Len(plan("dissemination", p)) + 1) = Proc
            /\ \A j, k \in 1 .. Len(plan("dissemination", p)) + 1 :
                 j <= k => Known("dissemination", p, j) \subseteq Known("dissemination", p, k)
            /\ \A k \in 1 .. Len(plan("dissemination", p)) :
                 plan("dissemination", p)[k].do # "recv" =>
                   Known("dissemination", p, k + 1) \subseteq Known("dissemination", p, k)
  BY Zenon DEF Learned
<1>. DEFINE r == ceillog2(num_procs)
<1>0. r \in Nat \ {0} /\ r \in 1 .. num_procs /\ 2 ^ r >= num_procs /\ 0 \in 0 .. Episodes
  BY Rounds, EpisodesAssumption
<1>1. Len(plan("dissemination", p)) = 2 * r
  BY <1>0, DisseminationList DEF plan
<1>2. \A x \in Proc : distance(x, p) \in Proc /\ (distance(x, p) = 0 => x = p)
  BY NumProcsAssumption DEF distance, Proc
<1>3. Known("dissemination", p, 1) \subseteq {p}
  <2>1. Known("dissemination", p, 2 * 0 + 1) = {x \in Proc : distance(x, p) < 2 ^ 0}
    BY Zenon, DisseminationKnown, <1>0
  <2>2. Known("dissemination", p, 1) = {x \in Proc : distance(x, p) < 1}
    BY <2>1, PowersAssumption
  <2>3. \A x \in Proc : distance(x, p) < 1 => distance(x, p) = 0
    BY <1>2 DEF Proc
  <2>. QED  BY <1>2, <2>2, <2>3
<1>4. Known("dissemination", p, Len(plan("dissemination", p)) + 1) = Proc
  <2>1. Known("dissemination", p, 2 * r + 1) = {x \in Proc : distance(x, p) < 2 ^ r}
    BY <1>0, DisseminationKnown
  <2>2. 2 ^ r \in Nat
    <3>1. r \in 0 .. num_procs + 1
      BY <1>0, NumProcsAssumption
    <3>. HIDE DEF r
    <3>. QED  BY <3>1, PowerType
  <2>3. \A x \in Proc : distance(x, p) < 2 ^ r
    BY <1>0, <1>2, <2>2, NumProcsAssumption DEF Proc
  <2>. QED  BY <1>1, <2>1, <2>3
<1>5. ASSUME NEW j \in 1 .. Len(plan("dissemination", p)) + 1,
             NEW k \in 1 .. Len(plan("dissemination", p)) + 1, j <= k
      PROVE  Known("dissemination", p, j) \subseteq Known("dissemination", p, k)
  <2>. DEFINE g == (j - 1) \div 2
              h == (k - 1) \div 2
  <2>1. g \in Nat /\ h \in Nat /\ g <= h /\ h <= r
    BY <1>0, <1>1, <1>5, Half
  <2>2. 2 ^ g \in Nat /\ 2 ^ h \in Nat /\ 2 ^ g <= 2 ^ h
    <3>1. h \in 0 .. num_procs + 1 /\ g \in 0 .. h /\ g \in 0 .. num_procs + 1
      BY <1>0, <2>1, NumProcsAssumption
    <3>. HIDE DEF g, h
    <3>. QED  BY <3>1, PowerGrows, PowerType
  <2>3. /\ Known("dissemination", p, j) = {x \in Proc : distance(x, p) < 2 ^ g}
        /\ Known("dissemination", p, k) = {x \in Proc : distance(x, p) < 2 ^ h}
    BY Zenon DEF Known
  <2>4. \A x \in Proc : distance(x, p) < 2 ^ g => distance(x, p) < 2 ^ h
    <3>. HIDE DEF g, h
    <3>. QED  BY <1>2, <2>2 DEF Proc
  <2>. HIDE DEF g, h
  <2>. QED  BY <2>3, <2>4
<1>6. ASSUME NEW k \in 1 .. Len(plan("dissemination", p)), plan("dissemination", p)[k].do # "recv"
      PROVE  Known("dissemination", p, k + 1) \subseteq Known("dissemination", p, k)
  <2>1. PICK i \in 0 .. r - 1 : k = 2 * i + 1 \/ k = 2 * i + 2
    BY <1>1, DisseminationPlace
  <2>2. k # 2 * i + 2
    <3>1. PICK t : operations("dissemination", p, 0)[2 * i + 2] = Recv(down(p, i), t)
      BY <1>0, DisseminationItems
    <3>2. plan("dissemination", p)[2 * i + 2].do = "recv"
      BY <3>1 DEF Recv, plan
    <3>. QED  BY <1>6, <3>2
  <2>3. i \in Nat /\ k = 2 * i + 1 /\ k + 1 = 2 * i + 2
    BY <1>0, <2>1, <2>2
  <2>. QED  BY <2>3, DisseminationKnown
<1>. QED  BY <1>3, <1>4, <1>5, <1>6

-----------------------------------------------------------------------------
(* The tournament. *)

Rnd == 1 .. ceillog2(num_procs)

LEMMA RndPower ==
  ASSUME NEW j \in Rnd
  PROVE  /\ j \in 0 .. num_procs + 1 /\ j - 1 \in 0 .. num_procs + 1
         /\ 2 ^ (j - 1) \in 1 .. num_procs - 1
         /\ 2 ^ j = 2 * 2 ^ (j - 1)
         /\ \A h \in Rnd : 2 ^ (h - 1) = 2 ^ (j - 1) => h = j
<1>1. j - 1 \in 0 .. ceillog2(num_procs) - 1 /\ (j - 1) + 1 = j
  BY Rounds DEF Rnd
<1>2. /\ 2 ^ (j - 1) \in 1 .. num_procs - 1
      /\ 2 ^ ((j - 1) + 1) = 2 * 2 ^ (j - 1)
      /\ \A h \in 0 .. ceillog2(num_procs) - 1 : 2 ^ (j - 1) = 2 ^ h => j - 1 = h
  BY <1>1, RoundPower
<1>3. j \in 0 .. num_procs + 1 /\ j - 1 \in 0 .. num_procs + 1
  BY Rounds, NumProcsAssumption DEF Rnd
<1>4. ASSUME NEW h \in Rnd, 2 ^ (h - 1) = 2 ^ (j - 1) PROVE h = j
  <2>1. h - 1 \in 0 .. ceillog2(num_procs) - 1 /\ h \in Nat
    BY Rounds DEF Rnd
  <2>2. j - 1 = h - 1
    BY <1>2, <1>4, <2>1
  <2>. QED  BY <2>1, <2>2, <1>3
<1>. QED  BY <1>1, <1>2, <1>3, <1>4

(* A multiple of 2 ^ j is one of every smaller power of two. *)
LEMMA Multiples ==
  ASSUME NEW a \in Nat, NEW j \in 0 .. num_procs, a % 2 ^ j = 0, NEW h \in 0 .. j
  PROVE  a % 2 ^ h = 0
<1>. DEFINE Good == {i \in Nat : a % 2 ^ (j - i) = 0}
<1>0. j \in Nat /\ num_procs \in Nat
  BY NumProcsAssumption
<1>1. CASE h = j
  BY <1>1
<1>2. CASE h # j
  <2>1. 0 \in Good /\ j - 1 \in Nat
    BY <1>0, <1>2
  <2>2. ASSUME NEW i \in 0 .. j - 1, i \in Good PROVE i + 1 \in Good
    <3>. DEFINE e == j - (i + 1)
    <3>1. e \in 0 .. num_procs /\ e + 1 = j - i /\ e \in 0 .. num_procs + 1
      BY <1>0
    <3>2. 2 ^ (e + 1) = 2 * 2 ^ e /\ 2 ^ e \in Nat \ {0}
      <4>. HIDE DEF e
      <4>1. 2 ^ e \in Nat /\ e < 2 ^ e
        BY <3>1, PowerType
      <4>. QED  BY <3>1, <4>1, PowerStep
    <3>3. a % 2 ^ (e + 1) = 0
      BY <2>2, <3>1
    <3>4. a % 2 ^ e = 0
      <4>. HIDE DEF e
      <4>. QED  BY <3>2, <3>3, RemainderDouble
    <3>. QED  BY <3>4
  <2>. HIDE DEF Good
  <2>3. 0 .. (j - 1) + 1 \subseteq Good
    BY <2>1, <2>2, CountUp
  <2>4. j - h \in Good /\ j - (j - h) = h
    BY <1>0, <2>3
  <2>. QED  BY <2>4 DEF Good
<1>. QED  BY <1>1, <1>2

(* What the roles come to. *)
LEMMA Roles ==
  ASSUME NEW p \in Proc, NEW j \in Rnd
  PROVE  LET h == 2 ^ (j - 1) IN
         /\ role(p, j) = "winner" <=> p % 2 ^ j = 0 /\ p + h < num_procs /\ 2 ^ j < num_procs
         /\ role(p, j) = "bye" <=> p % 2 ^ j = 0 /\ p + h >= num_procs
         /\ role(p, j) = "loser" <=> p % 2 ^ j = h
         /\ role(p, j) = "champion" <=> p = 0 /\ 2 ^ j >= num_procs
         /\ p % 2 ^ j = 0 => role(p, j) \in {"winner", "bye", "champion"}
<1>. DEFINE h == 2 ^ (j - 1)
            d == 2 ^ j
<1>1. j \in Nat /\ j > 0 /\ h \in 1 .. num_procs - 1 /\ d = 2 * h /\ p \in Nat /\ p < num_procs
  BY RndPower, NumProcsAssumption, Rounds DEF Rnd, Proc
<1>2. role(p, j) =
        CASE j = 0 -> "dropout"
          [] j > 0 /\ p % d = 0 /\ p + h < num_procs /\ d < num_procs -> "winner"
          [] j > 0 /\ p % d = 0 /\ p + h >= num_procs -> "bye"
          [] j > 0 /\ p % d = h -> "loser"
          [] j > 0 /\ p = 0 /\ p + h < num_procs /\ d >= num_procs -> "champion"
          [] OTHER -> "none"
  BY Zenon DEF role
<1>. HIDE DEF h, d
<1>3. p = 0 => p % d = 0
  <2>1. d \in Nat \ {0} /\ 0 \in Nat /\ 0 < 2 * d
    BY <1>1, NumProcsAssumption
  <2>2. 0 % d = 0
    BY <2>1, RemainderSmall
  <2>. QED  BY <2>2
<1>4. p % d = 0 /\ d >= num_procs => p = 0
  <2>. SUFFICES ASSUME p % d = 0, d >= num_procs PROVE p = 0
    OBVIOUS
  <2>1. d \in Nat \ {0} /\ p < d /\ p < 2 * d
    BY <1>1, NumProcsAssumption
  <2>2. p % d = p
    BY <1>1, <2>1, RemainderSmall
  <2>. QED  BY <2>2
<1>5. p = 0 => p + h < num_procs
  BY <1>1, NumProcsAssumption
<1>. DEFINE m == p % d
<1>6. /\ p = 0 => m = 0
      /\ m = 0 /\ d >= num_procs => p = 0
      /\ role(p, j) =
        CASE j = 0 -> "dropout"
          [] j > 0 /\ m = 0 /\ p + h < num_procs /\ d < num_procs -> "winner"
          [] j > 0 /\ m = 0 /\ p + h >= num_procs -> "bye"
          [] j > 0 /\ m = h -> "loser"
          [] j > 0 /\ p = 0 /\ p + h < num_procs /\ d >= num_procs -> "champion"
          [] OTHER -> "none"
  BY <1>2, <1>3, <1>4, Zenon
<1>. HIDE DEF m
<1>7. /\ role(p, j) = "winner" <=> m = 0 /\ p + h < num_procs /\ d < num_procs
      /\ role(p, j) = "bye" <=> m = 0 /\ p + h >= num_procs
      /\ role(p, j) = "loser" <=> m = h
      /\ role(p, j) = "champion" <=> p = 0 /\ d >= num_procs
      /\ m = 0 => role(p, j) \in {"winner", "bye", "champion"}
  BY <1>1, <1>5, <1>6, NumProcsAssumption
<1>. QED  BY <1>7 DEF m, h, d

Stop == {"loser", "champion"}

(* Where a process stops it has won or passed in all rounds before. *)
LEMMA NoStopBefore ==
  ASSUME NEW p \in Proc, NEW j \in Rnd, p % 2 ^ (j - 1) = 0, NEW h \in 1 .. j - 1
  PROVE  role(p, h) \in {"winner", "bye"} /\ h \in Rnd
<1>1. h \in Rnd /\ j \in Rnd /\ j - 1 \in 0 .. num_procs /\ h \in 0 .. j - 1 /\ h \in 0 .. ceillog2(num_procs) - 1
  BY Rounds, NumProcsAssumption DEF Rnd
<1>2. p % 2 ^ h = 0
  <2>. DEFINE i == j - 1
  <2>1. p \in Nat /\ i \in 0 .. num_procs /\ p % 2 ^ i = 0 /\ h \in 0 .. i
    BY <1>1, NumProcsAssumption DEF Proc
  <2>. HIDE DEF i
  <2>. QED  BY <2>1, Multiples
<1>3. 2 ^ h < num_procs /\ 2 ^ h \in Nat
  BY <1>1, Rounds, RoundPower
<1>4. role(p, h) # "champion"
  BY <1>1, <1>3, Roles, NumProcsAssumption
<1>. QED  BY <1>1, <1>2, <1>4, Roles

LEMMA StopSomewhere ==
  ASSUME NEW p \in Proc
  PROVE  \E j \in Rnd : role(p, j) \in Stop /\ p % 2 ^ (j - 1) = 0
<1>. DEFINE r == ceillog2(num_procs)
<1>0. r \in Rnd /\ r \in 0 .. num_procs /\ 2 ^ r >= num_procs /\ r \in 0 .. num_procs + 1 /\ r \in Nat
  BY Rounds, NumProcsAssumption DEF Rnd
<1>1. CASE p = 0
  <2>1. role(p, r) = "champion"
    BY <1>0, <1>1, Roles
  <2>2. 2 ^ (r - 1) \in 1 .. num_procs - 1
    BY <1>0, RndPower
  <2>3. 2 ^ (r - 1) \in Nat \ {0} /\ 0 < 2 * 2 ^ (r - 1) /\ 0 < 2 ^ (r - 1)
    BY <2>2, NumProcsAssumption
  <2>4. 0 % 2 ^ (r - 1) = 0
    BY <2>3, RemainderSmall
  <2>. QED  BY <1>0, <1>1, <2>1, <2>4 DEF Stop
<1>2. CASE p # 0
  <2>. DEFINE Odd == {j \in 0 .. r : p % 2 ^ j # 0}
  <2>1. r \in Odd
    <3>1. 2 ^ r \in Nat
      BY <1>0, PowerType
    <3>2. 2 ^ r \in Nat \ {0} /\ p \in Nat /\ p < 2 ^ r /\ p < 2 * 2 ^ r
      BY <1>0, <3>1, NumProcsAssumption DEF Proc
    <3>3. p % 2 ^ r = p
      BY <3>2, RemainderSmall
    <3>. QED  BY <1>0, <1>2, <3>3
  <2>2. PICK j \in Odd : \A i \in Odd : j <= i
    <3>1. Odd \in SUBSET Nat
      BY <1>0
    <3>. HIDE DEF Odd
    <3>. QED  BY <2>1, <3>1, LeastNumber
  <2>3. j # 0
    <3>1. p % 1 = 0
      <4>1. p \in Nat
        BY NumProcsAssumption DEF Proc
      <4>. QED  BY <4>1
    <3>. QED  BY <2>2, <3>1, PowersAssumption
  <2>4. j \in Rnd /\ j - 1 \in 0 .. r /\ j - 1 \notin Odd
    BY <1>0, <2>2, <2>3 DEF Rnd
  <2>5. p % 2 ^ (j - 1) = 0 /\ p % 2 ^ j # 0
    BY <2>2, <2>4
  <2>6. p % 2 ^ j = 2 ^ (j - 1)
    <3>1. 2 ^ (j - 1) \in Nat \ {0} /\ 2 ^ j = 2 * 2 ^ (j - 1) /\ p \in Nat
      BY <2>4, RndPower, NumProcsAssumption DEF Proc
    <3>. QED  BY <2>5, <3>1, RemainderDouble
  <2>7. role(p, j) = "loser"
    BY <2>4, <2>6, Roles
  <2>. QED  BY <2>4, <2>5, <2>7 DEF Stop
<1>. QED  BY <1>1, <1>2

(* lastround(p) is the one round in which p loses or is the champion. *)
LEMMA LastRound ==
  ASSUME NEW p \in Proc
  PROVE  /\ lastround(p) \in Rnd
         /\ role(p, lastround(p)) \in Stop
         /\ p % 2 ^ (lastround(p) - 1) = 0
         /\ \A h \in 1 .. lastround(p) - 1 : h \in Rnd /\ role(p, h) \in {"winner", "bye"}
         /\ \A j \in Rnd : role(p, j) \in Stop /\ p % 2 ^ (j - 1) = 0 => j = lastround(p)
<1>. DEFINE IsLast(j) == /\ role(p, j) \in {"loser", "champion"}
                         /\ \A h \in 1 .. j - 1 : role(p, h) \notin {"loser", "champion"}
            last == CHOOSE j \in Rnd : IsLast(j)
<1>1. lastround(p) = last
  BY DEF lastround, Rnd
<1>2. ASSUME NEW j \in Rnd, role(p, j) \in Stop, p % 2 ^ (j - 1) = 0
      PROVE  IsLast(j) /\ \A i \in Rnd : IsLast(i) => i = j
  <2>1. IsLast(j)
    BY <1>2, NoStopBefore DEF Stop
  <2>2. ASSUME NEW i \in Rnd, IsLast(i), i # j PROVE FALSE
    <3>1. CASE i < j
      BY <2>1, <2>2, <3>1 DEF Rnd
    <3>2. CASE j < i
      BY <2>1, <2>2, <3>2 DEF Rnd
    <3>. QED  BY <2>2, <3>1, <3>2, Rounds DEF Rnd
  <2>. QED  BY <2>1, <2>2
<1>3. PICK j \in Rnd : role(p, j) \in Stop /\ p % 2 ^ (j - 1) = 0
  BY StopSomewhere
<1>4. last = j
  <2>1. IsLast(j) /\ \A i \in Rnd : IsLast(i) => i = j
    BY <1>2, <1>3
  <2>. HIDE DEF IsLast
  <2>2. last \in Rnd /\ IsLast(last)
    BY <2>1
  <2>. HIDE DEF last
  <2>. QED  BY <2>1, <2>2
<1>5. \A h \in 1 .. j - 1 : h \in Rnd /\ role(p, h) \in {"winner", "bye"}
  BY <1>3, NoStopBefore
<1>6. \A i \in Rnd : role(p, i) \in Stop /\ p % 2 ^ (i - 1) = 0 => i = j
  <2>1. ASSUME NEW i \in Rnd, role(p, i) \in Stop, p % 2 ^ (i - 1) = 0 PROVE i = j
    <3>1. IsLast(j)
      BY <1>2, <1>3
    <3>2. \A k \in Rnd : IsLast(k) => k = i
      BY <1>2, <2>1
    <3>. HIDE DEF IsLast
    <3>. QED  BY <3>1, <3>2
  <2>. QED  BY <2>1
<1>. HIDE DEF last
<1>. QED  BY <1>1, <1>3, <1>4, <1>5, <1>6

(* p beats q in round j, or loses to q. *)
Beats(p, q, j) ==
  j \in 1 .. lastround(p) /\ role(p, j) \in {"winner", "champion"} /\ q = p + 2 ^ (j - 1)

Loses(p, q, j) == j = lastround(p) /\ role(p, j) = "loser" /\ q = p - 2 ^ (j - 1)

LEMMA BeatsLoses ==
  ASSUME NEW p \in Proc, NEW q \in Proc, NEW j, Beats(p, q, j)
  PROVE  Loses(q, p, j)
<1>. DEFINE h == 2 ^ (j - 1)
            d == 2 ^ j
<1>1. j \in Rnd /\ role(p, j) \in {"winner", "champion"} /\ q = p + h
  BY LastRound, Rounds DEF Beats, Rnd
<1>2. h \in Nat \ {0} /\ d = 2 * h /\ p \in Nat /\ q \in Nat
  BY <1>1, RndPower, NumProcsAssumption DEF Proc
<1>3. p % d = 0
  <2>1. CASE role(p, j) = "winner"
    BY <1>1, <2>1, Roles
  <2>2. CASE role(p, j) = "champion"
    <3>1. p = 0
      BY <1>1, <2>2, Roles
    <3>. HIDE DEF d
    <3>2. d \in Nat \ {0} /\ 0 < d /\ 0 < 2 * d /\ 0 \in Nat
      BY <1>2
    <3>3. 0 % d = 0
      BY <3>2, RemainderSmall
    <3>. QED  BY <3>1, <3>3
  <2>. QED  BY <1>1, <2>1, <2>2
<1>4. q % d = h /\ q % h = 0
  <2>. HIDE DEF h, d
  <2>1. q % d = h
    BY <1>1, <1>2, <1>3, RemainderShift
  <2>2. q % h = 0
    BY <1>2, <2>1, RemainderDouble
  <2>. QED  BY <2>1, <2>2
<1>5. role(q, j) = "loser"
  BY <1>1, <1>4, Roles
<1>6. j = lastround(q)
  BY <1>1, <1>4, <1>5, LastRound DEF Stop
<1>7. p = q - h
  <2>. HIDE DEF h
  <2>. QED  BY <1>1, <1>2
<1>. QED  BY <1>5, <1>6, <1>7 DEF Loses

LEMMA LosesBeats ==
  ASSUME NEW p \in Proc, NEW j, role(p, j) = "loser", j = lastround(p)
  PROVE  p - 2 ^ (j - 1) \in Proc /\ Beats(p - 2 ^ (j - 1), p, j)
<1>. DEFINE h == 2 ^ (j - 1)
            d == 2 ^ j
            q == p - h
<1>1. j \in Rnd
  BY LastRound
<1>2. h \in Nat \ {0} /\ d = 2 * h /\ p \in Nat /\ p < num_procs /\ num_procs \in Nat
  BY <1>1, RndPower, NumProcsAssumption DEF Proc
<1>3. p % d = h
  BY <1>1, Roles
<1>4. p >= h /\ q % d = 0
  <2>. HIDE DEF h, d
  <2>. QED  BY <1>2, <1>3, RemainderShift
<1>5. q \in Proc /\ q \in Nat /\ q + h = p
  <2>. HIDE DEF h, d
  <2>. QED  BY <1>2, <1>4 DEF Proc
<1>. HIDE DEF q
<1>6. role(q, j) \in {"winner", "champion"}
  <2>1. role(q, j) \in {"winner", "bye", "champion"}
    BY <1>1, <1>4, <1>5, Roles
  <2>2. role(q, j) # "bye"
    <3>1. ~ (q + h >= num_procs)
      BY <1>2, <1>5
    <3>. QED  BY <1>1, <1>5, <3>1, Roles
  <2>. QED  BY <2>1, <2>2
<1>7. j <= lastround(q)
  <2>. SUFFICES ASSUME lastround(q) < j PROVE FALSE
    BY <1>1, <1>5, LastRound, Rounds DEF Rnd
  <2>. DEFINE l == lastround(q)
  <2>1. l \in Rnd /\ role(q, l) \in Stop /\ l \in 0 .. j /\ j \in 0 .. num_procs
    BY <1>1, <1>5, LastRound, Rounds, NumProcsAssumption DEF Rnd
  <2>2. q % 2 ^ l = 0
    BY <1>4, <1>5, <2>1, Multiples
  <2>3. 2 ^ l < num_procs /\ 2 ^ l \in Nat
    <3>1. l \in 0 .. ceillog2(num_procs) - 1
      BY <1>1, <2>1, Rounds DEF Rnd
    <3>. HIDE DEF l
    <3>. QED  BY <3>1, RoundPower, Rounds
  <2>4. role(q, l) # "champion"
    BY <1>5, <2>1, <2>3, Roles, NumProcsAssumption
  <2>5. role(q, l) # "loser"
    <3>1. 2 ^ (l - 1) \in 1 .. num_procs - 1
      BY <2>1, RndPower
    <3>. QED  BY <1>5, <2>1, <2>2, <3>1, Roles
  <2>. QED  BY <2>1, <2>4, <2>5 DEF Stop
<1>8. Beats(q, p, j)
  BY <1>1, <1>5, <1>6, <1>7, Rounds DEF Beats, Rnd
<1>. QED  BY <1>5, <1>8 DEF q

(* The list: up to the last round and back again. *)
LEMMA TournamentItem ==
  ASSUME NEW p \in Proc, NEW j \in 1 .. lastround(p)
  PROVE  /\ arrival(p, j) \in Operation /\ wakeup(p, j) \in Operation
         /\ arrival(p, j).tag = 0 /\ wakeup(p, j).tag = 0
         /\ \A q \in Proc :
              /\ arrival(p, j).do = "send" /\ arrival(p, j).peer = q <=> Loses(p, q, j)
              /\ arrival(p, j).do = "recv" /\ arrival(p, j).peer = q <=> Beats(p, q, j)
              /\ wakeup(p, j).do = "send" /\ wakeup(p, j).peer = q <=> Beats(p, q, j)
              /\ wakeup(p, j).do = "recv" /\ wakeup(p, j).peer = q <=> Loses(p, q, j)
<1>1. j \in Rnd
  BY LastRound, Rounds DEF Rnd
<1>2. p \in Nat /\ num_procs \in Nat /\ p \in Proc
  BY NumProcsAssumption DEF Proc
<1>3. CASE role(p, j) = "loser"
  <2>1. j = lastround(p)
    <3>1. j \notin 1 .. lastround(p) - 1
      BY <1>3, LastRound
    <3>. QED  BY <3>1, LastRound, Rounds DEF Rnd
  <2>2. p - 2 ^ (j - 1) \in Proc
    BY <1>3, <2>1, LosesBeats
  <2>3. opponent(p, j) = p - 2 ^ (j - 1)
    BY <1>3 DEF opponent
  <2>4. arrival(p, j) = Send(opponent(p, j), 0) /\ wakeup(p, j) = Recv(opponent(p, j), 0)
    BY <1>3 DEF arrival, wakeup
  <2>. HIDE DEF opponent
  <2>5. arrival(p, j) \in Operation /\ wakeup(p, j) \in Operation
    BY <2>2, <2>3, <2>4 DEF Send, Recv, Operation
  <2>6. /\ arrival(p, j).do = "send" /\ arrival(p, j).peer = opponent(p, j) /\ arrival(p, j).tag = 0
        /\ wakeup(p, j).do = "recv" /\ wakeup(p, j).peer = opponent(p, j) /\ wakeup(p, j).tag = 0
    BY <2>4 DEF Send, Recv
  <2>7. \A q \in Proc : ~ Beats(p, q, j) /\ (Loses(p, q, j) <=> q = opponent(p, j))
    BY <1>3, <2>1, <2>3 DEF Beats, Loses
  <2>. QED  BY <2>5, <2>6, <2>7
<1>4. CASE role(p, j) \in {"winner", "champion"}
  <2>1. opponent(p, j) = p + 2 ^ (j - 1)
    BY <1>4 DEF opponent
  <2>2. p + 2 ^ (j - 1) \in Proc
    <3>1. 2 ^ (j - 1) \in 1 .. num_procs - 1
      BY <1>1, RndPower
    <3>2. p + 2 ^ (j - 1) < num_procs
      <4>1. CASE role(p, j) = "winner"
        BY <1>1, <4>1, Roles
      <4>2. CASE role(p, j) = "champion"
        <5>1. p = 0
          BY <1>1, <4>2, Roles
        <5>. QED  BY <1>2, <3>1, <5>1
      <4>. QED  BY <1>4, <4>1, <4>2
    <3>. QED  BY <1>2, <3>1, <3>2 DEF Proc
  <2>3. arrival(p, j) = Recv(opponent(p, j), 0) /\ wakeup(p, j) = Send(opponent(p, j), 0)
    BY <1>4 DEF arrival, wakeup
  <2>4. arrival(p, j) \in Operation /\ wakeup(p, j) \in Operation
    BY <2>1, <2>2, <2>3 DEF Send, Recv, Operation
  <2>5. /\ arrival(p, j).do = "recv" /\ arrival(p, j).peer = opponent(p, j) /\ arrival(p, j).tag = 0
        /\ wakeup(p, j).do = "send" /\ wakeup(p, j).peer = opponent(p, j) /\ wakeup(p, j).tag = 0
    BY <2>3 DEF Send, Recv
  <2>6. \A q \in Proc : ~ Loses(p, q, j) /\ (Beats(p, q, j) <=> q = opponent(p, j))
    BY <1>4, <2>1 DEF Beats, Loses
  <2>. QED  BY <2>4, <2>5, <2>6
<1>5. CASE role(p, j) \notin {"loser", "winner", "champion"}
  <2>1. arrival(p, j) = Bye(p) /\ wakeup(p, j) = Bye(p)
    BY <1>5 DEF arrival, wakeup
  <2>2. Bye(p) \in Operation /\ Bye(p).tag = 0 /\ Bye(p).do = "bye"
    BY DEF Bye, Operation
  <2>3. \A q \in Proc : ~ Loses(p, q, j) /\ ~ Beats(p, q, j)
    BY <1>5 DEF Beats, Loses
  <2>. QED  BY <2>1, <2>2, <2>3
<1>. QED  BY <1>3, <1>4, <1>5

LEMMA TournamentList ==
  ASSUME NEW p \in Proc, NEW b
  PROVE  LET last == lastround(p)
             list == operations("tournament", p, b) IN
         /\ list = plan("tournament", p)
         /\ list \in Seq(Operation) /\ Len(list) = 2 * last /\ DOMAIN list = 1 .. 2 * last
         /\ \A j \in 1 .. last : list[j] = arrival(p, j) /\ list[2 * last + 1 - j] = wakeup(p, j)
<1>. DEFINE last == lastround(p)
            item(k) == IF k <= last THEN arrival(p, k) ELSE wakeup(p, 2 * last + 1 - k)
            list == [k \in 1 .. 2 * last |-> item(k)]
<1>1. operations("tournament", p, b) = list /\ plan("tournament", p) = list
  BY DEF operations, plan, tournament
<1>2. last \in Nat \ {0}
  BY LastRound, Rounds DEF Rnd
<1>3. ASSUME NEW k \in 1 .. 2 * last PROVE item(k) \in Operation
  <2>1. k <= last => k \in 1 .. last
    BY <1>2
  <2>2. ~ (k <= last) => 2 * last + 1 - k \in 1 .. last
    BY <1>2
  <2>3. \A j \in 1 .. last : arrival(p, j) \in Operation /\ wakeup(p, j) \in Operation
    BY TournamentItem
  <2>. HIDE DEF last
  <2>. QED  BY <2>1, <2>2, <2>3
<1>4. \A j \in 1 .. last : item(j) = arrival(p, j) /\ item(2 * last + 1 - j) = wakeup(p, j)
  <2>. HIDE DEF last
  <2>. SUFFICES ASSUME NEW j \in 1 .. last
                PROVE  item(j) = arrival(p, j) /\ item(2 * last + 1 - j) = wakeup(p, j)
    OBVIOUS
  <2>1. j <= last /\ ~ (2 * last + 1 - j <= last) /\ 2 * last + 1 - (2 * last + 1 - j) = j
    BY <1>2
  <2>. QED  BY <2>1
<1>. HIDE DEF item, last
<1>5. list \in [1 .. 2 * last -> Operation] /\ DOMAIN list = 1 .. 2 * last
  BY <1>3
<1>6. \A j \in 1 .. last : j \in 1 .. 2 * last /\ 2 * last + 1 - j \in 1 .. 2 * last
  BY <1>2
<1>7. \A k \in 1 .. 2 * last : list[k] = item(k)
  OBVIOUS
<1>. HIDE DEF list
<1>8. list \in Seq(Operation) /\ Len(list) = 2 * last
  BY <1>2, <1>5
<1>9. \A j \in 1 .. last : list[j] = arrival(p, j) /\ list[2 * last + 1 - j] = wakeup(p, j)
  BY Zenon, <1>4, <1>6, <1>7
<1>. QED  BY <1>1, <1>5, <1>8, <1>9 DEF last

LEMMA TournamentTalk ==
  ASSUME NEW p \in Proc, NEW q \in Proc, NEW k \in Nat
  PROVE  /\ Sends("tournament", p, q, k) <=>
              \/ Loses(p, q, k)
              \/ \E j \in 1 .. lastround(p) : Beats(p, q, j) /\ k = 2 * lastround(p) + 1 - j
         /\ Receives("tournament", p, q, k) <=>
              \/ Beats(p, q, k)
              \/ \E j \in 1 .. lastround(p) : Loses(p, q, j) /\ k = 2 * lastround(p) + 1 - j
<1>. DEFINE last == lastround(p)
            list == plan("tournament", p)
<1>1. /\ DOMAIN list = 1 .. 2 * last
      /\ \A j \in 1 .. last : list[j] = arrival(p, j) /\ list[2 * last + 1 - j] = wakeup(p, j)
  BY Zenon, TournamentList
<1>2. last \in Nat \ {0}
  BY LastRound, Rounds DEF Rnd
<1>3. \A j : (Beats(p, q, j) => j \in 1 .. last) /\ (Loses(p, q, j) => j = last)
  BY DEF Beats, Loses
<1>4. \A j \in 1 .. last :
         /\ arrival(p, j).do = "send" /\ arrival(p, j).peer = q <=> Loses(p, q, j)
         /\ arrival(p, j).do = "recv" /\ arrival(p, j).peer = q <=> Beats(p, q, j)
         /\ wakeup(p, j).do = "send" /\ wakeup(p, j).peer = q <=> Beats(p, q, j)
         /\ wakeup(p, j).do = "recv" /\ wakeup(p, j).peer = q <=> Loses(p, q, j)
  BY TournamentItem
<1>5. /\ Sends("tournament", p, q, k) <=> k \in 1 .. 2 * last /\ list[k].do = "send" /\ list[k].peer = q
      /\ Receives("tournament", p, q, k) <=> k \in 1 .. 2 * last /\ list[k].do = "recv" /\ list[k].peer = q
  BY <1>1 DEF Sends, Receives
<1>. HIDE DEF last, list
<1>6. CASE k \in 1 .. last
  <2>1. /\ k \in 1 .. 2 * last /\ list[k] = arrival(p, k)
        /\ \A j \in 1 .. last : k # 2 * last + 1 - j
    BY <1>1, <1>2, <1>6
  <2>2. /\ Sends("tournament", p, q, k) <=> Loses(p, q, k)
        /\ Receives("tournament", p, q, k) <=> Beats(p, q, k)
    <3>1. /\ arrival(p, k).do = "send" /\ arrival(p, k).peer = q <=> Loses(p, q, k)
          /\ arrival(p, k).do = "recv" /\ arrival(p, k).peer = q <=> Beats(p, q, k)
      BY <1>4, <1>6
    <3>. QED  BY <1>5, <2>1, <3>1
  <2>. QED  BY Zenon, <2>1, <2>2 DEF last
<1>7. CASE k \in last + 1 .. 2 * last
  <2>. DEFINE i == 2 * last + 1 - k
  <2>1. /\ k \in 1 .. 2 * last /\ i \in 1 .. last /\ k = 2 * last + 1 - i /\ k \notin 1 .. last /\ k # last
        /\ \A j \in 1 .. last : k = 2 * last + 1 - j => j = i
    BY <1>2, <1>7
  <2>. HIDE DEF i
  <2>2. list[k] = wakeup(p, i)
    BY Zenon, <1>1, <2>1
  <2>3. /\ Sends("tournament", p, q, k) <=> Beats(p, q, i)
        /\ Receives("tournament", p, q, k) <=> Loses(p, q, i)
    BY Zenon, <1>4, <1>5, <2>1, <2>2
  <2>4. ~ Loses(p, q, k) /\ ~ Beats(p, q, k)
    BY Zenon, <1>3, <2>1
  <2>. QED  BY Zenon, <2>1, <2>3, <2>4 DEF last
<1>8. CASE k \notin 1 .. 2 * last
  <2>1. k \notin 1 .. last /\ k # last /\ \A j \in 1 .. last : k # 2 * last + 1 - j
    BY <1>2, <1>8
  <2>. QED  BY Zenon, <1>3, <1>5, <1>8, <2>1 DEF last
<1>9. k \in 1 .. last \/ k \in last + 1 .. 2 * last \/ k \notin 1 .. 2 * last
  BY <1>2
<1>. QED  BY Zenon, <1>6, <1>7, <1>8, <1>9

LEMMA TournamentShaped == Shaped("tournament")
<1>. SUFFICES ASSUME NEW p \in Proc, NEW b \in 0 .. Episodes
     PROVE  /\ operations("tournament", p, b) \in Seq(Operation) /\ Len(operations("tournament", p, b)) >= 1
            /\ Alike(operations("tournament", p, b), plan("tournament", p))
  BY Zenon DEF Shaped
<1>1. /\ operations("tournament", p, b) = plan("tournament", p)
      /\ operations("tournament", p, b) \in Seq(Operation)
      /\ Len(operations("tournament", p, b)) = 2 * lastround(p)
  BY TournamentList
<1>2. lastround(p) \in Nat \ {0}
  BY LastRound, Rounds DEF Rnd
<1>3. Len(operations("tournament", p, b)) >= 1
  BY <1>1, <1>2
<1>. QED  BY <1>1, <1>3 DEF Alike

(* The winner is below the loser, and they meet in one round. *)
LEMMA Games ==
  ASSUME NEW p \in Proc, NEW q \in Proc, NEW j
  PROVE  /\ Beats(p, q, j) => p < q /\ j \in Rnd /\ \A i : Beats(p, q, i) => i = j
         /\ Loses(p, q, j) => q < p /\ j \in Rnd /\ \A i : Loses(p, q, i) => i = j
         /\ Beats(p, q, j) <=> Loses(q, p, j)
<1>1. p \in Nat /\ q \in Nat
  BY NumProcsAssumption DEF Proc
<1>2. ASSUME Beats(p, q, j)
      PROVE  p < q /\ j \in Rnd /\ \A i : Beats(p, q, i) => i = j
  <2>1. ASSUME NEW i, Beats(p, q, i) PROVE i \in Rnd /\ 2 ^ (i - 1) \in 1 .. num_procs - 1 /\ q = p + 2 ^ (i - 1)
    <3>1. i \in Rnd /\ q = p + 2 ^ (i - 1)
      BY <2>1, LastRound, Rounds DEF Beats, Rnd
    <3>. QED  BY <3>1, RndPower
  <2>2. j \in Rnd /\ p < q
    BY <1>1, <1>2, <2>1, NumProcsAssumption
  <2>3. ASSUME NEW i, Beats(p, q, i) PROVE i = j
    <3>1. 2 ^ (i - 1) = 2 ^ (j - 1)
      BY <1>1, <1>2, <2>1, <2>3
    <3>. QED  BY <1>2, <2>1, <2>3, <3>1, RndPower
  <2>. QED  BY <2>2, <2>3
<1>3. ASSUME Loses(p, q, j)
      PROVE  q < p /\ j \in Rnd /\ \A i : Loses(p, q, i) => i = j
  <2>1. j \in Rnd /\ q = p - 2 ^ (j - 1)
    BY <1>3, LastRound DEF Loses
  <2>2. 2 ^ (j - 1) \in 1 .. num_procs - 1
    BY <2>1, RndPower
  <2>3. q < p
    BY <1>1, <2>1, <2>2, NumProcsAssumption
  <2>. QED  BY <1>3, <2>1, <2>3 DEF Loses
<1>4. Beats(p, q, j) <=> Loses(q, p, j)
  <2>1. Beats(p, q, j) => Loses(q, p, j)
    BY BeatsLoses
  <2>2. Loses(q, p, j) => Beats(p, q, j)
    <3>. SUFFICES ASSUME Loses(q, p, j) PROVE Beats(p, q, j)
      OBVIOUS
    <3>1. role(q, j) = "loser" /\ j = lastround(q) /\ p = q - 2 ^ (j - 1)
      BY DEF Loses
    <3>. QED  BY <3>1, LosesBeats
  <2>. QED  BY <2>1, <2>2
<1>. QED  BY <1>2, <1>3, <1>4

LEMMA TournamentOnePlace == OnePlace("tournament")
<1>. SUFFICES ASSUME NEW p \in Proc, NEW q \in Proc, NEW j \in Nat, NEW k \in Nat
     PROVE  /\ Sends("tournament", p, q, j) /\ Sends("tournament", p, q, k) => j = k
            /\ Receives("tournament", q, p, j) /\ Receives("tournament", q, p, k) => j = k
  BY Zenon DEF OnePlace
<1>1. p \in Nat /\ q \in Nat /\ ~ (p < q /\ q < p)
  BY NumProcsAssumption DEF Proc
<1>2. ASSUME Sends("tournament", p, q, j), Sends("tournament", p, q, k) PROVE j = k
  <2>1. \A i : /\ Beats(p, q, i) => p < q /\ \A h : Beats(p, q, h) => h = i
               /\ Loses(p, q, i) => q < p /\ \A h : Loses(p, q, h) => h = i
    BY Games
  <2>. QED  BY <1>1, <1>2, <2>1, TournamentTalk
<1>3. ASSUME Receives("tournament", q, p, j), Receives("tournament", q, p, k) PROVE j = k
  <2>1. \A i : /\ Beats(q, p, i) => q < p /\ \A h : Beats(q, p, h) => h = i
               /\ Loses(q, p, i) => p < q /\ \A h : Loses(q, p, h) => h = i
    BY Games
  <2>. QED  BY <1>1, <1>3, <2>1, TournamentTalk
<1>. QED  BY <1>2, <1>3

LEMMA TournamentPaired == Paired("tournament")
<1>. SUFFICES ASSUME NEW p \in Proc, NEW q \in Proc, NEW k \in Nat
     PROVE  /\ Sends("tournament", p, q, k) => \E j \in Nat : Receives("tournament", q, p, j)
            /\ Receives("tournament", q, p, k) => \E j \in Nat : Sends("tournament", p, q, j)
  BY Zenon DEF Paired
<1>1. ASSUME NEW x \in Proc, NEW y \in Proc, NEW j, Beats(x, y, j)
      PROVE  /\ Loses(y, x, j) /\ j \in 1 .. lastround(x) /\ j \in 1 .. lastround(y) /\ j \in Nat
             /\ 2 * lastround(x) + 1 - j \in Nat /\ 2 * lastround(y) + 1 - j \in Nat
  <2>1. Loses(y, x, j) /\ j = lastround(y) /\ j \in 1 .. lastround(x)
    BY <1>1, BeatsLoses DEF Beats, Loses
  <2>2. lastround(x) \in Nat \ {0} /\ lastround(y) \in Nat \ {0}
    BY LastRound, Rounds DEF Rnd
  <2>. QED  BY <2>1, <2>2
<1>2. ASSUME NEW x \in Proc, NEW y \in Proc, NEW j, Beats(x, y, j)
      PROVE  /\ \E i \in Nat : Sends("tournament", x, y, i)
             /\ \E i \in Nat : Receives("tournament", x, y, i)
             /\ \E i \in Nat : Sends("tournament", y, x, i)
             /\ \E i \in Nat : Receives("tournament", y, x, i)
  <2>1. /\ Loses(y, x, j) /\ j \in 1 .. lastround(x) /\ j \in 1 .. lastround(y) /\ j \in Nat
        /\ 2 * lastround(x) + 1 - j \in Nat /\ 2 * lastround(y) + 1 - j \in Nat
    BY <1>1, <1>2
  <2>2. Sends("tournament", x, y, 2 * lastround(x) + 1 - j)
    BY <1>2, <2>1, TournamentTalk
  <2>3. Receives("tournament", x, y, j)
    BY <1>2, <2>1, TournamentTalk
  <2>4. Sends("tournament", y, x, j)
    BY <1>2, <2>1, TournamentTalk
  <2>5. Receives("tournament", y, x, 2 * lastround(y) + 1 - j)
    BY <1>2, <2>1, TournamentTalk
  <2>. QED  BY <2>1, <2>2, <2>3, <2>4, <2>5
<1>3. ASSUME NEW x \in Proc, NEW y \in Proc, NEW i \in Nat,
             Sends("tournament", x, y, i) \/ Receives("tournament", x, y, i)
      PROVE  \E j : Beats(x, y, j) \/ Beats(y, x, j)
  <2>1. \E j : Beats(x, y, j) \/ Loses(x, y, j)
    BY <1>3, TournamentTalk
  <2>. QED  BY <2>1, Games
<1>4. ASSUME Sends("tournament", p, q, k) PROVE \E j \in Nat : Receives("tournament", q, p, j)
  BY <1>2, <1>3, <1>4
<1>5. ASSUME Receives("tournament", q, p, k) PROVE \E j \in Nat : Sends("tournament", p, q, j)
  BY <1>2, <1>3, <1>5
<1>. QED  BY <1>4, <1>5

LEMMA TournamentKnown ==
  ASSUME NEW p \in Proc, NEW k \in Nat
  PROVE  LET last == lastround(p) IN
         Known("tournament", p, k) = IF k <= last THEN Beaten(p, k)
                                     ELSE IF k = last + 1 /\ role(p, last) = "loser"
                                       THEN Beaten(p, last) ELSE Proc
  BY Zenon DEF Known

LEMMA BeatenGrows ==
  ASSUME NEW p \in Proc, NEW j \in Rnd, NEW k \in Rnd, j <= k
  PROVE  Beaten(p, j) \subseteq Beaten(p, k) /\ Beaten(p, k) \subseteq Proc
<1>1. j - 1 \in 0 .. k - 1 /\ k - 1 \in 0 .. num_procs + 1
  BY RndPower, Rounds DEF Rnd
<1>2. 2 ^ (j - 1) <= 2 ^ (k - 1) /\ 2 ^ (j - 1) \in Nat /\ 2 ^ (k - 1) \in Nat
  <2>1. 2 ^ (j - 1) <= 2 ^ (k - 1)
    BY <1>1, PowerGrows
  <2>2. 2 ^ (j - 1) \in 1 .. num_procs - 1 /\ 2 ^ (k - 1) \in 1 .. num_procs - 1
    BY RndPower
  <2>. QED  BY <2>1, <2>2
<1>3. \A x \in Proc : x < p + 2 ^ (j - 1) => x < p + 2 ^ (k - 1)
  BY <1>2, NumProcsAssumption DEF Proc
<1>. QED  BY <1>3 DEF Beaten

LEMMA TournamentDelivered == Delivered("tournament")
<1>. SUFFICES ASSUME NEW p \in Proc, NEW q \in Proc, NEW j \in Nat, NEW k \in Nat,
                     Sends("tournament", p, q, j), Receives("tournament", q, p, k)
     PROVE  /\ \A b \in 0 .. Episodes :
                 operations("tournament", p, b)[j].tag = operations("tournament", q, b)[k].tag
            /\ Known("tournament", q, k + 1) \subseteq Known("tournament", q, k) \cup Known("tournament", p, j)
  BY Zenon DEF Delivered
<1>1. ASSUME NEW x \in Proc, NEW b \in 0 .. Episodes, NEW i \in Nat, i \in DOMAIN plan("tournament", x)
      PROVE  operations("tournament", x, b)[i].tag = 0
  <2>. DEFINE last == lastround(x)
              list == operations("tournament", x, b)
  <2>1. last \in Nat
    BY LastRound, Rounds DEF Rnd
  <2>2. /\ i \in 1 .. 2 * last
        /\ \A h \in 1 .. last : list[h] = arrival(x, h) /\ list[2 * last + 1 - h] = wakeup(x, h)
    BY <1>1, TournamentList
  <2>3. \A h \in 1 .. last : arrival(x, h).tag = 0 /\ wakeup(x, h).tag = 0
    BY TournamentItem
  <2>. HIDE DEF list, last
  <2>4. CASE i \in 1 .. last
    BY <2>2, <2>3, <2>4 DEF list
  <2>5. CASE i \notin 1 .. last
    <3>. DEFINE h == 2 * last + 1 - i
    <3>1. h \in 1 .. last /\ 2 * last + 1 - h = i
      BY <2>1, <2>2, <2>5
    <3>. HIDE DEF h
    <3>2. list[i] = wakeup(x, h)
      BY Zenon, <2>2, <3>1
    <3>. QED  BY Zenon, <2>3, <3>1, <3>2 DEF list
  <2>. QED  BY <2>4, <2>5
<1>2. \A b \in 0 .. Episodes : operations("tournament", p, b)[j].tag = operations("tournament", q, b)[k].tag
  <2>1. j \in DOMAIN plan("tournament", p) /\ k \in DOMAIN plan("tournament", q)
    BY DEF Sends, Receives
  <2>. QED  BY Zenon, <1>1, <2>1
<1>3. p \in Nat /\ q \in Nat /\ num_procs \in Nat
  BY NumProcsAssumption DEF Proc
<1>4. lastround(p) \in Nat \ {0} /\ lastround(q) \in Nat \ {0} /\ lastround(p) \in Rnd /\ lastround(q) \in Rnd
  BY LastRound, Rounds DEF Rnd
<1>5. CASE p > q
  <2>1. Loses(p, q, j) /\ Beats(q, p, k)
    <3>1. /\ \A i : Beats(p, q, i) => p < q
          /\ \A i : Loses(q, p, i) => p < q
      BY Games
    <3>. QED  BY <1>3, <1>5, <3>1, TournamentTalk
  <2>2. j = k /\ j = lastround(p) /\ j \in 1 .. lastround(q) /\ j \in Rnd
    <3>1. Loses(p, q, k)
      BY <2>1, Games
    <3>. QED  BY <1>4, <2>1, <3>1 DEF Loses, Beats
  <2>. DEFINE h == 2 ^ (j - 1)
  <2>3. h \in 1 .. num_procs - 1 /\ 2 ^ j = 2 * h /\ p = q + h /\ (j + 1) - 1 = j
    <3>1. h \in 1 .. num_procs - 1 /\ 2 ^ j = 2 * h
      BY <2>2, RndPower
    <3>. QED  BY <1>3, <2>1, <2>2, <3>1 DEF Beats
  <2>4. /\ Known("tournament", q, k) = {x \in Proc : q <= x /\ x < q + h}
        /\ Known("tournament", p, j) = {x \in Proc : p <= x /\ x < p + h}
    <3>1. Known("tournament", q, k) = Beaten(q, k) /\ Known("tournament", p, j) = Beaten(p, j)
      BY <1>4, <2>2, TournamentKnown
    <3>. QED  BY <2>2, <3>1 DEF Beaten
  <2>5. \A x \in Known("tournament", q, k + 1) : x \in Proc /\ q <= x /\ x < q + 2 * h
    <3>1. CASE k < lastround(q)
      <4>1. Known("tournament", q, k + 1) = Beaten(q, k + 1)
        BY <1>4, <3>1, TournamentKnown
      <4>2. Beaten(q, k + 1) = {x \in Proc : q <= x /\ x < q + 2 * h}
        <5>1. 2 ^ ((k + 1) - 1) = 2 * h
          BY <2>2, <2>3
        <5>. HIDE DEF h
        <5>. QED  BY <5>1 DEF Beaten
      <4>. QED  BY <4>1, <4>2
    <3>2. CASE k = lastround(q)
      <4>1. role(q, k) = "champion"
        BY <2>1, <3>2, LastRound DEF Beats, Stop
      <4>2. q = 0 /\ 2 ^ k >= num_procs
        BY <2>2, <4>1, Roles
      <4>3. \A x \in Proc : q <= x /\ x < q + 2 * h
        <5>. HIDE DEF h
        <5>. QED  BY <2>2, <2>3, <4>2, NumProcsAssumption DEF Proc
      <4>4. Known("tournament", q, k + 1) \subseteq Proc
        BY <1>4, <3>2, <4>1, TournamentKnown
      <4>. QED  BY <4>3, <4>4
    <3>. QED  BY <1>4, <2>2, <3>1, <3>2
  <2>6. Known("tournament", q, k + 1) \subseteq Known("tournament", q, k) \cup Known("tournament", p, j)
    <3>. HIDE DEF h
    <3>1. \A x \in Proc : q <= x /\ x < q + 2 * h => (q <= x /\ x < q + h) \/ (p <= x /\ x < p + h)
      BY <1>3, <2>3 DEF Proc
    <3>. QED  BY <2>4, <2>5, <3>1
  <2>. QED  BY <1>2, <2>6
<1>6. CASE p < q
  <2>1. PICK i \in 1 .. lastround(p) : Beats(p, q, i) /\ j = 2 * lastround(p) + 1 - i
    <3>1. \A h : Loses(p, q, h) => q < p
      BY Games
    <3>. QED  BY <1>3, <1>6, <3>1, TournamentTalk
  <2>2. role(q, lastround(q)) = "loser" /\ k = lastround(q) + 1
    <3>1. \A h : Beats(q, p, h) => q < p
      BY Games
    <3>2. PICK h \in 1 .. lastround(q) : Loses(q, p, h) /\ k = 2 * lastround(q) + 1 - h
      BY <1>3, <1>6, <3>1, TournamentTalk
    <3>. QED  BY <1>4, <3>2 DEF Loses
  <2>3. Known("tournament", p, j) = Proc
    <3>1. CASE role(p, lastround(p)) = "loser"
      <4>1. i # lastround(p)
        BY <2>1, <3>1 DEF Beats
      <4>2. ~ (j <= lastround(p)) /\ j # lastround(p) + 1
        BY <1>4, <2>1, <4>1
      <4>. QED  BY <4>2, TournamentKnown
    <3>2. CASE role(p, lastround(p)) # "loser"
      <4>1. ~ (j <= lastround(p))
        BY <1>4, <2>1
      <4>. QED  BY <3>2, <4>1, TournamentKnown
    <3>. QED  BY <3>1, <3>2
  <2>4. Known("tournament", q, k + 1) = Proc
    <3>1. ~ (k + 1 <= lastround(q)) /\ k + 1 # lastround(q) + 1
      BY <1>4, <2>2
    <3>. QED  BY <3>1, TournamentKnown
  <2>. QED  BY <1>2, <2>3, <2>4
<1>7. p # q
  <2>1. \A i : (Beats(p, q, i) => p < q) /\ (Loses(p, q, i) => q < p)
    BY Games
  <2>. QED  BY <1>3, <2>1, TournamentTalk
<1>. QED  BY <1>3, <1>5, <1>6, <1>7

LEMMA TournamentLearned == Learned("tournament")
<1>. SUFFICES ASSUME NEW p \in Proc
     PROVE  /\ Known("tournament", p, 1) \subseteq {p}
            /\ Known("tournament", p, Len(plan("tournament", p)) + 1) = Proc
            /\ \A j, k \in 1 .. Len(plan("tournament", p)) + 1 :
                 j <= k => Known("tournament", p, j) \subseteq Known("tournament", p, k)
            /\ \A k \in 1 .. Len(plan("tournament", p)) :
                 plan("tournament", p)[k].do # "recv" =>
                   Known("tournament", p, k + 1) \subseteq Known("tournament", p, k)
  BY Zenon DEF Learned
<1>. DEFINE last == lastround(p)
            list == plan("tournament", p)
<1>1. last \in Nat \ {0} /\ last \in Rnd /\ \A k \in 1 .. last : k \in Rnd
  BY LastRound, Rounds DEF Rnd
<1>2. Len(list) = 2 * last
  BY TournamentList
<1>3. \A k \in Nat : Known("tournament", p, k) = IF k <= last THEN Beaten(p, k)
                                                 ELSE IF k = last + 1 /\ role(p, last) = "loser"
                                                   THEN Beaten(p, last) ELSE Proc
  BY Zenon, TournamentKnown
<1>4. p \in Nat /\ num_procs \in Nat
  BY NumProcsAssumption DEF Proc
<1>. HIDE DEF last, list
<1>5. Known("tournament", p, 1) \subseteq {p}
  <2>1. Known("tournament", p, 1) = Beaten(p, 1)
    BY <1>1, <1>3
  <2>2. Beaten(p, 1) = {x \in Proc : p <= x /\ x < p + 1}
    BY PowersAssumption DEF Beaten
  <2>. QED  BY <1>4, <2>1, <2>2 DEF Proc
<1>6. Known("tournament", p, Len(list) + 1) = Proc
  <2>1. ~ (2 * last + 1 <= last) /\ 2 * last + 1 # last + 1 /\ 2 * last + 1 \in Nat
    BY <1>1
  <2>. QED  BY <1>2, <1>3, <2>1
<1>7. ASSUME NEW j \in 1 .. Len(list) + 1, NEW k \in 1 .. Len(list) + 1, j <= k
      PROVE  Known("tournament", p, j) \subseteq Known("tournament", p, k)
  <2>1. j \in Nat /\ k \in Nat /\ j >= 1 /\ k >= 1
    BY <1>1, <1>2
  <2>2. \A g \in 1 .. last : \A h \in 1 .. last :
           g <= h => Beaten(p, g) \subseteq Beaten(p, h) /\ Beaten(p, h) \subseteq Proc
    BY <1>1, BeatenGrows
  <2>3. CASE k <= last
    <3>1. j \in 1 .. last /\ k \in 1 .. last /\ j <= last
      BY <1>1, <1>7, <2>1, <2>3
    <3>. QED  BY <1>3, <1>7, <2>1, <2>2, <2>3, <3>1
  <2>4. CASE ~ (k <= last) /\ j <= last
    <3>1. j \in 1 .. last /\ last \in 1 .. last
      BY <1>1, <2>1, <2>4
    <3>2. Beaten(p, j) \subseteq Beaten(p, last) /\ Beaten(p, j) \subseteq Proc
      BY <1>1, <2>2, <2>4, <3>1
    <3>3. Known("tournament", p, j) = Beaten(p, j)
      BY <1>3, <2>1, <2>4
    <3>4. Known("tournament", p, k) \in {Beaten(p, last), Proc}
      BY <1>3, <2>1, <2>4
    <3>. QED  BY <3>2, <3>3, <3>4
  <2>5. CASE ~ (k <= last) /\ ~ (j <= last)
    <3>1. Beaten(p, last) \subseteq Proc
      BY DEF Beaten
    <3>2. k = last + 1 => j = last + 1
      BY <1>1, <1>7, <2>1, <2>5
    <3>. QED  BY <1>3, <2>1, <2>5, <3>1, <3>2
  <2>. QED  BY <2>3, <2>4, <2>5
<1>8. ASSUME NEW k \in 1 .. Len(list), list[k].do # "recv"
      PROVE  Known("tournament", p, k + 1) \subseteq Known("tournament", p, k)
  <2>1. k \in Nat /\ k >= 1 /\ k + 1 \in Nat
    BY <1>1, <1>2
  <2>2. k \in 1 .. last => list[k] = arrival(p, k)
    BY TournamentList DEF list, last
  <2>3. CASE k < last
    <3>1. k \in 1 .. last /\ k \in Rnd /\ role(p, k) \in {"winner", "bye"}
      <4>1. k \in 1 .. last - 1 /\ k \in 1 .. last
        BY <1>1, <2>1, <2>3
      <4>. QED  BY <1>1, <4>1, LastRound DEF last
    <3>2. role(p, k) # "winner"
      <4>. SUFFICES ASSUME role(p, k) = "winner" PROVE FALSE
        OBVIOUS
      <4>1. arrival(p, k) = Recv(opponent(p, k), 0)
        BY DEF arrival
      <4>2. list[k].do = "recv"
        BY <2>2, <3>1, <4>1 DEF Recv
      <4>. QED  BY <1>8, <4>2
    <3>3. p + 2 ^ (k - 1) >= num_procs
      BY <3>1, <3>2, Roles
    <3>4. Beaten(p, k + 1) \subseteq Beaten(p, k)
      <4>1. 2 ^ (k - 1) \in 1 .. num_procs - 1
        BY <3>1, RndPower
      <4>2. \A x \in Proc : x < p + 2 ^ (k - 1)
        BY <1>4, <3>3, <4>1 DEF Proc
      <4>. QED  BY <4>2 DEF Beaten
    <3>5. Known("tournament", p, k) = Beaten(p, k) /\ Known("tournament", p, k + 1) = Beaten(p, k + 1)
      BY <1>1, <1>3, <2>1, <2>3
    <3>. QED  BY <3>4, <3>5
  <2>4. CASE k = last
    <3>1. role(p, last) = "loser"
      <4>. SUFFICES ASSUME role(p, last) # "loser" PROVE FALSE
        OBVIOUS
      <4>1. role(p, k) = "champion"
        BY <2>4, LastRound DEF last, Stop
      <4>2. arrival(p, k) = Recv(opponent(p, k), 0)
        BY <4>1 DEF arrival
      <4>3. list[k].do = "recv"
        BY <1>1, <2>1, <2>2, <2>4, <4>2 DEF Recv
      <4>. QED  BY <1>8, <4>3
    <3>2. k + 1 = last + 1 /\ ~ (k + 1 <= last) /\ k <= last
      BY <1>1, <2>4
    <3>. QED  BY <1>3, <2>1, <2>4, <3>1, <3>2
  <2>5. CASE k > last
    <3>1. Known("tournament", p, k) = Proc
      <4>1. ~ (k = last + 1 /\ role(p, last) = "loser")
        <5>. SUFFICES ASSUME k = last + 1, role(p, last) = "loser" PROVE FALSE
          OBVIOUS
        <5>1. wakeup(p, last) = Recv(opponent(p, last), 0)
          BY DEF wakeup
        <5>2. list[2 * last + 1 - last] = wakeup(p, last)
          BY <1>1, TournamentList DEF list, last
        <5>3. 2 * last + 1 - last = k
          BY <1>1
        <5>4. list[k].do = "recv"
          BY <5>1, <5>2, <5>3 DEF Recv
        <5>. QED  BY <1>8, <5>4
      <4>. QED  BY <1>1, <1>3, <2>1, <2>5, <4>1
    <3>2. Known("tournament", p, k + 1) \subseteq Proc
      BY <1>3, <2>1 DEF Beaten
    <3>. QED  BY <3>1, <3>2
  <2>. QED  BY <1>1, <2>1, <2>3, <2>4, <2>5
<1>. QED  BY <1>5, <1>6, <1>7, <1>8 DEF list

-----------------------------------------------------------------------------
(* What the proof of the invariant needs to know of the three programs. *)

LEMMA AllPrograms ==
  ASSUME NEW prog \in Program
  PROVE  Shaped(prog) /\ OnePlace(prog) /\ Paired(prog) /\ Delivered(prog) /\ Learned(prog)
<1>1. CASE prog = "counter"
  BY <1>1, CounterShaped, CounterOnePlace, CounterPaired, CounterDelivered, CounterLearned
<1>2. CASE prog = "dissemination"
  BY <1>2, DisseminationShaped, DisseminationOnePlace, DisseminationPaired,
     DisseminationDelivered, DisseminationLearned
<1>3. CASE prog = "tournament"
  BY <1>3, TournamentShaped, TournamentOnePlace, TournamentPaired, TournamentDelivered, TournamentLearned
<1>. QED  BY <1>1, <1>2, <1>3 DEF Program

(* A list is not empty, and its length, kinds and peers do not depend on   *)
(* the episode.                                                            *)
LEMMA ListShape ==
  ASSUME NEW prog \in Program, NEW p \in Proc, NEW b \in 0 .. Episodes
  PROVE  LET list == operations(prog, p, b) IN
         /\ list \in Seq(Operation) /\ Len(list) >= 1
         /\ plan(prog, p) \in Seq(Operation)
         /\ Len(list) = Len(plan(prog, p))
         /\ \A k \in 1 .. Len(list) : /\ list[k].do = plan(prog, p)[k].do
                                      /\ list[k].peer = plan(prog, p)[k].peer
<1>1. Shaped(prog) /\ 0 \in 0 .. Episodes
  BY AllPrograms, EpisodesAssumption
<1>2. /\ operations(prog, p, b) \in Seq(Operation) /\ Len(operations(prog, p, b)) >= 1
      /\ Alike(operations(prog, p, b), plan(prog, p))
  BY Zenon, <1>1 DEF Shaped
<1>3. plan(prog, p) \in Seq(Operation)
  BY Zenon, <1>1 DEF Shaped, plan
<1>. QED  BY Zenon, <1>2, <1>3 DEF Alike

(* There is one place at which p sends to q. *)
LEMMA OneSend ==
  ASSUME NEW prog \in Program, NEW p \in Proc, NEW q \in Proc, NEW k \in Nat,
         Sends(prog, p, q, k)
  PROVE  to(prog, p, q) = k
<1>1. \A j \in Nat : Sends(prog, p, q, j) => j = k
  BY AllPrograms DEF OnePlace
<1>. QED  BY <1>1 DEF to

LEMMA OneReceive ==
  ASSUME NEW prog \in Program, NEW p \in Proc, NEW q \in Proc, NEW k \in Nat,
         Receives(prog, q, p, k)
  PROVE  from(prog, q, p) = k
<1>1. \A j \in Nat : Receives(prog, q, p, j) => j = k
  BY AllPrograms DEF OnePlace
<1>. QED  BY <1>1 DEF from

(* Whoever receives is sent to, and conversely, under the same tag. *)
LEMMA SenderOf ==
  ASSUME NEW prog \in Program, NEW p \in Proc, NEW q \in Proc, NEW k \in Nat,
         Receives(prog, q, p, k)
  PROVE  Talks(prog, p, q)
  BY AllPrograms DEF Paired, Talks

LEMMA ReceiverOf ==
  ASSUME NEW prog \in Program, NEW p \in Proc, NEW q \in Proc, Talks(prog, p, q)
  PROVE  \E k \in Nat : Receives(prog, q, p, k)
  BY AllPrograms DEF Paired, Talks

LEMMA SameTag ==
  ASSUME NEW prog \in Program, NEW p \in Proc, NEW q \in Proc, Talks(prog, p, q),
         NEW b \in 0 .. Episodes
  PROVE  operations(prog, p, b)[to(prog, p, q)].tag = operations(prog, q, b)[from(prog, q, p)].tag
<1>1. PICK j \in Nat : Sends(prog, p, q, j)
  BY DEF Talks
<1>2. PICK k \in Nat : Receives(prog, q, p, k)
  BY ReceiverOf
<1>3. to(prog, p, q) = j /\ from(prog, q, p) = k
  BY <1>1, <1>2, OneSend, OneReceive
<1>4. Delivered(prog)
  BY AllPrograms
<1>5. operations(prog, p, b)[j].tag = operations(prog, q, b)[k].tag
  BY Zenon, <1>1, <1>2, <1>4 DEF Delivered
<1>. QED  BY Zenon, <1>3, <1>5

(* Before its first operation a process knows of itself, after the last    *)
(* one of everybody; only what it receives adds to that.                   *)
LEMMA KnownEnds ==
  ASSUME NEW prog \in Program, NEW p \in Proc
  PROVE  /\ Known(prog, p, 1) \subseteq {p}
         /\ Known(prog, p, Len(plan(prog, p)) + 1) = Proc
  BY AllPrograms DEF Learned

LEMMA KnownGrows ==
  ASSUME NEW prog \in Program, NEW p \in Proc,
         NEW j \in 1 .. Len(plan(prog, p)) + 1, NEW k \in 1 .. Len(plan(prog, p)) + 1, j <= k
  PROVE  Known(prog, p, j) \subseteq Known(prog, p, k) /\ Known(prog, p, k) \subseteq Proc
<1>. DEFINE m == Len(plan(prog, p)) + 1
<1>1. /\ Known(prog, p, m) = Proc
      /\ \A g, h \in 1 .. m : g <= h => Known(prog, p, g) \subseteq Known(prog, p, h)
  BY Zenon, AllPrograms DEF Learned
<1>2. m \in 1 .. m /\ k <= m
  <2>1. plan(prog, p) \in Seq(Operation)
    BY ListShape, EpisodesAssumption
  <2>2. Len(plan(prog, p)) \in Nat
    BY <2>1
  <2>. QED  BY <2>2
<1>. HIDE DEF m
<1>3. Known(prog, p, k) \subseteq Known(prog, p, m)
  BY <1>1, <1>2 DEF m
<1>. QED  BY <1>1, <1>3 DEF m

LEMMA KnownKept ==
  ASSUME NEW prog \in Program, NEW p \in Proc, NEW k \in 1 .. Len(plan(prog, p)),
         plan(prog, p)[k].do # "recv"
  PROVE  Known(prog, p, k + 1) \subseteq Known(prog, p, k)
<1>1. Learned(prog)
  BY AllPrograms
<1>. QED  BY Zenon, <1>1 DEF Learned

LEMMA KnownReceived ==
  ASSUME NEW prog \in Program, NEW p \in Proc, NEW q \in Proc, NEW k \in Nat,
         Receives(prog, p, q, k)
  PROVE  Known(prog, p, k + 1) \subseteq Known(prog, p, k) \cup Known(prog, q, to(prog, q, p))
<1>1. PICK j \in Nat : Sends(prog, q, p, j)
  BY SenderOf DEF Talks
<1>2. to(prog, q, p) = j
  BY <1>1, OneSend
<1>3. Delivered(prog)
  BY AllPrograms
<1>4. Known(prog, p, k + 1) \subseteq Known(prog, p, k) \cup Known(prog, q, j)
  BY Zenon, <1>1, <1>3 DEF Delivered
<1>. QED  BY Zenon, <1>2, <1>4


-----------------------------------------------------------------------------
(* The operation that a process is at. *)

LEMMA ToPlace ==
  ASSUME NEW prog \in Program, NEW p \in Proc, NEW q \in Proc, Talks(prog, p, q)
  PROVE  /\ to(prog, p, q) \in 1 .. Len(plan(prog, p))
         /\ Sends(prog, p, q, to(prog, p, q))
<1>1. PICK k \in Nat : Sends(prog, p, q, k)
  BY DEF Talks
<1>2. to(prog, p, q) = k
  BY <1>1, OneSend
<1>3. plan(prog, p) \in Seq(Operation)
  BY ListShape, EpisodesAssumption
<1>4. DOMAIN plan(prog, p) = 1 .. Len(plan(prog, p))
  BY <1>3
<1>. QED  BY <1>1, <1>2, <1>4 DEF Sends

LEMMA FromPlace ==
  ASSUME NEW prog \in Program, NEW p \in Proc, NEW q \in Proc, Talks(prog, p, q)
  PROVE  /\ from(prog, q, p) \in 1 .. Len(plan(prog, q))
         /\ Receives(prog, q, p, from(prog, q, p))
<1>1. PICK k \in Nat : Receives(prog, q, p, k)
  BY ReceiverOf
<1>2. from(prog, q, p) = k
  BY <1>1, OneReceive
<1>3. plan(prog, q) \in Seq(Operation)
  BY ListShape, EpisodesAssumption
<1>4. DOMAIN plan(prog, q) = 1 .. Len(plan(prog, q))
  BY <1>3
<1>. QED  BY <1>1, <1>2, <1>4 DEF Receives

LEMMA AtPlace ==
  ASSUME TypeOK, CallOK, NEW p \in Proc, pc[p] # 0
  PROVE  /\ left[p] \in 0 .. Episodes - 1
         /\ entered[p] = left[p] + 1
         /\ ops(p) = operations(program, p, left[p])
         /\ pc[p] \in 1 .. Len(plan(program, p))
         /\ pc[p] \in DOMAIN plan(program, p)
         /\ Len(ops(p)) = Len(plan(program, p))
         /\ ops(p)[pc[p]] \in Operation
         /\ ops(p)[pc[p]].do = plan(program, p)[pc[p]].do
         /\ ops(p)[pc[p]].peer = plan(program, p)[pc[p]].peer
<1>1. /\ left[p] \in 0 .. Episodes - 1 /\ entered[p] = left[p] + 1 /\ cur_bar[p] = left[p]
      /\ left[p] \in 0 .. Episodes
  BY EpisodesAssumption DEF TypeOK, CallOK
<1>2. ops(p) = operations(program, p, left[p])
  BY <1>1 DEF ops
<1>3. /\ ops(p) \in Seq(Operation) /\ plan(program, p) \in Seq(Operation)
      /\ Len(ops(p)) = Len(plan(program, p))
      /\ \A k \in 1 .. Len(ops(p)) : /\ ops(p)[k].do = plan(program, p)[k].do
                                     /\ ops(p)[k].peer = plan(program, p)[k].peer
  BY <1>1, <1>2, ListShape DEF TypeOK
<1>4. pc[p] \in 1 .. Len(ops(p))
  BY <1>3 DEF TypeOK
<1>5. DOMAIN plan(program, p) = 1 .. Len(plan(program, p)) /\ ops(p)[pc[p]] \in Operation
  BY <1>3, <1>4
<1>. QED  BY <1>1, <1>2, <1>3, <1>4, <1>5

(* The process at a send is at the one place for its peer, and has not     *)
(* counted the message unless it waits for its receiver.                   *)
LEMMA AtSend ==
  ASSUME TypeOK, CallOK, NEW p \in Proc, At(p, "send")
  PROVE  LET q == ops(p)[pc[p]].peer IN
         /\ q \in Proc /\ Talks(program, p, q)
         /\ to(program, p, q) = pc[p]
         /\ \A r \in Proc : Talks(program, p, r) /\ to(program, p, r) = pc[p] => r = q
         /\ \A r \in Proc : Talks(program, r, p) => from(program, p, r) # pc[p]
<1>. DEFINE q == ops(p)[pc[p]].peer
<1>1. /\ pc[p] \in Nat /\ program \in Program /\ q \in Proc
      /\ plan(program, p)[pc[p]].do = "send"
      /\ plan(program, p)[pc[p]].peer = q
      /\ pc[p] \in DOMAIN plan(program, p)
  BY AtPlace DEF TypeOK, At, Operation
<1>2. Sends(program, p, q, pc[p])
  BY <1>1 DEF Sends
<1>3. Talks(program, p, q) /\ to(program, p, q) = pc[p]
  BY <1>1, <1>2, OneSend DEF Talks
<1>4. ASSUME NEW r \in Proc, Talks(program, p, r), to(program, p, r) = pc[p] PROVE r = q
  BY <1>1, <1>4, ToPlace DEF Sends
<1>5. ASSUME NEW r \in Proc, Talks(program, r, p) PROVE from(program, p, r) # pc[p]
  BY <1>1, <1>5, FromPlace DEF Receives
<1>. QED  BY <1>1, <1>3, <1>4, <1>5

LEMMA AtReceive ==
  ASSUME TypeOK, CallOK, NEW p \in Proc, At(p, "recv")
  PROVE  LET q == ops(p)[pc[p]].peer IN
         /\ q \in Proc /\ Talks(program, q, p)
         /\ Receives(program, p, q, pc[p])
         /\ from(program, p, q) = pc[p]
         /\ \A r \in Proc : Talks(program, r, p) /\ from(program, p, r) = pc[p] => r = q
         /\ \A r \in Proc : Talks(program, p, r) => to(program, p, r) # pc[p]
<1>. DEFINE q == ops(p)[pc[p]].peer
<1>1. /\ pc[p] \in Nat /\ program \in Program /\ q \in Proc
      /\ plan(program, p)[pc[p]].do = "recv"
      /\ plan(program, p)[pc[p]].peer = q
      /\ pc[p] \in DOMAIN plan(program, p)
  BY AtPlace DEF TypeOK, At, Operation
<1>2. Receives(program, p, q, pc[p])
  BY <1>1 DEF Receives
<1>3. Talks(program, q, p) /\ from(program, p, q) = pc[p]
  BY <1>1, <1>2, OneReceive, SenderOf
<1>4. ASSUME NEW r \in Proc, Talks(program, r, p), from(program, p, r) = pc[p] PROVE r = q
  BY <1>1, <1>4, FromPlace DEF Receives
<1>5. ASSUME NEW r \in Proc, Talks(program, p, r) PROVE to(program, p, r) # pc[p]
  BY <1>1, <1>5, ToPlace DEF Sends
<1>. QED  BY <1>1, <1>2, <1>3, <1>4, <1>5

LEMMA AtBye ==
  ASSUME TypeOK, CallOK, NEW p \in Proc, At(p, "bye")
  PROVE  /\ \A r \in Proc : Talks(program, r, p) => from(program, p, r) # pc[p]
         /\ \A r \in Proc : Talks(program, p, r) => to(program, p, r) # pc[p]
<1>1. /\ pc[p] \in Nat /\ program \in Program
      /\ plan(program, p)[pc[p]].do = "bye"
  BY AtPlace DEF TypeOK, At
<1>2. ASSUME NEW r \in Proc, Talks(program, r, p) PROVE from(program, p, r) # pc[p]
  BY <1>1, <1>2, FromPlace DEF Receives
<1>3. ASSUME NEW r \in Proc, Talks(program, p, r) PROVE to(program, p, r) # pc[p]
  BY <1>1, <1>3, ToPlace DEF Sends
<1>. QED  BY <1>2, <1>3

-----------------------------------------------------------------------------
(* The steps. *)

(* What p has done of its list: a place of the list counts as passed, in   *)
(* this episode or in the one that has just ended.                         *)
LEMMA GoOnFacts ==
  ASSUME TypeOK, CallOK, NEW p \in Proc, pc[p] # 0, goon(p),
         UNCHANGED <<program, entered>>
  PROVE  /\ \A q \in Proc \ {p} : pc'[q] = pc[q] /\ left'[q] = left[q] /\ ops(q)' = ops(q)
         /\ pc' \in [Proc -> Nat] /\ \A q \in Proc : pc'[q] <= Len(ops(q)')
         /\ cur_bar' \in [Proc -> 0 .. Episodes] /\ left' \in [Proc -> 0 .. Episodes]
         /\ \A q \in Proc : /\ entered'[q] = (IF pc'[q] = 0 THEN left'[q] ELSE left'[q] + 1)
                            /\ cur_bar'[q] = left'[q]
         /\ \A k \in 1 .. Len(plan(program, p)) :
              (IF pc'[p] > k THEN left'[p] + 1 ELSE left'[p])
                = (IF pc[p] >= k THEN left[p] + 1 ELSE left[p])
         /\ \/ /\ pc'[p] = pc[p] + 1 /\ left'[p] = left[p]
               /\ pc'[p] <= Len(plan(program, p))
            \/ /\ pc'[p] = 0 /\ left'[p] = left[p] + 1
               /\ pc[p] = Len(plan(program, p))
<1>1. /\ left[p] \in 0 .. Episodes - 1 /\ entered[p] = left[p] + 1
      /\ Len(ops(p)) = Len(plan(program, p)) /\ Len(ops(p)) \in Nat
      /\ pc[p] \in 1 .. Len(ops(p))
  BY AtPlace
<1>2. /\ pc \in [Proc -> Nat] /\ left \in [Proc -> 0 .. Episodes]
      /\ cur_bar \in [Proc -> 0 .. Episodes] /\ Episodes \in Nat
      /\ \A q \in Proc : /\ entered[q] = (IF pc[q] = 0 THEN left[q] ELSE left[q] + 1)
                         /\ cur_bar[q] = left[q] /\ pc[q] <= Len(ops(q))
  BY EpisodesAssumption DEF TypeOK, CallOK
<1>3. CASE pc[p] < Len(ops(p))
  <2>1. /\ pc' = [pc EXCEPT ![p] = pc[p] + 1] /\ cur_bar' = cur_bar /\ left' = left
    BY <1>3 DEF goon
  <2>2. \A q \in Proc : ops(q)' = ops(q)
    BY <2>1 DEF ops
  <2>. QED  BY <1>1, <1>2, <1>3, <2>1, <2>2
<1>4. CASE ~ (pc[p] < Len(ops(p)))
  <2>1. /\ pc' = [pc EXCEPT ![p] = 0] /\ cur_bar' = [cur_bar EXCEPT ![p] = cur_bar[p] + 1]
        /\ left' = [left EXCEPT ![p] = left[p] + 1]
    BY <1>4 DEF goon
  <2>2. \A q \in Proc \ {p} : ops(q)' = ops(q)
    BY <1>2, <2>1 DEF ops
  <2>3. left[p] + 1 \in 0 .. Episodes /\ cur_bar'[p] = left[p] + 1 /\ pc[p] = Len(ops(p))
        /\ cur_bar[p] + 1 \in 0 .. Episodes
    BY <1>1, <1>2, <1>4, <2>1
  <2>4. ops(p)' \in Seq(Operation) /\ Len(ops(p)') \in Nat
    BY <2>3, ListShape, <1>1 DEF ops, TypeOK
  <2>5. \A q \in Proc : pc'[q] <= Len(ops(q)')
    BY <1>2, <2>1, <2>2, <2>4
  <2>6. cur_bar' \in [Proc -> 0 .. Episodes] /\ left' \in [Proc -> 0 .. Episodes]
    BY <1>2, <2>1, <2>3
  <2>7. \A q \in Proc : /\ entered'[q] = (IF pc'[q] = 0 THEN left'[q] ELSE left'[q] + 1)
                        /\ cur_bar'[q] = left'[q]
    BY <1>1, <1>2, <2>1, <2>3
  <2>. QED  BY <1>1, <1>2, <2>1, <2>2, <2>3, <2>5, <2>6, <2>7
<1>. QED  BY <1>3, <1>4

(* What p knows when it has finished an operation; when it was the last    *)
(* one, p may leave.                                                       *)
LEMMA GoOnKnown ==
  ASSUME TypeOK, CallOK, KnownOK, BarrierSafety, NEW p \in Proc, pc[p] # 0, goon(p),
         UNCHANGED <<program, entered>>,
         \A x \in Known(program, p, pc[p] + 1) : entered[p] <= entered[x]
  PROVE  KnownOK' /\ BarrierSafety'
<1>1. /\ \A q \in Proc \ {p} : pc'[q] = pc[q] /\ left'[q] = left[q]
      /\ \/ /\ pc'[p] = pc[p] + 1 /\ left'[p] = left[p]
         \/ /\ pc'[p] = 0 /\ left'[p] = left[p] + 1
            /\ pc[p] = Len(plan(program, p))
      /\ entered' = entered /\ program' = program /\ program \in Program
  BY GoOnFacts DEF TypeOK
<1>2. KnownOK'
  BY <1>1 DEF KnownOK
<1>3. BarrierSafety'
  <2>. SUFFICES ASSUME NEW q \in Proc, NEW x \in Proc PROVE left'[q] <= entered'[x]
    BY DEF BarrierSafety
  <2>1. left[q] <= entered[x]
    BY DEF BarrierSafety
  <2>2. CASE left'[q] = left[q]
    BY <1>1, <2>1, <2>2
  <2>3. CASE left'[q] # left[q]
    <3>1. /\ q = p /\ left'[p] = left[p] + 1 /\ pc[p] = Len(plan(program, p))
      BY <1>1, <2>3
    <3>2. x \in Known(program, p, pc[p] + 1)
      BY <1>1, <3>1, KnownEnds
    <3>3. left[p] + 1 = entered[p]
      BY AtPlace
    <3>. QED  BY <1>1, <3>1, <3>2, <3>3
  <2>. QED  BY <2>2, <2>3
<1>. QED  BY <1>2, <1>3

(* The counts of messages when p has finished an operation: one more of    *)
(* those that it is about.                                                 *)
LEMMA GoOnCounts ==
  ASSUME TypeOK, CallOK, NEW p \in Proc, pc[p] # 0, goon(p),
         UNCHANGED <<program, entered>>, sending' = sending \ {p},
         NEW q \in Proc, NEW r \in Proc, Talks(program, q, r)
  PROVE  /\ sent(q, r)' = (IF q = p /\ to(program, p, r) = pc[p] THEN left[p] + 1 ELSE sent(q, r))
         /\ received(r, q)' = (IF r = p /\ from(program, p, q) = pc[p] THEN left[p] + 1
                                                                   ELSE received(r, q))
<1>1. /\ \A x \in Proc \ {p} : pc'[x] = pc[x] /\ left'[x] = left[x]
      /\ \A k \in 1 .. Len(plan(program, p)) :
              (IF pc'[p] > k THEN left'[p] + 1 ELSE left'[p])
                = (IF pc[p] >= k THEN left[p] + 1 ELSE left[p])
      /\ program' = program /\ program \in Program
      /\ pc \in [Proc -> Nat] /\ left \in [Proc -> 0 .. Episodes]
      /\ pc' \in [Proc -> Nat] /\ left' \in [Proc -> 0 .. Episodes]
  BY GoOnFacts DEF TypeOK
<1>2. /\ to(program, q, r) \in 1 .. Len(plan(program, q))
      /\ from(program, r, q) \in 1 .. Len(plan(program, r))
  BY <1>1, ToPlace, FromPlace
<1>3. Len(plan(program, p)) \in Nat
  BY AtPlace
<1>4. sent(q, r)' = (IF q = p /\ to(program, p, r) = pc[p] THEN left[p] + 1 ELSE sent(q, r))
  <2>. DEFINE k == to(program, q, r)
  <2>1. sent(q, r)' = (IF pc'[q] > k \/ (pc'[q] = k /\ q \in sending') THEN left'[q] + 1 ELSE left'[q])
    BY <1>1 DEF sent
  <2>2. sent(q, r) = (IF pc[q] > k \/ (pc[q] = k /\ q \in sending) THEN left[q] + 1 ELSE left[q])
    BY DEF sent
  <2>. HIDE DEF k
  <2>3. CASE q = p
    <3>1. k \in 1 .. Len(plan(program, p)) /\ k \in Nat
      BY <1>2, <1>3, <2>3 DEF k
    <3>2. sent(q, r)' = (IF pc[p] >= k THEN left[p] + 1 ELSE left[p])
      BY <1>1, <2>1, <2>3, <3>1
    <3>. QED  BY <1>1, <2>2, <2>3, <3>1, <3>2 DEF k
  <2>4. CASE q # p
    BY <1>1, <2>1, <2>2, <2>4
  <2>. QED  BY <2>3, <2>4
<1>5. received(r, q)' = (IF r = p /\ from(program, p, q) = pc[p] THEN left[p] + 1
                                                             ELSE received(r, q))
  <2>. DEFINE k == from(program, r, q)
  <2>1. received(r, q)' = (IF pc'[r] > k THEN left'[r] + 1 ELSE left'[r])
    BY <1>1 DEF received
  <2>2. received(r, q) = (IF pc[r] > k THEN left[r] + 1 ELSE left[r])
    BY DEF received
  <2>. HIDE DEF k
  <2>3. CASE r = p
    <3>1. k \in 1 .. Len(plan(program, p)) /\ k \in Nat
      BY <1>2, <1>3, <2>3 DEF k
    <3>2. received(r, q)' = (IF pc[p] >= k THEN left[p] + 1 ELSE left[p])
      BY <1>1, <2>1, <2>3, <3>1
    <3>. QED  BY <1>1, <2>2, <2>3, <3>1, <3>2 DEF k
  <2>4. CASE r # p
    BY <1>1, <2>1, <2>2, <2>4
  <2>. QED  BY <2>3, <2>4
<1>. QED  BY <1>4, <1>5

LEMMA CountTypes ==
  ASSUME TypeOK, NEW p \in Proc, NEW q \in Proc
  PROVE  sent(p, q) \in Nat /\ received(q, p) \in Nat
  BY DEF TypeOK, sent, received

LEMMA OrderlyKept ==
  ASSUME NEW p \in Proc, NEW q \in Proc, Orderly(p, q), program' = program,
         channel'[<<p, q>>] = channel[<<p, q>>],
         Talks(program, p, q) => sent(p, q)' = sent(p, q) /\ received(q, p)' = received(q, p)
  PROVE  Orderly(p, q)'
<1>1. CASE Talks(program, p, q)
  BY <1>1 DEF Orderly
<1>2. CASE ~ Talks(program, p, q)
  BY <1>2 DEF Orderly, InOrder
<1>. QED  BY <1>1, <1>2

(* A send puts the message of this episode behind those before it. *)
LEMMA PostFacts ==
  ASSUME TypeOK, CallOK, NEW p \in Proc, At(p, "send"), p \notin sending, post(p),
         NEW q \in Proc, q = ops(p)[pc[p]].peer
  PROVE  /\ channel' \in [Proc \X Proc -> Seq(Message)]
         /\ sent(p, q) = left[p]
         /\ \A a, b \in Proc : a # p \/ b # q => channel'[<<a, b>>] = channel[<<a, b>>]
         /\ (Orderly(p, q) /\ program' = program
               /\ sent(p, q)' = left[p] + 1 /\ received(q, p)' = received(q, p) => Orderly(p, q)')
<1>. DEFINE m == [tag |-> ops(p)[pc[p]].tag, ep |-> entered[p]]
            c == channel[<<p, q>>]
<1>1. /\ q \in Proc /\ Talks(program, p, q) /\ to(program, p, q) = pc[p]
  BY AtSend
<1>2. /\ left[p] \in 0 .. Episodes - 1 /\ entered[p] = left[p] + 1
      /\ ops(p) = operations(program, p, left[p])
      /\ m \in Message
  BY AtPlace, EpisodesAssumption DEF At, Operation, Message
<1>3. /\ channel' = [channel EXCEPT ![<<p, q>>] = Append(channel[<<p, q>>], m)]
      /\ channel \in [Proc \X Proc -> Seq(Message)]
      /\ c \in Seq(Message)
      /\ pc[p] \in Nat
  BY <1>1 DEF post, TypeOK
<1>4. channel' \in [Proc \X Proc -> Seq(Message)]
  <2>1. Append(c, m) \in Seq(Message)
    BY <1>2, <1>3
  <2>. HIDE DEF m
  <2>. QED  BY <1>3, <2>1
<1>5. sent(p, q) = left[p]
  BY <1>1, <1>3 DEF sent
<1>6. ASSUME NEW a \in Proc, NEW b \in Proc, a # p \/ b # q
      PROVE  channel'[<<a, b>>] = channel[<<a, b>>]
  <2>1. <<a, b>> # <<p, q>>
    BY <1>6
  <2>. HIDE DEF m
  <2>. QED  BY <1>3, <2>1
<1>7. ASSUME Orderly(p, q), program' = program,
             sent(p, q)' = left[p] + 1, received(q, p)' = received(q, p)
      PROVE  Orderly(p, q)'
  <2>. DEFINE r == received(q, p)
              k == to(program, p, q)
              d == Append(c, m)
  <2>1. channel'[<<p, q>>] = d
    <3>. HIDE DEF m
    <3>. QED  BY <1>3
  <2>2. /\ r <= left[p] /\ Len(c) = left[p] - r /\ r \in Nat
        /\ \A i \in 1 .. Len(c) :
             /\ c[i].ep = r + i
             /\ c[i].tag = operations(program, p, r + i - 1)[k].tag
    BY <1>1, <1>5, <1>7, CountTypes DEF Orderly, InOrder
  <2>3. /\ Len(d) = Len(c) + 1 /\ \A i \in 1 .. Len(c) : d[i] = c[i]
        /\ d[Len(c) + 1] = m /\ Len(c) \in Nat
    BY <1>2, <1>3
  <2>4. m.ep = left[p] + 1 /\ m.tag = operations(program, p, left[p])[k].tag
    BY <1>1, <1>2
  <2>. HIDE DEF r, d, c, m, k
  <2>5. /\ r <= left[p] + 1 /\ Len(d) = left[p] + 1 - r
        /\ \A i \in 1 .. Len(d) :
             /\ d[i].ep = r + i
             /\ d[i].tag = operations(program, p, r + i - 1)[k].tag
    <3>1. r <= left[p] + 1 /\ Len(d) = left[p] + 1 - r /\ left[p] \in Nat
      BY <1>2, <2>2, <2>3
    <3>2. ASSUME NEW i \in 1 .. Len(d), i # Len(c) + 1
          PROVE  /\ d[i].ep = r + i
                 /\ d[i].tag = operations(program, p, r + i - 1)[k].tag
      <4>1. i \in 1 .. Len(c)
        BY <2>3, <3>2
      <4>. QED  BY <2>2, <2>3, <4>1
    <3>3. r + (Len(c) + 1) - 1 = left[p] /\ r + (Len(c) + 1) = left[p] + 1
      BY <2>2, <2>3, <3>1
    <3>4. /\ d[Len(c) + 1].ep = r + (Len(c) + 1)
          /\ d[Len(c) + 1].tag = operations(program, p, r + (Len(c) + 1) - 1)[k].tag
      BY <2>3, <2>4, <3>3
    <3>. QED  BY <3>1, <3>2, <3>4
  <2>6. InOrder(program, p, q, d, r, left[p] + 1)
    BY <1>1, <1>2, <2>2, <2>5 DEF InOrder, k
  <2>. QED  BY <1>7, <2>1, <2>6 DEF Orderly, r
<1>. QED  BY <1>4, <1>5, <1>6, <1>7

LEMMA ChannelType ==
  ASSUME TypeOK, NEW p \in Proc, NEW q \in Proc
  PROVE  LET c == channel[<<p, q>>] IN
         c \in Seq(Message) /\ Len(c) \in Nat /\ DOMAIN c = 1 .. Len(c)
  BY DEF TypeOK

(* A process that receives takes the first message of the channel, that of *)
(* its own episode: none before it has its tag.                            *)
LEMMA MatchingFacts ==
  ASSUME TypeOK, CallOK, ChannelOK, NEW p \in Proc, At(p, "recv"),
         NEW q \in Proc, q = ops(p)[pc[p]].peer, NEW i \in Matching(p)
  PROVE  /\ i = 1 /\ Len(channel[<<q, p>>]) > 0
         /\ channel[<<q, p>>][1].ep = entered[p]
         /\ received(p, q) = left[p] /\ left[p] < sent(q, p)
<1>. DEFINE c == channel[<<q, p>>]
            k == from(program, p, q)
<1>1. /\ Talks(program, q, p) /\ k = pc[p] /\ program \in Program
  BY AtReceive DEF TypeOK
<1>2. /\ left[p] \in 0 .. Episodes - 1 /\ entered[p] = left[p] + 1
      /\ left[p] \in 0 .. Episodes
      /\ ops(p) = operations(program, p, left[p]) /\ pc[p] \in Nat
  BY AtPlace, EpisodesAssumption DEF At, TypeOK
<1>3. received(p, q) = left[p]
  BY <1>1, <1>2 DEF received
<1>4. /\ c \in Seq(Message) /\ Len(c) \in Nat /\ DOMAIN c = 1 .. Len(c)
  BY ChannelType
<1>5. /\ i \in 1 .. Len(c) /\ \A j \in 1 .. i - 1 : c[j].tag # ops(p)[pc[p]].tag
  BY <1>4 DEF Matching
<1>6. InOrder(program, q, p, c, left[p], sent(q, p))
  BY <1>3 DEF ChannelOK, Orderly
<1>7. /\ Len(c) = sent(q, p) - left[p]
      /\ c[1].ep = left[p] + 1
      /\ c[1].tag = operations(program, q, left[p])[to(program, q, p)].tag
  <2>1. 1 \in 1 .. Len(c)
    BY <1>4, <1>5
  <2>2. left[p] + 1 - 1 = left[p]
    BY <1>2
  <2>. HIDE DEF c
  <2>. QED  BY <1>1, <1>6, <2>1, <2>2 DEF InOrder
<1>8. c[1].tag = ops(p)[pc[p]].tag
  BY <1>1, <1>2, <1>7, SameTag
<1>9. sent(q, p) \in Nat
  BY CountTypes
<1>. HIDE DEF c
<1>a. i = 1 /\ Len(c) > 0
  BY <1>4, <1>5, <1>8
<1>. QED  BY <1>2, <1>3, <1>7, <1>9, <1>a, <1>4 DEF c

LEMMA RemoveFirstFacts ==
  ASSUME NEW S, NEW c \in Seq(S), Len(c) > 0
  PROVE  /\ RemoveAt(c, 1) \in Seq(S)
         /\ Len(RemoveAt(c, 1)) = Len(c) - 1
         /\ \A i \in 1 .. Len(c) - 1 : RemoveAt(c, 1)[i] = c[i + 1]
<1>. DEFINE d == SubSeq(c, 2, Len(c))
<1>1. /\ Len(c) \in Nat /\ d \in Seq(S) /\ Len(d) = Len(c) - 1
      /\ \A i \in 1 .. Len(c) - 1 : d[i] = c[i + 1]
  <2>0. Len(c) \in Nat
    OBVIOUS
  <2>1. 2 \in Int /\ Len(c) \in Int /\ \A i \in 2 .. Len(c) : c[i] \in S
    OBVIOUS
  <2>2. /\ d \in Seq(S)
        /\ Len(d) = IF 2 <= Len(c) THEN Len(c) - 2 + 1 ELSE 0
        /\ \A i \in 1 .. Len(c) - 2 + 1 : d[i] = c[2 + i - 1]
    BY <2>1, SubSeqProperties
  <2>3. Len(d) = Len(c) - 1
    <3>1. Len(d) = IF 2 <= Len(c) THEN Len(c) - 2 + 1 ELSE 0
      BY <2>2
    <3>. HIDE DEF d
    <3>2. \A n \in Nat : n > 0 => (IF 2 <= n THEN n - 2 + 1 ELSE 0) = n - 1
      OBVIOUS
    <3>. QED  BY Zenon, <2>0, <3>1, <3>2
  <2>4. ASSUME NEW i \in 1 .. Len(c) - 1 PROVE d[i] = c[i + 1]
    <3>1. i \in 1 .. Len(c) - 2 + 1 /\ 2 + i - 1 = i + 1
      BY <2>0
    <3>. QED  BY <2>2, <3>1
  <2>. QED  BY <2>0, <2>2, <2>3, <2>4
<1>2. SubSeq(c, 1, 1 - 1) = << >>
  OBVIOUS
<1>3. RemoveAt(c, 1) = << >> \o d
  BY <1>2 DEF RemoveAt
<1>4. << >> \o d = d
  BY <1>1
<1>. QED  BY <1>1, <1>3, <1>4

LEMMA TakeFacts ==
  ASSUME TypeOK, CallOK, ChannelOK, NEW p \in Proc, At(p, "recv"),
         NEW q \in Proc, q = ops(p)[pc[p]].peer, NEW i \in Matching(p),
         channel' = [channel EXCEPT ![<<q, p>>] = RemoveAt(@, i)]
  PROVE  /\ channel' \in [Proc \X Proc -> Seq(Message)]
         /\ \A a, b \in Proc : a # q \/ b # p => channel'[<<a, b>>] = channel[<<a, b>>]
         /\ (program' = program /\ sent(q, p)' = sent(q, p) /\ received(p, q)' = left[p] + 1
               => Orderly(q, p)')
<1>. DEFINE c == channel[<<q, p>>]
            d == RemoveAt(c, 1)
            s == sent(q, p)
<1>1. /\ i = 1 /\ Len(c) > 0 /\ received(p, q) = left[p] /\ left[p] < s
  BY MatchingFacts
<1>2. /\ channel \in [Proc \X Proc -> Seq(Message)]
      /\ c \in Seq(Message) /\ Len(c) \in Nat
      /\ left[p] \in Nat /\ s \in Nat
  <2>1. c \in Seq(Message) /\ Len(c) \in Nat /\ s \in Nat
    BY CountTypes, ChannelType
  <2>2. channel \in [Proc \X Proc -> Seq(Message)] /\ left[p] \in Nat
    BY DEF TypeOK
  <2>. QED  BY <2>1, <2>2
<1>3. /\ d \in Seq(Message)
      /\ Len(d) = Len(c) - 1 /\ \A j \in 1 .. Len(c) - 1 : d[j] = c[j + 1]
  BY <1>1, <1>2, RemoveFirstFacts
<1>4. channel' = [channel EXCEPT ![<<q, p>>] = d]
  BY <1>1
<1>. HIDE DEF d
<1>5. channel' \in [Proc \X Proc -> Seq(Message)]
  BY <1>2, <1>3, <1>4
<1>6. ASSUME NEW a \in Proc, NEW b \in Proc, a # q \/ b # p
      PROVE  channel'[<<a, b>>] = channel[<<a, b>>]
  <2>1. <<a, b>> # <<q, p>>
    BY <1>6
  <2>. QED  BY <1>2, <1>4, <2>1
<1>7. ASSUME program' = program, sent(q, p)' = s, received(p, q)' = left[p] + 1
      PROVE  Orderly(q, p)'
  <2>. DEFINE k == to(program, q, p)
  <2>1. channel'[<<q, p>>] = d
    BY <1>2, <1>4
  <2>2. Talks(program, q, p)
    BY AtReceive
  <2>3. /\ Len(c) = s - left[p]
        /\ \A j \in 1 .. Len(c) :
             /\ c[j].ep = left[p] + j
             /\ c[j].tag = operations(program, q, left[p] + j - 1)[k].tag
    BY <1>1, <2>2 DEF ChannelOK, Orderly, InOrder
  <2>. HIDE DEF c, s, k
  <2>4. /\ left[p] + 1 <= s /\ Len(d) = s - (left[p] + 1)
    BY <1>1, <1>2, <1>3, <2>3
  <2>5. ASSUME NEW j \in 1 .. Len(d)
        PROVE  /\ d[j].ep = (left[p] + 1) + j
               /\ d[j].tag = operations(program, q, (left[p] + 1) + j - 1)[k].tag
    <3>1. PICK n \in 1 .. Len(c) : n = j + 1 /\ d[j] = c[n]
      BY <1>2, <1>3
    <3>2. /\ left[p] + n = (left[p] + 1) + j
          /\ left[p] + n - 1 = (left[p] + 1) + j - 1
      <4>1. left[p] \in Nat /\ j \in Nat /\ n = j + 1
        BY <1>2, <1>3, <3>1
      <4>. QED  BY <4>1
    <3>3. /\ c[n].ep = left[p] + n
          /\ c[n].tag = operations(program, q, left[p] + n - 1)[k].tag
      BY <2>3
    <3>. QED  BY <3>1, <3>2, <3>3
  <2>6. InOrder(program, q, p, d, left[p] + 1, s)
    BY <2>2, <2>4, <2>5 DEF InOrder, k
  <2>. QED  BY <1>7, <2>1, <2>6 DEF Orderly
<1>. QED  BY <1>5, <1>6, <1>7

LEMMA InitInv == Init => IInv
<1>. SUFFICES ASSUME Init PROVE IInv
  OBVIOUS
<1>1. /\ program \in Program /\ sending = {}
      /\ \A p \in Proc : pc[p] = 0 /\ left[p] = 0 /\ entered[p] = 0 /\ cur_bar[p] = 0
      /\ \A p, q \in Proc : channel[<<p, q>>] = << >>
  BY DEF Init
<1>2. \A p \in Proc : ops(p) \in Seq(Operation)
  BY <1>1, ListShape, EpisodesAssumption DEF ops
<1>3. TypeOK
  <2>1. \A p \in Proc : Len(ops(p)) \in Nat
    BY <1>2
  <2>2. << >> \in Seq(Message)
    OBVIOUS
  <2>. QED  BY <1>1, <2>1, <2>2, EpisodesAssumption DEF Init, TypeOK
<1>4. CallOK /\ KnownOK /\ BarrierSafety
  BY <1>1 DEF CallOK, KnownOK, BarrierSafety
<1>5. ASSUME NEW p \in Proc, NEW q \in Proc PROVE Orderly(p, q)
  <2>1. CASE Talks(program, p, q)
    <3>1. sent(p, q) = 0 /\ received(q, p) = 0
      <4>1. /\ to(program, p, q) \in 1 .. Len(plan(program, p))
            /\ from(program, q, p) \in 1 .. Len(plan(program, q))
        BY <1>1, <2>1, ToPlace, FromPlace
      <4>. QED  BY <1>1, <4>1 DEF sent, received
    <3>. QED  BY <1>1, <2>1, <3>1 DEF Orderly, InOrder
  <2>2. CASE ~ Talks(program, p, q)
    BY <1>1, <2>2 DEF Orderly, InOrder
  <2>. QED  BY <2>1, <2>2
<1>. QED  BY <1>3, <1>4, <1>5 DEF IInv, ChannelOK

(* An operation that p finishes: what is left to show is what it does to   *)
(* the channels.                                                           *)
LEMMA GoOnInv ==
  ASSUME IInv, NEW p \in Proc, pc[p] # 0, goon(p),
         UNCHANGED <<program, buffered, entered>>, sending' = sending \ {p},
         channel' \in [Proc \X Proc -> Seq(Message)],
         \A x \in Known(program, p, pc[p] + 1) : entered[p] <= entered[x],
         \A q, r \in Proc : Orderly(q, r)'
  PROVE  IInv'
<1>. USE DEF IInv
<1>1. TypeOK'
  BY GoOnFacts DEF TypeOK
<1>2. CallOK'
  <2>1. \A q \in Proc : q \in sending' => At(q, "send")' /\ ~ buffered'
    BY GoOnFacts DEF CallOK, At
  <2>. QED  BY <2>1, GoOnFacts DEF CallOK
<1>3. KnownOK' /\ BarrierSafety'
  BY GoOnKnown
<1>. QED  BY <1>1, <1>2, <1>3 DEF ChannelOK

LEMMA KnownAfter ==
  ASSUME IInv, NEW p \in Proc, pc[p] # 0, plan(program, p)[pc[p]].do # "recv"
  PROVE  \A x \in Known(program, p, pc[p] + 1) : entered[p] <= entered[x]
<1>1. program \in Program /\ pc[p] \in 1 .. Len(plan(program, p))
  BY AtPlace DEF IInv, TypeOK
<1>2. Known(program, p, pc[p] + 1) \subseteq Known(program, p, pc[p])
  BY <1>1, KnownKept
<1>. QED  BY <1>2 DEF IInv, KnownOK

LEMMA CallStep ==
  ASSUME IInv, NEW p \in Proc, Call(p)
  PROVE  IInv'
<1>. USE DEF IInv
<1>1. /\ pc[p] = 0 /\ pc' = [pc EXCEPT ![p] = 1]
      /\ entered' = [entered EXCEPT ![p] = entered[p] + 1]
      /\ entered[p] = left[p] /\ entered[p] < Episodes
      /\ UNCHANGED <<program, buffered, channel, sending, cur_bar, left>>
      /\ \A q \in Proc : ops(q)' = ops(q)
      /\ program \in Program
  BY DEF Call, CallOK, TypeOK, ops
<1>2. /\ pc \in [Proc -> Nat] /\ entered \in [Proc -> 0 .. Episodes]
      /\ left \in [Proc -> 0 .. Episodes] /\ Episodes \in Nat
  BY EpisodesAssumption DEF TypeOK
<1>3. /\ entered[p] + 1 \in 0 .. Episodes
      /\ \A x \in Proc : entered[x] <= entered'[x]
  BY <1>1, <1>2
<1>4. TypeOK'
  <2>1. Len(ops(p)) >= 1
    BY <1>1, <1>2, ListShape DEF ops, CallOK
  <2>. QED  BY <1>1, <1>2, <1>3, <2>1 DEF TypeOK
<1>5. CallOK'
  <2>1. p \notin sending
    BY <1>1 DEF CallOK, At
  <2>. QED  BY <1>1, <1>2, <2>1 DEF CallOK, At
<1>6. BarrierSafety'
  <2>. SUFFICES ASSUME NEW q \in Proc, NEW x \in Proc PROVE left[q] <= entered'[x]
    BY <1>1 DEF BarrierSafety
  <2>1. left[q] <= entered[x] /\ entered[x] <= entered'[x]
    BY <1>3 DEF BarrierSafety
  <2>2. left[q] \in Int /\ entered[x] \in Int /\ entered'[x] \in Int
    BY <1>1, <1>2
  <2>. QED  BY <2>1, <2>2
<1>7. KnownOK'
  <2>. SUFFICES ASSUME NEW q \in Proc, pc'[q] # 0, NEW x \in Known(program, q, pc'[q])
                PROVE  entered'[q] <= entered'[x]
    BY <1>1 DEF KnownOK
  <2>1. CASE q = p
    <3>1. x = p
      BY <1>1, <1>2, <2>1, KnownEnds
    <3>. QED  BY <1>1, <1>2, <2>1, <3>1
  <2>2. CASE q # p
    <3>1. /\ pc[q] = pc'[q] /\ pc[q] # 0 /\ entered'[q] = entered[q]
      BY <1>1, <1>2, <2>2
    <3>2. pc[q] \in 1 .. Len(plan(program, q)) /\ Len(plan(program, q)) \in Nat
      BY <3>1, AtPlace
    <3>3. x \in Proc
      BY <1>1, <3>1, <3>2, KnownGrows
    <3>4. entered[q] <= entered[x]
      BY <3>1 DEF KnownOK
    <3>5. entered[q] \in Int /\ entered[x] \in Int /\ entered'[x] \in Int
      BY <1>1, <1>2, <3>3
    <3>. QED  BY <1>3, <3>1, <3>3, <3>4, <3>5
  <2>. QED  BY <2>1, <2>2
<1>8. ASSUME NEW q \in Proc, NEW r \in Proc PROVE Orderly(q, r)'
  <2>1. Orderly(q, r)
    BY DEF ChannelOK
  <2>2. ASSUME Talks(program, q, r)
        PROVE  sent(q, r)' = sent(q, r) /\ received(r, q)' = received(r, q)
    <3>1. /\ to(program, q, r) \in 1 .. Len(plan(program, q))
          /\ from(program, r, q) \in 1 .. Len(plan(program, r))
      BY <1>1, <2>2, ToPlace, FromPlace
    <3>2. p \notin sending
      BY <1>1 DEF CallOK, At
    <3>. QED  BY <1>1, <1>2, <3>1, <3>2 DEF sent, received
  <2>. QED  BY <1>1, <2>1, <2>2, OrderlyKept
<1>. QED  BY <1>4, <1>5, <1>6, <1>7, <1>8 DEF ChannelOK

LEMMA SendBufferedStep ==
  ASSUME IInv, NEW p \in Proc, SendBuffered(p)
  PROVE  IInv'
<1>. USE DEF IInv
<1>1. PICK q \in Proc : q = ops(p)[pc[p]].peer
  BY AtSend DEF SendBuffered
<1>2. /\ At(p, "send") /\ buffered /\ post(p) /\ goon(p) /\ pc[p] # 0
      /\ UNCHANGED <<program, buffered, sending, entered>>
  BY DEF SendBuffered, At
<1>3. p \notin sending
  BY <1>2 DEF CallOK
<1>4. sending' = sending \ {p}
  BY <1>2, <1>3
<1>5. /\ channel' \in [Proc \X Proc -> Seq(Message)]
      /\ sent(p, q) = left[p]
      /\ \A a, b \in Proc : a # p \/ b # q => channel'[<<a, b>>] = channel[<<a, b>>]
      /\ (Orderly(p, q) /\ program' = program
            /\ sent(p, q)' = left[p] + 1 /\ received(q, p)' = received(q, p) => Orderly(p, q)')
  BY <1>1, <1>2, <1>3, PostFacts
<1>6. /\ Talks(program, p, q) /\ to(program, p, q) = pc[p]
      /\ \A r \in Proc : Talks(program, p, r) /\ to(program, p, r) = pc[p] => r = q
      /\ \A r \in Proc : Talks(program, r, p) => from(program, p, r) # pc[p]
  BY <1>1, <1>2, AtSend
<1>7. ASSUME NEW a \in Proc, NEW b \in Proc PROVE Orderly(a, b)'
  <2>1. Orderly(a, b)
    BY DEF ChannelOK
  <2>2. ASSUME Talks(program, a, b)
        PROVE  /\ sent(a, b)' = (IF a = p /\ b = q THEN left[p] + 1 ELSE sent(a, b))
               /\ received(b, a)' = received(b, a)
    BY <1>2, <1>4, <1>6, <2>2, GoOnCounts
  <2>3. CASE a = p /\ b = q
    BY <1>2, <1>5, <1>6, <2>1, <2>2, <2>3
  <2>4. CASE ~ (a = p /\ b = q)
    BY <1>2, <1>5, <2>1, <2>2, <2>4, OrderlyKept
  <2>. QED  BY <2>3, <2>4
<1>8. \A x \in Known(program, p, pc[p] + 1) : entered[p] <= entered[x]
  <2>1. plan(program, p)[pc[p]].do # "recv"
    BY <1>2, AtPlace DEF At
  <2>. QED  BY <1>2, <2>1, KnownAfter
<1>. QED  BY <1>2, <1>4, <1>5, <1>7, <1>8, GoOnInv

LEMMA SendBeginStep ==
  ASSUME IInv, NEW p \in Proc, SendBegin(p)
  PROVE  IInv'
<1>. USE DEF IInv
<1>1. PICK q \in Proc : q = ops(p)[pc[p]].peer
  BY AtSend DEF SendBegin
<1>2. /\ At(p, "send") /\ ~ buffered /\ p \notin sending /\ post(p)
      /\ sending' = sending \cup {p}
      /\ UNCHANGED <<program, buffered, pc, cur_bar, entered, left>>
      /\ \A r \in Proc : ops(r)' = ops(r)
  BY DEF SendBegin, ops
<1>3. /\ channel' \in [Proc \X Proc -> Seq(Message)]
      /\ sent(p, q) = left[p]
      /\ \A a, b \in Proc : a # p \/ b # q => channel'[<<a, b>>] = channel[<<a, b>>]
      /\ (Orderly(p, q) /\ program' = program
            /\ sent(p, q)' = left[p] + 1 /\ received(q, p)' = received(q, p) => Orderly(p, q)')
  BY <1>1, <1>2, PostFacts
<1>4. /\ Talks(program, p, q) /\ to(program, p, q) = pc[p]
      /\ \A r \in Proc : Talks(program, p, r) /\ to(program, p, r) = pc[p] => r = q
  BY <1>1, <1>2, AtSend
<1>5. ASSUME NEW a \in Proc, NEW b \in Proc PROVE Orderly(a, b)'
  <2>1. Orderly(a, b)
    BY DEF ChannelOK
  <2>2. received(b, a)' = received(b, a)
    BY <1>2 DEF received
  <2>3. CASE a = p /\ b = q
    <3>1. sent(p, q)' = left[p] + 1
      BY <1>2, <1>4 DEF sent
    <3>. QED  BY <1>2, <1>3, <2>1, <2>2, <2>3, <3>1
  <2>4. CASE ~ (a = p /\ b = q)
    <3>1. Talks(program, a, b) => sent(a, b)' = sent(a, b)
      BY <1>2, <1>4, <2>4 DEF sent
    <3>. QED  BY <1>2, <1>3, <2>1, <2>2, <2>4, <3>1, OrderlyKept
  <2>. QED  BY <2>3, <2>4
<1>6. TypeOK'
  BY <1>2, <1>3 DEF TypeOK
<1>7. CallOK' /\ KnownOK' /\ BarrierSafety'
  BY <1>2 DEF CallOK, KnownOK, BarrierSafety, At
<1>. QED  BY <1>5, <1>6, <1>7 DEF ChannelOK

LEMMA SendEndStep ==
  ASSUME IInv, NEW p \in Proc, SendEnd(p)
  PROVE  IInv'
<1>. USE DEF IInv
<1>1. /\ p \in sending /\ At(p, "send") /\ goon(p) /\ pc[p] # 0 /\ sending' = sending \ {p}
      /\ UNCHANGED <<program, buffered, channel, entered>>
  BY DEF SendEnd, CallOK, At
<1>2. PICK q \in Proc : q = ops(p)[pc[p]].peer
  BY <1>1, AtSend
<1>3. /\ Talks(program, p, q) /\ to(program, p, q) = pc[p]
      /\ \A r \in Proc : Talks(program, p, r) /\ to(program, p, r) = pc[p] => r = q
      /\ \A r \in Proc : Talks(program, r, p) => from(program, p, r) # pc[p]
  BY <1>1, <1>2, AtSend
<1>4. sent(p, q) = left[p] + 1
  BY <1>1, <1>3 DEF sent
<1>5. ASSUME NEW a \in Proc, NEW b \in Proc PROVE Orderly(a, b)'
  <2>1. Orderly(a, b)
    BY DEF ChannelOK
  <2>2. ASSUME Talks(program, a, b)
        PROVE  sent(a, b)' = sent(a, b) /\ received(b, a)' = received(b, a)
    BY <1>1, <1>3, <1>4, <2>2, GoOnCounts
  <2>. QED  BY <1>1, <2>1, <2>2, OrderlyKept
<1>6. \A x \in Known(program, p, pc[p] + 1) : entered[p] <= entered[x]
  <2>1. plan(program, p)[pc[p]].do # "recv"
    BY <1>1, AtPlace DEF At
  <2>. QED  BY <1>1, <2>1, KnownAfter
<1>7. channel' \in [Proc \X Proc -> Seq(Message)]
  BY <1>1 DEF TypeOK
<1>. QED  BY <1>1, <1>5, <1>6, <1>7, GoOnInv

LEMMA PassStep ==
  ASSUME IInv, NEW p \in Proc, Pass(p)
  PROVE  IInv'
<1>. USE DEF IInv
<1>1. /\ At(p, "bye") /\ goon(p) /\ pc[p] # 0
      /\ UNCHANGED <<program, buffered, channel, sending, entered>>
  BY DEF Pass, At
<1>2. sending' = sending \ {p}
  BY <1>1 DEF CallOK, At
<1>3. ASSUME NEW a \in Proc, NEW b \in Proc PROVE Orderly(a, b)'
  <2>1. Orderly(a, b)
    BY DEF ChannelOK
  <2>2. ASSUME Talks(program, a, b)
        PROVE  sent(a, b)' = sent(a, b) /\ received(b, a)' = received(b, a)
    BY <1>1, <1>2, <2>2, AtBye, GoOnCounts
  <2>. QED  BY <1>1, <2>1, <2>2, OrderlyKept
<1>4. \A x \in Known(program, p, pc[p] + 1) : entered[p] <= entered[x]
  <2>1. plan(program, p)[pc[p]].do # "recv"
    BY <1>1, AtPlace DEF At
  <2>. QED  BY <1>1, <2>1, KnownAfter
<1>5. channel' \in [Proc \X Proc -> Seq(Message)]
  BY <1>1 DEF TypeOK
<1>. QED  BY <1>1, <1>2, <1>3, <1>4, <1>5, GoOnInv

(* The message tells p what its sender knew when it sent it; if the sender *)
(* has left the episode since, everybody has entered it.                   *)
LEMMA ReceiveKnown ==
  ASSUME IInv, NEW p \in Proc, At(p, "recv"), NEW q \in Proc, q = ops(p)[pc[p]].peer,
         left[p] < sent(q, p)
  PROVE  \A x \in Known(program, p, pc[p] + 1) : entered[p] <= entered[x]
<1>. USE DEF IInv
<1>. DEFINE k == to(program, q, p)
<1>1. /\ Talks(program, q, p) /\ Receives(program, p, q, pc[p])
      /\ pc[p] \in Nat /\ program \in Program /\ pc[p] # 0
      /\ pc[p] \in 1 .. Len(plan(program, p)) /\ Len(plan(program, p)) \in Nat
  BY AtReceive, AtPlace DEF TypeOK, At
<1>2. entered[p] = left[p] + 1
  BY AtPlace, <1>1
<1>3. /\ k \in 1 .. Len(plan(program, q)) /\ k \in Nat
  BY <1>1, ToPlace
<1>4. /\ \A x \in Proc : entered[x] \in Nat /\ left[x] \in Nat /\ pc[x] \in Nat
  BY DEF TypeOK
<1>5. Known(program, p, pc[p] + 1) \subseteq Known(program, p, pc[p]) \cup Known(program, q, k)
  BY <1>1, KnownReceived
<1>6. ASSUME NEW x \in Known(program, p, pc[p]) PROVE entered[p] <= entered[x]
  BY <1>1 DEF KnownOK
<1>7. ASSUME NEW x \in Known(program, q, k) PROVE entered[p] <= entered[x]
  <2>. HIDE DEF k
  <2>1. x \in Proc
    BY <1>1, <1>3, KnownGrows
  <2>2. CASE left[q] >= entered[p]
    <3>1. left[q] <= entered[x]
      BY <2>1 DEF BarrierSafety
    <3>. QED  BY <1>4, <2>1, <2>2, <3>1
  <2>3. CASE ~ (left[q] >= entered[p])
    <3>1. /\ pc[q] >= k /\ left[q] = left[p]
      <4>1. left[p] < (IF pc[q] > k \/ (pc[q] = k /\ q \in sending)
                         THEN left[q] + 1 ELSE left[q])
        BY DEF sent, k
      <4>2. left[q] < left[p] + 1
        BY <1>2, <1>4, <2>3
      <4>. QED  BY <1>3, <1>4, <4>1, <4>2
    <3>2. /\ pc[q] # 0 /\ pc[q] \in 1 .. Len(plan(program, q)) /\ Len(plan(program, q)) \in Nat
          /\ entered[q] = left[q] + 1
      BY <1>3, <1>4, <3>1, AtPlace
    <3>3. x \in Known(program, q, pc[q])
      BY <1>1, <1>3, <3>1, <3>2, KnownGrows
    <3>4. entered[q] <= entered[x]
      BY <3>2, <3>3 DEF KnownOK
    <3>. QED  BY <1>2, <1>4, <2>1, <3>1, <3>2, <3>4
  <2>. QED  BY <2>2, <2>3
<1>. QED  BY <1>5, <1>6, <1>7

LEMMA ReceiveStep ==
  ASSUME IInv, NEW p \in Proc, Receive(p)
  PROVE  IInv'
<1>. USE DEF IInv
<1>1. /\ At(p, "recv") /\ goon(p) /\ pc[p] # 0
      /\ UNCHANGED <<program, buffered, sending, entered>>
  BY DEF Receive, At
<1>2. PICK q \in Proc : q = ops(p)[pc[p]].peer
  BY <1>1, AtReceive
<1>3. PICK i \in Matching(p) : channel' = [channel EXCEPT ![<<q, p>>] = RemoveAt(@, i)]
  BY <1>2 DEF Receive
<1>4. /\ Talks(program, q, p) /\ from(program, p, q) = pc[p]
      /\ \A r \in Proc : Talks(program, r, p) /\ from(program, p, r) = pc[p] => r = q
      /\ \A r \in Proc : Talks(program, p, r) => to(program, p, r) # pc[p]
  BY <1>1, <1>2, AtReceive
<1>5. /\ channel' \in [Proc \X Proc -> Seq(Message)]
      /\ \A a, b \in Proc : a # q \/ b # p => channel'[<<a, b>>] = channel[<<a, b>>]
      /\ (program' = program /\ sent(q, p)' = sent(q, p) /\ received(p, q)' = left[p] + 1
            => Orderly(q, p)')
  BY <1>1, <1>2, <1>3, TakeFacts
<1>6. left[p] < sent(q, p)
  BY <1>1, <1>2, <1>3, MatchingFacts
<1>7. sending' = sending \ {p}
  BY <1>1 DEF CallOK, At
<1>8. ASSUME NEW a \in Proc, NEW b \in Proc PROVE Orderly(a, b)'
  <2>1. Orderly(a, b)
    BY DEF ChannelOK
  <2>2. ASSUME Talks(program, a, b)
        PROVE  /\ sent(a, b)' = sent(a, b)
               /\ received(b, a)' = (IF a = q /\ b = p THEN left[p] + 1 ELSE received(b, a))
    BY <1>1, <1>4, <1>7, <2>2, GoOnCounts
  <2>3. CASE a = q /\ b = p
    BY <1>1, <1>4, <1>5, <2>2, <2>3
  <2>4. CASE ~ (a = q /\ b = p)
    BY <1>1, <1>5, <2>1, <2>2, <2>4, OrderlyKept
  <2>. QED  BY <2>3, <2>4
<1>9. \A x \in Known(program, p, pc[p] + 1) : entered[p] <= entered[x]
  BY <1>1, <1>2, <1>6, ReceiveKnown
<1>. QED  BY <1>1, <1>5, <1>7, <1>8, <1>9, GoOnInv

LEMMA NextInv == IInv /\ [Next]_vars => IInv'
<1>. SUFFICES ASSUME IInv, [Next]_vars PROVE IInv'
  OBVIOUS
<1>1. CASE UNCHANGED vars
  BY <1>1 DEF IInv, TypeOK, CallOK, ChannelOK, Orderly, sent, received, KnownOK, BarrierSafety,
              At, ops, vars
<1>2. ASSUME NEW p \in Proc, Call(p) \/ Step(p) PROVE IInv'
  BY <1>2, CallStep, SendBufferedStep, SendBeginStep, SendEndStep, ReceiveStep, PassStep
     DEF Step
<1>. QED  BY <1>1, <1>2 DEF Next

LEMMA Invariance == Spec => []IInv
<1>1. Init => IInv
  BY InitInv
<1>2. IInv /\ [Next]_vars => IInv'
  BY NextInv
<1>. QED  BY <1>1, <1>2, PTL DEF Spec

-----------------------------------------------------------------------------
(* What follows from the invariant. *)

(* Types, for any number of processes, any number of calls and each of the *)
(* three programs; a process never goes past the end of its list.          *)
THEOREM TypeCorrectness == Spec => []TypeOK
<1>1. IInv => TypeOK
  BY DEF IInv
<1>. QED  BY <1>1, Invariance, PTL

(* Nobody leaves an episode before everybody has entered it. *)
THEOREM Safety == Spec => []BarrierSafety
<1>1. IInv => BarrierSafety
  BY DEF IInv
<1>. QED  BY <1>1, Invariance, PTL

LEMMA MatchInv == IInv => MessagesMatch
<1>. SUFFICES ASSUME IInv, NEW p \in Proc, NEW q \in Proc
              PROVE  /\ \A i \in DOMAIN channel[<<p, q>>] :
                          channel[<<p, q>>][i].ep \in left[q] + 1 .. left[q] + 2
                     /\ At(q, "recv") /\ ops(q)[pc[q]].peer = p
                          => \A i \in Matching(q) : channel[<<p, q>>][i].ep = entered[q]
  BY DEF MessagesMatch
<1>. USE DEF IInv
<1>. DEFINE c == channel[<<p, q>>]
<1>1. c \in Seq(Message) /\ Len(c) \in Nat /\ DOMAIN c = 1 .. Len(c)
  BY ChannelType
<1>2. ASSUME NEW i \in 1 .. Len(c) PROVE c[i].ep \in left[q] + 1 .. left[q] + 2
  <2>. DEFINE r == received(q, p)
              s == sent(p, q)
  <2>1. InOrder(program, p, q, c, r, s)
    BY DEF ChannelOK, Orderly
  <2>2. /\ r \in Nat /\ s \in Nat /\ left[p] \in Nat /\ left[q] \in Nat
        /\ left[q] <= r /\ s <= left[p] + 1
        /\ entered[q] \in Nat /\ entered[q] <= left[q] + 1
    <3>1. /\ left[p] \in Nat /\ left[q] \in Nat /\ entered[q] \in Nat
      BY DEF TypeOK
    <3>2. left[q] <= r
      BY <3>1 DEF received
    <3>3. s <= left[p] + 1
      BY <3>1 DEF sent
    <3>4. entered[q] <= left[q] + 1
      BY <3>1 DEF CallOK
    <3>. QED  BY <3>1, <3>2, <3>3, <3>4, CountTypes
  <2>3. left[p] <= entered[q]
    BY DEF BarrierSafety
  <2>. HIDE DEF r, s, c
  <2>4. Talks(program, p, q)
    <3>1. c # << >>
      BY <1>1, <1>2
    <3>. QED  BY <2>1, <3>1 DEF InOrder
  <2>5. c[i].ep = r + i /\ Len(c) = s - r
    BY <2>1, <2>4 DEF InOrder
  <2>6. i \in Nat /\ 1 <= i /\ i <= s - r /\ c[i].ep = r + i
    BY <1>1, <2>2, <2>5
  <2>7. left[q] + 1 <= r + i
    BY <2>2, <2>6
  <2>8. r + i <= s
    BY <2>2, <2>6
  <2>9. s <= left[q] + 2
    BY <2>2, <2>3
  <2>10. r + i \in left[q] + 1 .. left[q] + 2
    BY <2>2, <2>6, <2>7, <2>8, <2>9
  <2>. QED  BY Zenon, <2>6, <2>10
<1>3. ASSUME At(q, "recv"), ops(q)[pc[q]].peer = p, NEW i \in Matching(q)
      PROVE  c[i].ep = entered[q]
  BY <1>3, MatchingFacts
<1>. QED  BY <1>1, <1>2, <1>3

(* A message is received in the episode in which it was sent, although     *)
(* counter and tournament use one tag for all: the messages between two    *)
(* processes are those of successive episodes, in order.                   *)
THEOREM MessagesInEpisode == Spec => []MessagesMatch
  BY Invariance, MatchInv, PTL

(* Every step of the three programs is a step of the abstract barrier or   *)
(* leaves it unchanged: a return is a Leave, which the episode permits.    *)
THEOREM Refinement == Spec => ImplementsBarrier
<1>1. Init => Abstract!BInit
  BY DEF Init, Abstract!BInit
<1>2. IInv /\ IInv' /\ [Next]_vars => [Abstract!BNext]_(Abstract!bvars)
  <2>. SUFFICES ASSUME IInv, IInv', [Next]_vars
                PROVE  [Abstract!BNext]_(Abstract!bvars)
    OBVIOUS
  <2>. USE DEF Abstract!bvars, Abstract!BNext
  <2>1. CASE UNCHANGED vars
    BY <2>1 DEF vars
  <2>2. ASSUME NEW p \in Proc, Call(p) PROVE Abstract!Enter(p)
    BY <2>2 DEF Call, Abstract!Enter, IInv, CallOK
  <2>3. ASSUME NEW p \in Proc, Step(p)
        PROVE  Abstract!Leave(p) \/ UNCHANGED <<entered, left>>
    <3>1. CASE left' = left
      BY <2>3, <3>1 DEF Step, SendBuffered, SendBegin, SendEnd, Receive, Pass
    <3>2. CASE left' # left
      <4>1. /\ goon(p) /\ entered' = entered /\ left' = [left EXCEPT ![p] = left[p] + 1]
            /\ cur_bar' = [cur_bar EXCEPT ![p] = cur_bar[p] + 1] /\ pc' = [pc EXCEPT ![p] = 0]
        BY <2>3, <3>2 DEF Step, SendBuffered, SendBegin, SendEnd, Receive, Pass, goon
      <4>2. pc[p] # 0
        BY <2>3 DEF Step, SendBuffered, SendBegin, SendEnd, Receive, Pass, At, IInv, CallOK
      <4>3. left'[p] = left[p] + 1 /\ entered[p] = left[p] + 1
        BY <4>1, <4>2, AtPlace DEF IInv, TypeOK
      <4>4. \A u \in Proc : left'[p] <= entered[u]
        BY <4>1 DEF IInv, BarrierSafety
      <4>5. \A u \in Proc : entered[u] \in Nat /\ left[u] \in Nat
        BY DEF IInv, TypeOK
      <4>. QED  BY <4>1, <4>3, <4>4, <4>5 DEF Abstract!Leave
    <3>. QED  BY <3>1, <3>2
  <2>. QED  BY <2>1, <2>2, <2>3 DEF Next
<1>. QED  BY <1>1, <1>2, Invariance, PTL DEF Spec, ImplementsBarrier, Abstract!BSpec
=============================================================================
