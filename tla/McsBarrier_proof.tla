-------------------------- MODULE McsBarrier_proof --------------------------
(***************************************************************************)
(* Proofs about McsBarrier with up to four threads, which is what it is    *)
(* correct for: indices are unique within an episode, every thread uses    *)
(* the sense of its episode, nobody leaves before everybody has entered,   *)
(* and every step is a step of Barrier or leaves it unchanged, for any     *)
(* number of episodes.                                                     *)
(***************************************************************************)
EXTENDS McsBarrier, FiniteSetTheorems, TLAPS

(* A root with four arrivals to wait for does not work, see mcs_five.      *)
AtMostFour == num_procs <= 4

(* 2 ^ 32 is a multiple of 1, 2 and 4; three threads may not make as many  *)
(* calls, since indices would repeat when vpid_next begins again at 0.     *)
IndicesSuffice ==
  VpidWrap % num_procs = 0 \/ num_procs * Episodes < VpidWrap

-----------------------------------------------------------------------------
(* The invariant.  e is the last episode that everybody has entered; some  *)
(* threads may have left it, and of those some have entered the next one.  *)

Early(e) == {t \in Thread : entered[t] = e + 1}
Inside(e) == {t \in Thread : entered[t] = e /\ pc[t] # "out"}

(* A thread whose node has yet to report to its parent, or to all of whose *)
(* children it has yet to listen. *)
Unready(t) ==
  \/ pc[t] \in {"sense", "scan"}
  \/ pc[t] \in {"reset", "notify"} /\ vpid[t] # 0

(* The calls in which a thread has not been woken, or not gone on to wake  *)
(* its first, or its second child.                                         *)
Asleep == {"sense", "scan", "reset", "notify", "wait"}
Before(c) == IF c = 0 THEN Asleep \cup {"wake0"} ELSE Asleep \cup {"wake0", "wake1"}

Woken(e, v) == parentsense[v] = e % 2

TypeInv ==
  /\ vpid_next \in 0 .. VpidWrap - 1
  /\ sense_init \in {0, 1}
  /\ parentsense \in [Node -> {0, 1}]
  /\ childnotready \in [Node -> SUBSET (0 .. 3)]
  /\ \A n \in Node : childnotready[n] \subseteq havechild(n)
  /\ vpid \in [Thread -> Node]
  /\ sense \in [Thread -> {0, 1}]
  /\ todo \in [Thread -> SUBSET (0 .. 3)]
  /\ pc \in [Thread -> Asleep \cup {"out", "wake0", "wake1", "leave"}]
  /\ entered \in [Thread -> 0 .. Episodes]
  /\ left \in [Thread -> 0 .. Episodes]
  /\ \A t \in Thread : pc[t] \in {"scan", "reset"} => todo[t] \subseteq havechild(vpid[t])

EpisodeOK(e) ==
  \A t \in Thread :
    /\ entered[t] \in {e, e + 1}
    /\ left[t] = IF pc[t] = "out" THEN entered[t] ELSE entered[t] - 1
    /\ entered[t] = e + 1 =>
         /\ pc[t] \in Asleep
         /\ vpid[t] = 0 => pc[t] \in {"sense", "scan"}

IndexOK(e) ==
  LET k == Cardinality(Early(e)) IN
  /\ k < num_procs
  /\ vpid_next % num_procs = k
  /\ VpidWrap % num_procs # 0 => vpid_next = num_procs * e + k
  /\ \A t \in Early(e) : vpid[t] < k
  /\ \A i \in 0 .. k - 1 : \E t \in Early(e) : vpid[t] = i
  /\ \A t, u \in Early(e) : vpid[t] = vpid[u] => t = u
  /\ \A t, u \in Inside(e) : vpid[t] = vpid[u] => t = u

SenseOK(e) ==
  /\ \A t \in Thread : pc[t] \notin {"out", "sense"} => sense[t] = entered[t] % 2
  /\ sense_init = IF Inside(e) = Thread THEN e % 2 ELSE (e + 1) % 2

RootFirst(e) ==
  /\ \A t \in Inside(e) : Unready(t) =>
       \E r \in Inside(e) : vpid[r] = 0 /\ pc[r] \in {"sense", "scan"}
  /\ \A r \in Inside(e) : vpid[r] = 0 /\ pc[r] \in Before(0) =>
       /\ Inside(e) = Thread
       /\ 1 \in Node => ~Woken(e, 1)

SlotsOK(e) ==
  /\ \A t \in Thread : Unready(t) /\ vpid[t] # 0 => vpid[t] - 1 \in childnotready[0]
  /\ \A t \in Thread : vpid[t] = 0 /\ pc[t] = "scan" =>
       \A j \in havechild(0) \ todo[t] : j \notin childnotready[0]
  /\ \A t \in Inside(e) : vpid[t] = 0 /\ pc[t] = "reset" =>
       havechild(0) \subseteq childnotready[0] \cup todo[t]
  /\ (\A t \in Inside(e) : vpid[t] = 0 => pc[t] \notin {"sense", "scan", "reset"}) =>
       \A v \in 1 .. num_procs - 1 : v >= Cardinality(Early(e)) => v - 1 \in childnotready[0]

WakeOK(e) ==
  /\ \A t \in Inside(e) : vpid[t] # 0 /\ pc[t] \notin Asleep => Woken(e, vpid[t])
  /\ \A v \in Node \ {0} : ~Woken(e, v) =>
       /\ \E h \in Inside(e) : vpid[h] = v /\ pc[h] \in Asleep
       /\ \E u \in Node, c \in {0, 1} :
            /\ childpointer(u, c) = v
            /\ \E p \in Inside(e) : vpid[p] = u /\ pc[p] \in Before(c)
  /\ \A v \in Node \ {0} : Woken(e, v) => Woken(e, 1)

EInv(e) ==
  /\ EpisodeOK(e) /\ IndexOK(e) /\ SenseOK(e)
  /\ RootFirst(e) /\ SlotsOK(e) /\ WakeOK(e)

IInv == TypeInv /\ \E e \in 0 .. Episodes : EInv(e)

-----------------------------------------------------------------------------
(* Numbers, trees and sets. *)

(* Episodes alternate between the two senses. *)
LEMMA Parity ==
  ASSUME NEW e \in Nat
  PROVE  /\ e % 2 \in {0, 1}
         /\ (e + 1) % 2 = 1 - (e % 2)
         /\ (e + 1) % 2 # e % 2
OBVIOUS

(* With up to four threads all others are children of the root in the tree *)
(* of arrivals.                                                            *)
LEMMA Tree ==
  ASSUME AtMostFour
  PROVE  /\ num_procs \in 1 .. 4
         /\ Node = 0 .. num_procs - 1
         /\ havechild(0) = 0 .. num_procs - 2
         /\ \A v \in Node \ {0} :
              /\ v \in 1 .. 3
              /\ havechild(v) = {}
              /\ parentnode(v) = 0 /\ parentslot(v) = v - 1
<1>1. num_procs \in 1 .. 4 /\ Node = 0 .. num_procs - 1
  BY NumProcsAssumption DEF AtMostFour, Node
<1>2. havechild(0) = 0 .. num_procs - 2
  BY <1>1 DEF havechild
<1>3. ASSUME NEW v \in Node \ {0}
      PROVE  /\ v \in 1 .. 3
             /\ havechild(v) = {}
             /\ parentnode(v) = 0 /\ parentslot(v) = v - 1
  <2>1. v \in 1 .. 3
    BY <1>1
  <2>2. havechild(v) = {}
    BY <1>1, <2>1 DEF havechild
  <2>3. CASE v = 1
    BY <2>3, <2>2 DEF parentnode, parentslot
  <2>4. CASE v = 2
    BY <2>4, <2>2 DEF parentnode, parentslot
  <2>5. CASE v = 3
    BY <2>5, <2>2 DEF parentnode, parentslot
  <2> QED BY <2>1, <2>3, <2>4, <2>5
<1> QED BY <1>1, <1>2, <1>3

LEMMA ThreadSets ==
  ASSUME NEW S, S \subseteq Thread
  PROVE  /\ IsFiniteSet(S)
         /\ Cardinality(S) \in Nat
         /\ Cardinality(S) <= num_procs
         /\ Cardinality(S) = num_procs => S = Thread
         /\ Cardinality(S) = 0 => S = {}
<1>1. IsFiniteSet(Thread) /\ Cardinality(Thread) = num_procs
  BY NumProcsAssumption, FS_Interval DEF Thread
<1>2. /\ IsFiniteSet(S)
      /\ Cardinality(S) <= Cardinality(Thread)
      /\ Cardinality(S) = Cardinality(Thread) => S = Thread
  BY <1>1, FS_Subset
<1> QED BY <1>1, <1>2, FS_CardinalityType, FS_EmptySet

(* Two threads that are not in S leave room for two less. *)
LEMMA TwoMissing ==
  ASSUME NEW S, S \subseteq Thread, NEW h \in Thread \ S, NEW p \in Thread \ S, h # p
  PROVE  Cardinality(S) + 2 <= num_procs
<1>1. IsFiniteSet(S) /\ Cardinality(S) \in Nat
  BY ThreadSets
<1>2. IsFiniteSet(S \cup {h}) /\ Cardinality(S \cup {h}) = Cardinality(S) + 1
  BY <1>1, FS_AddElement
<1>a. p \notin S \cup {h}
  OBVIOUS
<1>b. Cardinality((S \cup {h}) \cup {p}) = Cardinality(S \cup {h}) + 1
  BY <1>2, <1>a, FS_AddElement
<1>3. Cardinality((S \cup {h}) \cup {p}) = Cardinality(S) + 2
  BY <1>1, <1>2, <1>b
<1>4. Cardinality((S \cup {h}) \cup {p}) <= num_procs
  BY ThreadSets, (S \cup {h}) \cup {p} \subseteq Thread
<1> QED BY <1>3, <1>4

-----------------------------------------------------------------------------
(* What the invariant says of a state. *)

(* Until the root of an episode wakes its first child everybody is inside. *)
LEMMA AllInside ==
  ASSUME TypeInv, NEW e \in Nat, EInv(e), NEW r \in Inside(e),
         vpid[r] = 0, pc[r] \in Before(0)
  PROVE  Inside(e) = Thread /\ Early(e) = {}
<1>1. Inside(e) = Thread
  BY DEF EInv, RootFirst
<1> QED BY <1>1 DEF Inside, Early

(* A thread that has not reported is either Early, or the root waits.      *)
LEMMA UnreadyInside ==
  ASSUME TypeInv, NEW e \in Nat, EInv(e), NEW t \in Inside(e), Unready(t)
  PROVE  /\ \E r \in Inside(e) : vpid[r] = 0 /\ pc[r] \in {"sense", "scan"}
         /\ Inside(e) = Thread /\ Early(e) = {}
<1>1. PICK r \in Inside(e) : vpid[r] = 0 /\ pc[r] \in {"sense", "scan"}
  BY DEF EInv, RootFirst
<1>2. pc[r] \in Before(0)
  BY <1>1 DEF Before, Asleep
<1> QED BY <1>1, <1>2, AllInside

LEMMA WhichEpisode ==
  ASSUME TypeInv, NEW e \in Nat, EInv(e), NEW t \in Thread, pc[t] # "out"
  PROVE  /\ t \in Inside(e) \/ t \in Early(e)
         /\ t \in Inside(e) => entered[t] = e /\ left[t] = e - 1
         /\ t \in Early(e) => /\ entered[t] = e + 1 /\ left[t] = e
                              /\ t \notin Inside(e) /\ pc[t] \in Asleep
                              /\ vpid[t] = 0 => pc[t] \in {"sense", "scan"}
<1>1. /\ entered[t] \in {e, e + 1} /\ left[t] = entered[t] - 1
      /\ entered[t] = e + 1 => /\ pc[t] \in Asleep
                               /\ vpid[t] = 0 => pc[t] \in {"sense", "scan"}
  BY DEF EInv, EpisodeOK
<1> QED BY <1>1 DEF Inside, Early

(* The flags of the indices taken early have all been set in the episode   *)
(* before: those who left it were woken, and so were, before them, the     *)
(* threads with these indices.                                             *)
LEMMA EarlyWoken ==
  ASSUME AtMostFour, TypeInv, NEW e \in Nat, EInv(e), NEW t \in Early(e), vpid[t] # 0
  PROVE  Woken(e, vpid[t])
<1> DEFINE v == vpid[t]
           k == Cardinality(Early(e))
<1>1. v \in Node \ {0} /\ v < k
  BY DEF Early, TypeInv, EInv, IndexOK
<1>2. Early(e) \subseteq Thread /\ Inside(e) \subseteq Thread
  BY DEF Early, Inside
<1>3. Inside(e) \cap Early(e) = {}
  BY DEF Early, Inside
<1> SUFFICES ASSUME ~Woken(e, v) PROVE FALSE
  OBVIOUS
<1>4. PICK h \in Inside(e) : vpid[h] = v /\ pc[h] \in Asleep
  BY <1>1 DEF EInv, WakeOK
<1>5. PICK u \in Node, c \in {0, 1} :
        childpointer(u, c) = v /\ \E p \in Inside(e) : vpid[p] = u /\ pc[p] \in Before(c)
  BY <1>1 DEF EInv, WakeOK
<1>6. PICK p \in Inside(e) : vpid[p] = u /\ pc[p] \in Before(c)
  BY <1>5
<1>7. v \in 1 .. 3 /\ num_procs \in 1 .. 4 /\ Node = 0 .. num_procs - 1
  BY <1>1, Tree
<1>8. v = 2 * u + c + 1 /\ u \in Nat /\ c \in Nat
  BY <1>5, <1>7 DEF childpointer
<1>9. h # p
  BY <1>4, <1>6, <1>8
<1>10. k + 2 <= num_procs /\ k \in Nat
  BY <1>2, <1>3, <1>9, TwoMissing, ThreadSets
<1>11. v = 1
  BY <1>1, <1>7, <1>10
<1>12. u = 0 /\ c = 0
  BY <1>8, <1>11
<1>13. Early(e) = {}
  BY <1>6, <1>12, AllInside
<1> QED BY <1>13

(* No early thread is woken ... *)
LEMMA EarlyWaits ==
  ASSUME AtMostFour, TypeInv, NEW e \in Nat, EInv(e), NEW t \in Thread, Wait(t)
  PROVE  t \in Inside(e)
<1>1. pc[t] = "wait" /\ parentsense[vpid[t]] = sense[t]
  BY DEF Wait
<1> SUFFICES ASSUME t \in Early(e) PROVE FALSE
  BY <1>1, WhichEpisode
<1>2. vpid[t] # 0 /\ entered[t] = e + 1
  BY <1>1, WhichEpisode
<1>3. parentsense[vpid[t]] = e % 2
  BY <1>2, EarlyWoken DEF Woken
<1>4. sense[t] = (e + 1) % 2
  BY <1>1, <1>2 DEF EInv, SenseOK
<1> QED BY <1>1, <1>3, <1>4, Parity

(* ... and no early root hears of the last index, which nobody has taken.  *)
LEMMA EarlyScans ==
  ASSUME AtMostFour, TypeInv, NEW e \in Nat, EInv(e), NEW t \in Thread, Scanned(t),
         vpid[t] = 0
  PROVE  t \in Inside(e)
<1>1. pc[t] = "scan" /\ todo[t] = {}
  BY DEF Scanned
<1> SUFFICES ASSUME t \in Early(e) PROVE FALSE
  BY <1>1, WhichEpisode
<1> DEFINE k == Cardinality(Early(e))
<1>2. k \in Nat /\ k # 0 /\ k < num_procs
  BY ThreadSets DEF Early, EInv, IndexOK
<1>3. ASSUME NEW r \in Inside(e), vpid[r] = 0
      PROVE  pc[r] \notin {"sense", "scan", "reset"}
  <2>1. pc[r] \notin Before(0)
    BY <1>3, AllInside
  <2> QED BY <2>1 DEF Before, Asleep
<1>4. num_procs - 1 \in 1 .. num_procs - 1 /\ num_procs - 1 >= k
      /\ (num_procs - 1) - 1 = num_procs - 2 /\ num_procs - 2 \in 0 .. num_procs - 2
  BY <1>2, NumProcsAssumption
<1>5. num_procs - 2 \in childnotready[0]
  BY <1>3, <1>4 DEF EInv, SlotsOK
<1>6. num_procs - 2 \notin childnotready[0]
  BY <1>1, <1>4, Tree DEF EInv, SlotsOK
<1> QED BY <1>5, <1>6

(* The steps after that are of threads in the full episode only. *)
LEMMA LaterInside ==
  ASSUME TypeInv, NEW e \in Nat, EInv(e), NEW t \in Thread,
         pc[t] \in {"wake0", "wake1", "leave"}
  PROVE  t \in Inside(e) /\ sense[t] = e % 2
<1>1. pc[t] \notin Asleep /\ pc[t] \notin {"out", "sense"}
  BY DEF Asleep
<1>2. t \in Inside(e) /\ entered[t] = e
  BY <1>1, WhichEpisode
<1> QED BY <1>1, <1>2 DEF EInv, SenseOK

-----------------------------------------------------------------------------
(* The steps inside of the barrier keep the invariant. *)

(* Nobody enters, and nobody but t itself leaves. *)
LEMMA SameEpisode ==
  ASSUME TypeInv, NEW e \in Nat, EInv(e), NEW t \in Thread, pc[t] # "out",
         UNCHANGED <<vpid_next, vpid, entered>>,
         NEW q, q # "out", pc' = [pc EXCEPT ![t] = q]
  PROVE  /\ Early(e)' = Early(e) /\ Inside(e)' = Inside(e)
         /\ IndexOK(e)'
         /\ \A u \in Thread : u # t => pc'[u] = pc[u] /\ Unready(u)' = Unready(u)
         /\ pc'[t] = q
<1>1. pc \in [Thread -> Asleep \cup {"out", "wake0", "wake1", "leave"}]
  BY DEF TypeInv
<1>2. pc'[t] = q /\ \A u \in Thread : u # t => pc'[u] = pc[u]
  BY <1>1
<1>3. Early(e)' = Early(e)
  BY DEF Early
<1>4. Inside(e)' = Inside(e)
  BY <1>2 DEF Inside
<1>5. IndexOK(e)'
  BY <1>3, <1>4 DEF EInv, IndexOK
<1>6. \A u \in Thread : u # t => Unready(u)' = Unready(u)
  BY <1>2 DEF Unready
<1> QED BY <1>2, <1>3, <1>4, <1>5, <1>6

LEMMA ReadSenseStep ==
  ASSUME AtMostFour, TypeInv, NEW e \in Nat, EInv(e), NEW t \in Thread, ReadSense(t)
  PROVE  TypeInv' /\ EInv(e)'
<1> USE DEF EInv
<1>p. /\ pc[t] = "sense" /\ pc' = [pc EXCEPT ![t] = "scan"]
      /\ sense' = [sense EXCEPT ![t] = sense_init]
      /\ todo' = [todo EXCEPT ![t] = havechild(vpid[t])]
      /\ UNCHANGED <<shared, vpid, entered, left>>
  BY DEF ReadSense
<1>h. \A v \in Node : havechild(v) \subseteq 0 .. 3
  BY DEF havechild
<1>0. TypeInv'
  BY <1>p, <1>h DEF TypeInv, shared, Asleep
<1>s. /\ Early(e)' = Early(e) /\ Inside(e)' = Inside(e)
      /\ IndexOK(e)'
      /\ \A u \in Thread : u # t => pc'[u] = pc[u] /\ Unready(u)' = Unready(u)
      /\ pc'[t] = "scan"
  BY <1>p, SameEpisode DEF shared
<1>u. Unready(t)' /\ Unready(t)
  BY <1>p, <1>s DEF Unready
<1>a. "scan" \in Asleep /\ "sense" \in Asleep /\ \A c : "scan" \in Before(c) /\ "sense" \in Before(c)
  BY DEF Asleep, Before
<1>1. EpisodeOK(e)'
  BY <1>p, <1>s, <1>a DEF EpisodeOK
<1>2. SenseOK(e)'
  <2>1. sense'[t] = sense_init /\ \A u \in Thread : u # t => sense'[u] = sense[u]
    BY <1>p DEF TypeInv
  <2>2. sense_init = entered[t] % 2
    <3>1. CASE t \in Inside(e)
      BY <3>1, <1>u, UnreadyInside DEF SenseOK, Inside
    <3>2. CASE t \in Early(e)
      BY <3>2, <1>p, WhichEpisode DEF SenseOK
    <3> QED BY <1>p, <3>1, <3>2, WhichEpisode
  <2> QED BY <2>1, <2>2, <1>p, <1>s DEF SenseOK, shared
<1>3. RootFirst(e)'
  <2>1. Inside(e) \subseteq Thread
    BY DEF Inside
  <2>2. ASSUME NEW u \in Inside(e), Unready(u)'
        PROVE  \E r \in Inside(e) : vpid[r] = 0 /\ pc'[r] \in {"sense", "scan"}
    <3>1. Unready(u)
      BY <2>1, <2>2, <1>s, <1>u
    <3>2. PICK r \in Inside(e) : vpid[r] = 0 /\ pc[r] \in {"sense", "scan"}
      BY <3>1 DEF RootFirst
    <3>3. pc'[r] \in {"sense", "scan"}
      BY <3>2, <2>1, <1>s
    <3> QED BY <3>2, <3>3
  <2>3. ASSUME NEW r \in Inside(e), vpid[r] = 0, pc'[r] \in Before(0)
        PROVE  Inside(e) = Thread /\ (1 \in Node => ~Woken(e, 1))
    <3>1. pc[r] \in Before(0)
      BY <2>1, <2>3, <1>s, <1>p, <1>a
    <3> QED BY <2>3, <3>1 DEF RootFirst
  <2> QED BY <2>2, <2>3, <1>p, <1>s DEF RootFirst, Woken, shared
<1>4. SlotsOK(e)'
  <2>1. todo'[t] = havechild(vpid[t]) /\ \A u \in Thread : u # t => todo'[u] = todo[u]
    BY <1>p DEF TypeInv
  <2>2. Inside(e) \subseteq Thread
    BY DEF Inside
  <2> QED BY <1>p, <1>s, <1>u, <2>1, <2>2 DEF SlotsOK, shared
<1>5. WakeOK(e)'
  BY <1>p, <1>s, <1>a DEF WakeOK, Woken, shared
<1> QED BY <1>0, <1>s, <1>1, <1>2, <1>3, <1>4, <1>5

LEMMA ScanStep ==
  ASSUME AtMostFour, TypeInv, NEW e \in Nat, EInv(e), NEW t \in Thread, Scan(t)
  PROVE  TypeInv' /\ EInv(e)'
<1> USE DEF EInv
<1>p. /\ pc[t] = "scan" /\ UNCHANGED <<shared, vpid, sense, pc, entered, left>>
  BY DEF Scan
<1>q. PICK j \in todo[t] :
        todo' = [todo EXCEPT ![t] = IF j \in childnotready[vpid[t]]
                                      THEN havechild(vpid[t]) ELSE @ \ {j}]
  BY DEF Scan
<1>h. \A v \in Node : havechild(v) \subseteq 0 .. 3
  BY DEF havechild
<1>t. /\ todo'[t] = IF j \in childnotready[vpid[t]] THEN havechild(vpid[t]) ELSE todo[t] \ {j}
      /\ \A u \in Thread : u # t => todo'[u] = todo[u]
  BY <1>q DEF TypeInv
<1>v. vpid[t] \in Node /\ todo[t] \subseteq havechild(vpid[t])
  BY <1>p DEF TypeInv
<1>0. TypeInv'
  <2>1. todo' \in [Thread -> SUBSET (0 .. 3)]
    BY <1>q, <1>h, <1>v DEF TypeInv
  <2>2. todo'[t] \subseteq havechild(vpid[t])
    BY <1>t, <1>v
  <2> QED BY <1>p, <1>t, <2>1, <2>2 DEF TypeInv, shared
<1>s. /\ Early(e)' = Early(e) /\ Inside(e)' = Inside(e)
      /\ \A u \in Thread : Unready(u)' = Unready(u)
  BY <1>p DEF Early, Inside, Unready
<1>1. EpisodeOK(e)' /\ IndexOK(e)' /\ SenseOK(e)' /\ RootFirst(e)' /\ WakeOK(e)'
  <2>1. EpisodeOK(e)' /\ SenseOK(e)'
    BY <1>p, <1>s DEF EpisodeOK, SenseOK, shared
  <2>2. IndexOK(e)'
    BY <1>p, <1>s DEF IndexOK, shared
  <2>3. Inside(e) \subseteq Thread
    BY DEF Inside
  <2>4. RootFirst(e)'
    BY <1>p, <1>s, <2>3 DEF RootFirst, Woken, shared
  <2>5. WakeOK(e)'
    BY <1>p, <1>s DEF WakeOK, Woken, shared
  <2> QED BY <2>1, <2>2, <2>4, <2>5
<1>4. SlotsOK(e)'
  <2>1. ASSUME NEW u \in Thread, vpid[u] = 0, pc[u] = "scan",
               NEW i \in havechild(0) \ todo'[u]
        PROVE  i \notin childnotready[0]
    BY <2>1, <1>t DEF SlotsOK
  <2>2. Inside(e) \subseteq Thread
    BY DEF Inside
  <2>3. ASSUME NEW u \in Inside(e), vpid[u] = 0, pc[u] = "reset"
        PROVE  havechild(0) \subseteq childnotready[0] \cup todo'[u]
    BY <2>2, <2>3, <1>p, <1>t DEF SlotsOK
  <2> QED BY <1>p, <1>s, <2>1, <2>3 DEF SlotsOK, shared
<1> QED BY <1>0, <1>1, <1>4

(* The root has heard of every child, hence nobody is unready. *)
LEMMA ScannedStep ==
  ASSUME AtMostFour, TypeInv, NEW e \in Nat, EInv(e), NEW t \in Thread, Scanned(t)
  PROVE  TypeInv' /\ EInv(e)'
<1> USE DEF EInv
<1>p. /\ pc[t] = "scan" /\ todo[t] = {} /\ pc' = [pc EXCEPT ![t] = "reset"]
      /\ todo' = [todo EXCEPT ![t] = havechild(vpid[t])]
      /\ UNCHANGED <<shared, vpid, sense, entered, left>>
  BY DEF Scanned
<1>h. \A v \in Node : havechild(v) \subseteq 0 .. 3
  BY DEF havechild
<1>t. todo'[t] = havechild(vpid[t]) /\ \A u \in Thread : u # t => todo'[u] = todo[u]
  BY <1>p DEF TypeInv
<1>0. TypeInv'
  BY <1>p, <1>h DEF TypeInv, shared, Asleep
<1>s. /\ Early(e)' = Early(e) /\ Inside(e)' = Inside(e)
      /\ IndexOK(e)'
      /\ \A u \in Thread : u # t => pc'[u] = pc[u] /\ Unready(u)' = Unready(u)
      /\ pc'[t] = "reset"
  BY <1>p, SameEpisode DEF shared
<1>u. Unready(t)' <=> vpid[t] # 0
  BY <1>p, <1>s DEF Unready, shared
<1>a. "scan" \in Asleep /\ "reset" \in Asleep
      /\ \A c : "scan" \in Before(c) /\ "reset" \in Before(c)
  BY DEF Asleep, Before
<1>i. Inside(e) \subseteq Thread
  BY DEF Inside
<1>r. vpid[t] = 0 => t \in Inside(e)
  BY EarlyScans
<1>1. EpisodeOK(e)'
  <2>1. entered[t] = e + 1 => vpid[t] # 0
    BY <1>r DEF Inside
  <2> QED BY <1>p, <1>s, <1>a, <2>1 DEF EpisodeOK
<1>2. SenseOK(e)'
  BY <1>p, <1>s DEF SenseOK, shared
<1>n. ASSUME vpid[t] = 0, NEW u \in Thread, u # t
      PROVE  ~Unready(u)
  <2>1. Inside(e) = Thread
    BY <1>n, <1>r, <1>p, <1>a, AllInside
  <2>2. vpid[u] \in Node \ {0}
    <3>1. vpid[u] # vpid[t]
      BY <2>1, <1>n DEF IndexOK
    <3> QED BY <3>1, <1>n DEF TypeInv
  <2>3. vpid[u] - 1 \in havechild(0)
    <3>1. vpid[u] \in 1 .. num_procs - 1 /\ num_procs \in 1 .. 4
      BY <2>2, Tree
    <3> QED BY <3>1, Tree
  <2>4. vpid[u] - 1 \notin childnotready[0]
    BY <2>3, <1>n, <1>p DEF SlotsOK
  <2> QED BY <2>2, <2>4 DEF SlotsOK
<1>3. RootFirst(e)'
  <2>1. ASSUME NEW u \in Inside(e), Unready(u)'
        PROVE  \E r \in Inside(e) : vpid[r] = 0 /\ pc'[r] \in {"sense", "scan"}
    <3>1. Unready(u)
      BY <2>1, <1>i, <1>s, <1>p DEF Unready
    <3>2. PICK r \in Inside(e) : vpid[r] = 0 /\ pc[r] \in {"sense", "scan"}
      BY <3>1 DEF RootFirst
    <3>3. r # t
      <4>1. CASE u = t
        BY <4>1, <2>1, <1>u, <3>2
      <4>2. CASE u # t
        BY <4>2, <1>n, <3>1, <3>2, <1>i
      <4> QED BY <4>1, <4>2
    <3> QED BY <3>2, <3>3, <1>i, <1>s
  <2>2. ASSUME NEW r \in Inside(e), vpid[r] = 0, pc'[r] \in Before(0)
        PROVE  Inside(e) = Thread /\ (1 \in Node => ~Woken(e, 1))
    <3>1. pc[r] \in Before(0)
      BY <2>2, <1>i, <1>s, <1>p, <1>a
    <3> QED BY <2>2, <3>1 DEF RootFirst
  <2> QED BY <2>1, <2>2, <1>p, <1>s DEF RootFirst, Woken, shared
<1>4. SlotsOK(e)'
  <2>1. ASSUME NEW u \in Thread, Unready(u)', vpid[u] # 0
        PROVE  vpid[u] - 1 \in childnotready[0]
    <3>1. Unready(u)
      BY <2>1, <1>s, <1>p DEF Unready
    <3> QED BY <2>1, <3>1 DEF SlotsOK
  <2>2. ASSUME NEW u \in Thread, vpid[u] = 0, pc'[u] = "scan",
               NEW j \in havechild(0) \ todo'[u]
        PROVE  j \notin childnotready[0]
    BY <2>2, <1>s, <1>t DEF SlotsOK
  <2>3. ASSUME NEW u \in Inside(e), vpid[u] = 0, pc'[u] = "reset"
        PROVE  havechild(0) \subseteq childnotready[0] \cup todo'[u]
    BY <2>3, <1>i, <1>s, <1>t DEF SlotsOK
  <2>4. ASSUME \A u \in Inside(e) : vpid[u] = 0 => pc'[u] \notin {"sense", "scan", "reset"},
               NEW v \in 1 .. num_procs - 1, v >= Cardinality(Early(e))
        PROVE  v - 1 \in childnotready[0]
    <3>1. vpid[t] # 0
      BY <2>4, <1>r, <1>s
    <3>2. \A u \in Inside(e) : vpid[u] = 0 => pc[u] \notin {"sense", "scan", "reset"}
      BY <2>4, <3>1, <1>i, <1>s
    <3> QED BY <2>4, <3>2 DEF SlotsOK
  <2> QED BY <1>p, <1>s, <2>1, <2>2, <2>3, <2>4 DEF SlotsOK, shared
<1>5. WakeOK(e)'
  BY <1>p, <1>s, <1>a, <1>i DEF WakeOK, Woken, shared
<1> QED BY <1>0, <1>s, <1>1, <1>2, <1>3, <1>4, <1>5

LEMMA ResetStep ==
  ASSUME AtMostFour, TypeInv, NEW e \in Nat, EInv(e), NEW t \in Thread, Reset(t)
  PROVE  TypeInv' /\ EInv(e)'
<1> USE DEF EInv
<1>p. pc[t] = "reset" /\ UNCHANGED <<vpid_next, sense_init, parentsense, vpid, sense, entered, left>>
  BY DEF Reset
<1>a. "notify" \in Asleep /\ "reset" \in Asleep
      /\ \A c : "notify" \in Before(c) /\ "reset" \in Before(c)
  BY DEF Asleep, Before
<1>i. Inside(e) \subseteq Thread
  BY DEF Inside
<1>r. vpid[t] = 0 => /\ t \in Inside(e) /\ Inside(e) = Thread /\ Early(e) = {}
                     /\ \A u \in Thread : u # t => vpid[u] # 0
                     /\ \A u \in Thread : ~Unready(u)
  <2> SUFFICES ASSUME vpid[t] = 0
               PROVE  /\ t \in Inside(e) /\ Inside(e) = Thread /\ Early(e) = {}
                      /\ \A u \in Thread : u # t => vpid[u] # 0
                      /\ \A u \in Thread : ~Unready(u)
    OBVIOUS
  <2>1. t \in Inside(e)
    BY <1>p, WhichEpisode
  <2>2. Inside(e) = Thread /\ Early(e) = {}
    BY <2>1, <1>p, <1>a, AllInside
  <2>3. \A u \in Thread : u # t => vpid[u] # 0
    BY <2>2 DEF IndexOK
  <2>4. ASSUME NEW u \in Thread, Unready(u)
        PROVE  FALSE
    BY <2>2, <2>3, <2>4, <1>p DEF RootFirst
  <2> QED BY <2>1, <2>2, <2>3, <2>4
<1>1. CASE /\ todo[t] = {} /\ pc' = [pc EXCEPT ![t] = "notify"]
           /\ UNCHANGED <<childnotready, todo>>
  <2>0. TypeInv'
    BY <1>p, <1>1 DEF TypeInv, Asleep
  <2>s. /\ Early(e)' = Early(e) /\ Inside(e)' = Inside(e)
        /\ IndexOK(e)'
        /\ \A u \in Thread : u # t => pc'[u] = pc[u] /\ Unready(u)' = Unready(u)
        /\ pc'[t] = "notify"
    BY <1>p, <1>1, SameEpisode
  <2>u. Unready(t)' = Unready(t)
    BY <1>p, <2>s DEF Unready
  <2>1. EpisodeOK(e)'
    BY <1>p, <2>s, <1>a DEF EpisodeOK
  <2>2. SenseOK(e)'
    BY <1>p, <2>s DEF SenseOK
  <2>3. RootFirst(e)'
    <3>1. ASSUME NEW u \in Inside(e), Unready(u)'
          PROVE  \E r \in Inside(e) : vpid[r] = 0 /\ pc'[r] \in {"sense", "scan"}
      <4>1. Unready(u)
        BY <3>1, <1>i, <2>s, <2>u
      <4>2. PICK r \in Inside(e) : vpid[r] = 0 /\ pc[r] \in {"sense", "scan"}
        BY <4>1 DEF RootFirst
      <4>3. pc'[r] \in {"sense", "scan"}
        BY <4>2, <1>i, <1>p, <2>s
      <4> QED BY <4>2, <4>3
    <3>2. ASSUME NEW r \in Inside(e), vpid[r] = 0, pc'[r] \in Before(0)
          PROVE  Inside(e) = Thread /\ (1 \in Node => ~Woken(e, 1))
      <4>1. pc[r] \in Before(0)
        BY <3>2, <1>i, <2>s, <1>p, <1>a
      <4> QED BY <3>2, <4>1 DEF RootFirst
    <3> QED BY <3>1, <3>2, <1>p, <2>s DEF RootFirst, Woken
  <2>4. SlotsOK(e)'
    <3>1. ASSUME NEW u \in Thread, Unready(u)', vpid[u] # 0
          PROVE  vpid[u] - 1 \in childnotready[0]
      BY <3>1, <2>s, <2>u DEF SlotsOK
    <3>2. ASSUME NEW u \in Thread, vpid[u] = 0, pc'[u] = "scan",
                 NEW j \in havechild(0) \ todo[u]
          PROVE  j \notin childnotready[0]
      BY <3>2, <2>s DEF SlotsOK
    <3>3. ASSUME NEW u \in Inside(e), vpid[u] = 0, pc'[u] = "reset"
          PROVE  havechild(0) \subseteq childnotready[0] \cup todo[u]
      BY <3>3, <1>i, <2>s DEF SlotsOK
    <3>4. ASSUME \A u \in Inside(e) : vpid[u] = 0 => pc'[u] \notin {"sense", "scan", "reset"},
                 NEW v \in 1 .. num_procs - 1, v >= Cardinality(Early(e))
          PROVE  v - 1 \in childnotready[0]
      <4>1. CASE vpid[t] = 0
        <5>1. havechild(0) \subseteq childnotready[0]
          BY <4>1, <1>1, <1>p, <1>r DEF SlotsOK
        <5>2. v - 1 \in 0 .. num_procs - 2
          BY NumProcsAssumption
        <5> QED BY <5>1, <5>2, Tree
      <4>2. CASE vpid[t] # 0
        <5>1. \A u \in Inside(e) : vpid[u] = 0 => pc[u] \notin {"sense", "scan", "reset"}
          BY <3>4, <4>2, <1>i, <2>s
        <5> QED BY <3>4, <5>1 DEF SlotsOK
      <4> QED BY <4>1, <4>2
    <3> QED BY <1>p, <1>1, <2>s, <3>1, <3>2, <3>3, <3>4 DEF SlotsOK
  <2>5. WakeOK(e)'
    BY <1>p, <2>s, <1>a, <1>i DEF WakeOK, Woken
  <2> QED BY <2>0, <2>s, <2>1, <2>2, <2>3, <2>4, <2>5
<1>2. ASSUME NEW j \in todo[t],
             childnotready' = [childnotready EXCEPT ![vpid[t]] = @ \cup {j}],
             todo' = [todo EXCEPT ![t] = @ \ {j}], UNCHANGED pc
      PROVE  TypeInv' /\ EInv(e)'
  <2>a. vpid[t] \in Node /\ todo[t] \subseteq havechild(vpid[t])
    BY <1>p DEF TypeInv
  <2>v. vpid[t] = 0
    BY <2>a, <1>2, Tree
  <2>t. /\ todo'[t] = todo[t] \ {j} /\ \A u \in Thread : u # t => todo'[u] = todo[u]
        /\ childnotready'[0] = childnotready[0] \cup {j}
        /\ \A n \in Node : n # 0 => childnotready'[n] = childnotready[n]
    BY <1>2, <2>a, <2>v DEF TypeInv
  <2>0. TypeInv'
    <3>1. todo' \in [Thread -> SUBSET (0 .. 3)] /\ todo'[t] \subseteq havechild(vpid[t])
      BY <1>2, <2>a, <2>t DEF TypeInv
    <3>2. childnotready' \in [Node -> SUBSET (0 .. 3)]
      BY <1>2 DEF TypeInv
    <3>3. \A n \in Node : childnotready'[n] \subseteq havechild(n)
      BY <1>2, <2>a, <2>v, <2>t DEF TypeInv
    <3> QED BY <1>p, <1>2, <2>t, <3>1, <3>2, <3>3 DEF TypeInv
  <2>s. /\ Early(e)' = Early(e) /\ Inside(e)' = Inside(e)
        /\ \A u \in Thread : Unready(u)' = Unready(u)
    BY <1>p, <1>2 DEF Early, Inside, Unready
  <2>1. EpisodeOK(e)' /\ SenseOK(e)'
    BY <1>p, <1>2, <2>s DEF EpisodeOK, SenseOK
  <2>2. IndexOK(e)'
    BY <1>p, <1>2, <2>s DEF IndexOK
  <2>3. RootFirst(e)'
    BY <1>p, <1>2, <2>s, <1>i DEF RootFirst, Woken
  <2>4. SlotsOK(e)'
    <3>1. ASSUME NEW u \in Thread, Unready(u), vpid[u] # 0
          PROVE  vpid[u] - 1 \in childnotready'[0]
      BY <3>1, <2>t DEF SlotsOK
    <3>2. ASSUME NEW u \in Thread, vpid[u] = 0, pc[u] = "scan"
          PROVE  FALSE
      BY <3>2, <1>p, <1>r, <2>v
    <3>3. ASSUME NEW u \in Inside(e), vpid[u] = 0, pc[u] = "reset"
          PROVE  havechild(0) \subseteq childnotready'[0] \cup todo'[u]
      <4>1. u = t
        BY <3>3, <1>i, <1>r, <2>v
      <4> QED BY <3>3, <4>1, <2>t DEF SlotsOK
    <3>4. ASSUME \A u \in Inside(e) : vpid[u] = 0 => pc[u] \notin {"sense", "scan", "reset"}
          PROVE  FALSE
      BY <3>4, <1>p, <1>r, <2>v
    <3> QED BY <1>p, <1>2, <2>s, <3>1, <3>2, <3>3, <3>4 DEF SlotsOK
  <2>5. WakeOK(e)'
    BY <1>p, <1>2, <2>s DEF WakeOK, Woken
  <2> QED BY <2>0, <2>1, <2>2, <2>3, <2>4, <2>5
<1> QED BY <1>1, <1>2 DEF Reset

LEMMA NotifyStep ==
  ASSUME AtMostFour, TypeInv, NEW e \in Nat, EInv(e), NEW t \in Thread, Notify(t)
  PROVE  TypeInv' /\ EInv(e)'
<1> USE DEF EInv
<1> DEFINE q == IF vpid[t] = 0 THEN "wake0" ELSE "wait"
<1>p. /\ pc[t] = "notify" /\ pc' = [pc EXCEPT ![t] = q]
      /\ UNCHANGED <<vpid_next, sense_init, parentsense, vpid, sense, todo, entered, left>>
  BY DEF Notify
<1>v. vpid[t] \in Node
  BY DEF TypeInv
<1>c. /\ \A n \in Node : n # 0 => childnotready'[n] = childnotready[n]
      /\ vpid[t] = 0 => childnotready'[0] = childnotready[0]
      /\ vpid[t] # 0 => childnotready'[0] = childnotready[0] \ {vpid[t] - 1}
      /\ childnotready' \in [Node -> SUBSET (0 .. 3)]
      /\ \A n \in Node : childnotready'[n] \subseteq havechild(n)
  <2>1. CASE vpid[t] = 0
    BY <2>1 DEF Notify, TypeInv
  <2>2. CASE vpid[t] # 0
    <3>1. parentnode(vpid[t]) = 0 /\ parentslot(vpid[t]) = vpid[t] - 1
      BY <2>2, <1>v, Tree
    <3>2. childnotready' = [childnotready EXCEPT ![0] = @ \ {vpid[t] - 1}]
      BY <2>2, <3>1 DEF Notify
    <3>3. 0 \in Node
      BY NumProcsAssumption DEF Node
    <3> QED BY <2>2, <3>2, <3>3 DEF TypeInv
  <2> QED BY <2>1, <2>2
<1>a. /\ q # "out" /\ q \notin {"sense", "scan", "reset", "notify"}
      /\ q \in {"wake0", "wait"}
      /\ vpid[t] # 0 => q = "wait"
      /\ vpid[t] = 0 => q = "wake0"
  OBVIOUS
<1> HIDE DEF q
<1>b. /\ "notify" \in Asleep /\ "wait" \in Asleep
      /\ \A c : "notify" \in Before(c) /\ "wait" \in Before(c) /\ "wake0" \in Before(c)
  BY DEF Asleep, Before
<1>i. Inside(e) \subseteq Thread
  BY DEF Inside
<1>0. TypeInv'
  <2>1. pc' \in [Thread -> Asleep \cup {"out", "wake0", "wake1", "leave"}]
    BY <1>p, <1>a, <1>b DEF TypeInv
  <2>2. \A u \in Thread : pc'[u] \in {"scan", "reset"} => pc'[u] = pc[u]
    BY <1>p, <1>a DEF TypeInv
  <2> QED BY <1>p, <1>c, <2>1, <2>2 DEF TypeInv
<1>s. /\ Early(e)' = Early(e) /\ Inside(e)' = Inside(e)
      /\ IndexOK(e)'
      /\ \A u \in Thread : u # t => pc'[u] = pc[u] /\ Unready(u)' = Unready(u)
      /\ pc'[t] = q
  BY <1>p, <1>a, SameEpisode
<1>u. ~Unready(t)' /\ (vpid[t] # 0 => Unready(t))
  BY <1>p, <1>a, <1>s DEF Unready
<1>r. vpid[t] = 0 => t \in Inside(e) /\ entered[t] = e
  BY <1>p, WhichEpisode
<1>1. EpisodeOK(e)'
  BY <1>p, <1>a, <1>b, <1>s, <1>r DEF EpisodeOK
<1>2. SenseOK(e)'
  BY <1>p, <1>s DEF SenseOK
<1>3. RootFirst(e)'
  <2>1. ASSUME NEW u \in Inside(e), Unready(u)'
        PROVE  \E r \in Inside(e) : vpid[r] = 0 /\ pc'[r] \in {"sense", "scan"}
    <3>1. Unready(u)
      BY <2>1, <1>i, <1>s, <1>u
    <3>2. PICK r \in Inside(e) : vpid[r] = 0 /\ pc[r] \in {"sense", "scan"}
      BY <3>1 DEF RootFirst
    <3>3. pc'[r] \in {"sense", "scan"}
      BY <3>2, <1>i, <1>p, <1>s
    <3> QED BY <3>2, <3>3
  <2>2. ASSUME NEW r \in Inside(e), vpid[r] = 0, pc'[r] \in Before(0)
        PROVE  Inside(e) = Thread /\ (1 \in Node => ~Woken(e, 1))
    <3>1. pc[r] \in Before(0)
      BY <2>2, <1>i, <1>s, <1>p, <1>b
    <3> QED BY <2>2, <3>1 DEF RootFirst
  <2> QED BY <2>1, <2>2, <1>p, <1>s DEF RootFirst, Woken
<1>4. SlotsOK(e)'
  <2>e. t \in Inside(e) \/ t \in Early(e)
    BY <1>p, WhichEpisode
  <2>n. ASSUME vpid[t] # 0, t \in Inside(e)
        PROVE  /\ Inside(e) = Thread /\ Early(e) = {}
               /\ \E r \in Inside(e) : vpid[r] = 0 /\ pc[r] \in {"sense", "scan"}
    BY <2>n, <1>u, UnreadyInside
  <2>1. ASSUME NEW u \in Thread, Unready(u)', vpid[u] # 0
        PROVE  vpid[u] - 1 \in childnotready'[0]
    <3>1. u # t /\ Unready(u)
      BY <2>1, <1>u, <1>s
    <3>2. vpid[u] - 1 \in childnotready[0]
      BY <2>1, <3>1 DEF SlotsOK
    <3>3. ASSUME vpid[t] # 0
          PROVE  vpid[u] # vpid[t]
      <4>1. CASE t \in Inside(e)
        BY <4>1, <3>1, <3>3, <2>n DEF IndexOK
      <4>2. CASE t \in Early(e)
        <5>1. u \notin Inside(e)
          BY <4>2, <3>1, UnreadyInside
        <5>2. pc[u] # "out"
          BY <3>1 DEF Unready
        <5>3. u \in Early(e)
          BY <5>1, <5>2, WhichEpisode
        <5> QED BY <4>2, <5>3, <3>1 DEF IndexOK
      <4> QED BY <4>1, <4>2, <2>e
    <3>4. vpid[u] \in Int /\ vpid[t] \in Int
      BY Tree DEF TypeInv
    <3> QED BY <3>2, <3>3, <3>4, <1>c
  <2>2. ASSUME NEW u \in Thread, vpid[u] = 0, pc'[u] = "scan",
               NEW j \in havechild(0) \ todo[u]
        PROVE  j \notin childnotready'[0]
    <3>1. pc[u] = "scan"
      BY <2>2, <1>s, <1>a
    <3>2. j \notin childnotready[0]
      BY <2>2, <3>1 DEF SlotsOK
    <3> QED BY <3>2, <1>c
  <2>3. ASSUME NEW u \in Inside(e), vpid[u] = 0, pc'[u] = "reset"
        PROVE  havechild(0) \subseteq childnotready'[0] \cup todo[u]
    <3>1. pc[u] = "reset"
      BY <2>3, <1>i, <1>s, <1>a
    <3>2. pc[u] \in Before(0)
      BY <3>1 DEF Before, Asleep
    <3>3. Inside(e) = Thread /\ Early(e) = {}
      BY <2>3, <3>2, AllInside
    <3>4. vpid[t] = 0
      <4>1. ASSUME vpid[t] # 0
            PROVE  FALSE
        <5>1. PICK r \in Inside(e) : vpid[r] = 0 /\ pc[r] \in {"sense", "scan"}
          BY <4>1, <3>3, <2>n
        <5>2. r = u
          BY <5>1, <2>3 DEF IndexOK
        <5> QED BY <5>1, <5>2, <3>1
      <4> QED BY <4>1
    <3> QED BY <2>3, <3>1, <3>4, <1>c DEF SlotsOK
  <2>4. ASSUME \A u \in Inside(e) : vpid[u] = 0 => pc'[u] \notin {"sense", "scan", "reset"},
               NEW v \in 1 .. num_procs - 1, v >= Cardinality(Early(e))
        PROVE  v - 1 \in childnotready'[0]
    <3>1. \A u \in Inside(e) : vpid[u] = 0 => pc[u] \notin {"sense", "scan", "reset"}
      BY <2>4, <1>i, <1>s, <1>p
    <3>2. v - 1 \in childnotready[0]
      BY <2>4, <3>1 DEF SlotsOK
    <3>3. ASSUME vpid[t] # 0
          PROVE  vpid[t] # v
      <4>1. t \in Early(e)
        BY <2>e, <2>n, <3>1, <3>3
      <4>2. vpid[t] < Cardinality(Early(e)) /\ Cardinality(Early(e)) \in Nat
        BY <4>1, ThreadSets DEF IndexOK, Early
      <4>3. vpid[t] \in Int
        BY Tree DEF TypeInv
      <4> QED BY <4>2, <4>3, <2>4
    <3>4. vpid[t] \in Int
      BY Tree DEF TypeInv
    <3> QED BY <3>2, <3>3, <3>4, <1>c
  <2> QED BY <1>p, <1>s, <2>1, <2>2, <2>3, <2>4 DEF SlotsOK
<1>5. WakeOK(e)'
  <2>1. ASSUME NEW u \in Inside(e), vpid[u] # 0, pc'[u] \notin Asleep
        PROVE  Woken(e, vpid[u])
    <3>1. u # t
      BY <2>1, <1>s, <1>a, <1>b
    <3> QED BY <2>1, <3>1, <1>i, <1>s DEF WakeOK
  <2>2. ASSUME NEW v \in Node \ {0}, ~Woken(e, v)
        PROVE  /\ \E h \in Inside(e) : vpid[h] = v /\ pc'[h] \in Asleep
               /\ \E u \in Node, c \in {0, 1} :
                    /\ childpointer(u, c) = v
                    /\ \E p \in Inside(e) : vpid[p] = u /\ pc'[p] \in Before(c)
    <3>1. PICK h \in Inside(e) : vpid[h] = v /\ pc[h] \in Asleep
      BY <2>2 DEF WakeOK
    <3>2. pc'[h] \in Asleep
      BY <3>1, <1>i, <1>s, <1>a, <1>b
    <3>3. PICK u \in Node, c \in {0, 1} :
             childpointer(u, c) = v /\ \E p \in Inside(e) : vpid[p] = u /\ pc[p] \in Before(c)
      BY <2>2 DEF WakeOK
    <3>4. PICK p \in Inside(e) : vpid[p] = u /\ pc[p] \in Before(c)
      BY <3>3
    <3>5. pc'[p] \in Before(c)
      BY <3>4, <1>i, <1>s, <1>a, <1>b
    <3> QED BY <3>1, <3>2, <3>3, <3>4, <3>5
  <2> QED BY <2>1, <2>2, <1>p, <1>s DEF WakeOK, Woken
<1> QED BY <1>0, <1>s, <1>1, <1>2, <1>3, <1>4, <1>5

LEMMA WaitStep ==
  ASSUME AtMostFour, TypeInv, NEW e \in Nat, EInv(e), NEW t \in Thread, Wait(t)
  PROVE  TypeInv' /\ EInv(e)'
<1> USE DEF EInv
<1>p. /\ pc[t] = "wait" /\ parentsense[vpid[t]] = sense[t]
      /\ pc' = [pc EXCEPT ![t] = "wake0"]
      /\ UNCHANGED <<vpid_next, sense_init, parentsense, childnotready, vpid, sense, todo,
                     entered, left>>
  BY DEF Wait, shared
<1>b. /\ "wait" \in Asleep
      /\ \A c : "wait" \in Before(c) /\ "wake0" \in Before(c)
  BY DEF Asleep, Before
<1>i. Inside(e) \subseteq Thread
  BY DEF Inside
<1>0. TypeInv'
  BY <1>p DEF TypeInv
<1>s. /\ Early(e)' = Early(e) /\ Inside(e)' = Inside(e)
      /\ IndexOK(e)'
      /\ \A u \in Thread : u # t => pc'[u] = pc[u] /\ Unready(u)' = Unready(u)
      /\ pc'[t] = "wake0"
  BY <1>p, SameEpisode
<1>u. ~Unready(t)' /\ Unready(t)' = Unready(t)
  BY <1>p, <1>s DEF Unready
<1>t. t \in Inside(e) /\ entered[t] = e
  BY EarlyWaits DEF Inside
<1>w. Woken(e, vpid[t])
  BY <1>p, <1>t DEF SenseOK, Woken
<1>1. EpisodeOK(e)'
  BY <1>p, <1>s, <1>t DEF EpisodeOK
<1>2. SenseOK(e)'
  BY <1>p, <1>s DEF SenseOK
<1>3. RootFirst(e)'
  <2>1. ASSUME NEW u \in Inside(e), Unready(u)'
        PROVE  \E r \in Inside(e) : vpid[r] = 0 /\ pc'[r] \in {"sense", "scan"}
    <3>1. Unready(u)
      BY <2>1, <1>i, <1>s, <1>u
    <3>2. PICK r \in Inside(e) : vpid[r] = 0 /\ pc[r] \in {"sense", "scan"}
      BY <3>1 DEF RootFirst
    <3>3. pc'[r] \in {"sense", "scan"}
      BY <3>2, <1>i, <1>p, <1>s
    <3> QED BY <3>2, <3>3
  <2>2. ASSUME NEW r \in Inside(e), vpid[r] = 0, pc'[r] \in Before(0)
        PROVE  Inside(e) = Thread /\ (1 \in Node => ~Woken(e, 1))
    <3>1. pc[r] \in Before(0)
      BY <2>2, <1>i, <1>s, <1>p, <1>b
    <3> QED BY <2>2, <3>1 DEF RootFirst
  <2> QED BY <2>1, <2>2, <1>p, <1>s DEF RootFirst, Woken
<1>4. SlotsOK(e)'
  <2>1. \A u \in Thread : Unready(u)' = Unready(u)
    BY <1>s, <1>u
  <2>2. \A u \in Thread : \A q \in {"sense", "scan", "reset"} : pc'[u] = q <=> pc[u] = q
    BY <1>s, <1>p
  <2> QED BY <1>p, <1>s, <1>i, <2>1, <2>2 DEF SlotsOK
<1>5. WakeOK(e)'
  <2>1. ASSUME NEW u \in Inside(e), vpid[u] # 0, pc'[u] \notin Asleep
        PROVE  Woken(e, vpid[u])
    BY <2>1, <1>i, <1>s, <1>w DEF WakeOK
  <2>2. ASSUME NEW v \in Node \ {0}, ~Woken(e, v)
        PROVE  /\ \E h \in Inside(e) : vpid[h] = v /\ pc'[h] \in Asleep
               /\ \E u \in Node, c \in {0, 1} :
                    /\ childpointer(u, c) = v
                    /\ \E p \in Inside(e) : vpid[p] = u /\ pc'[p] \in Before(c)
    <3>1. PICK h \in Inside(e) : vpid[h] = v /\ pc[h] \in Asleep
      BY <2>2 DEF WakeOK
    <3>2. pc'[h] \in Asleep
      BY <2>2, <3>1, <1>i, <1>s, <1>w
    <3>3. PICK u \in Node, c \in {0, 1} :
             childpointer(u, c) = v /\ \E p \in Inside(e) : vpid[p] = u /\ pc[p] \in Before(c)
      BY <2>2 DEF WakeOK
    <3>4. PICK p \in Inside(e) : vpid[p] = u /\ pc[p] \in Before(c)
      BY <3>3
    <3>5. pc'[p] \in Before(c)
      BY <3>4, <1>i, <1>s, <1>b
    <3> QED BY <3>1, <3>2, <3>3, <3>4, <3>5
  <2> QED BY <2>1, <2>2, <1>p, <1>s DEF WakeOK, Woken
<1> QED BY <1>0, <1>s, <1>1, <1>2, <1>3, <1>4, <1>5

(* Flags are set downwards from the root: that of the first child before   *)
(* any other.                                                              *)
LEMMA WakeStep ==
  ASSUME AtMostFour, TypeInv, NEW e \in Nat, EInv(e), NEW t \in Thread,
         NEW c \in {0, 1}, NEW at, NEW next, Wake(t, c, at, next),
         (c = 0 /\ at = "wake0" /\ next = "wake1") \/ (c = 1 /\ at = "wake1" /\ next = "leave")
  PROVE  TypeInv' /\ EInv(e)'
<1> USE DEF EInv
<1> DEFINE n == childpointer(vpid[t], c)
<1>p. /\ pc[t] = at /\ pc' = [pc EXCEPT ![t] = next]
      /\ UNCHANGED <<vpid_next, sense_init, childnotready, vpid, sense, todo, entered, left>>
      /\ n \in Node => parentsense' = [parentsense EXCEPT ![n] = sense[t]]
      /\ n \notin Node => parentsense' = parentsense
  BY DEF Wake
<1>t. t \in Inside(e) /\ sense[t] = e % 2 /\ entered[t] = e
  BY <1>p, LaterInside DEF Inside
<1>v. /\ vpid[t] \in Nat /\ vpid[t] \in Node
      /\ n = 2 * vpid[t] + c + 1
      /\ Node \subseteq Nat
  BY Tree DEF TypeInv, childpointer
<1> HIDE DEF n
<1>b. /\ at \notin Asleep /\ next \notin Asleep
      /\ next \notin Before(0)
      /\ next \in Before(1) <=> c = 0
      /\ at \in Before(0) => c = 0
      /\ next # "out"
  BY DEF Asleep, Before
<1>i. Inside(e) \subseteq Thread
  BY DEF Inside
<1>0. TypeInv'
  <2>1. parentsense' \in [Node -> {0, 1}]
    BY <1>p DEF TypeInv
  <2>2. pc' \in [Thread -> Asleep \cup {"out", "wake0", "wake1", "leave"}]
        /\ \A u \in Thread : pc'[u] \in {"scan", "reset"} => pc'[u] = pc[u]
    BY <1>p DEF TypeInv
  <2> QED BY <1>p, <2>1, <2>2 DEF TypeInv
<1>s. /\ Early(e)' = Early(e) /\ Inside(e)' = Inside(e)
      /\ IndexOK(e)'
      /\ \A u \in Thread : u # t => pc'[u] = pc[u] /\ Unready(u)' = Unready(u)
      /\ pc'[t] = next
  BY <1>p, <1>b, SameEpisode
<1>u. ~Unready(t)' /\ Unready(t)' = Unready(t)
  BY <1>p, <1>s DEF Unready
<1>w. \A v \in Node : Woken(e, v)' <=> Woken(e, v) \/ v = n
  BY <1>p, <1>t DEF Woken, TypeInv
<1>1. EpisodeOK(e)'
  BY <1>p, <1>s, <1>t, <1>b DEF EpisodeOK
<1>2. SenseOK(e)'
  <2>1. \A u \in Thread : pc'[u] \notin {"out", "sense"} => pc[u] \notin {"out", "sense"}
    BY <1>p, <1>s
  <2> QED BY <1>p, <1>s, <2>1 DEF SenseOK
<1>3. RootFirst(e)'
  <2>1. ASSUME NEW u \in Inside(e), Unready(u)'
        PROVE  \E r \in Inside(e) : vpid[r] = 0 /\ pc'[r] \in {"sense", "scan"}
    <3>1. Unready(u)
      BY <2>1, <1>i, <1>s, <1>u
    <3>2. PICK r \in Inside(e) : vpid[r] = 0 /\ pc[r] \in {"sense", "scan"}
      BY <3>1 DEF RootFirst
    <3>3. pc'[r] \in {"sense", "scan"}
      BY <3>2, <1>i, <1>p, <1>s
    <3> QED BY <3>2, <3>3
  <2>2. ASSUME NEW r \in Inside(e), vpid[r] = 0, pc'[r] \in Before(0)
        PROVE  Inside(e) = Thread /\ (1 \in Node => ~Woken(e, 1)')
    <3>1. r # t
      BY <2>2, <1>s, <1>b
    <3>2. pc[r] \in Before(0)
      BY <2>2, <3>1, <1>i, <1>s
    <3>3. vpid[t] # 0
      BY <3>1, <2>2, <1>t DEF IndexOK
    <3>4. n # 1
      BY <3>3, <1>v
    <3> QED BY <2>2, <3>2, <3>4, <1>w DEF RootFirst
  <2> QED BY <2>1, <2>2, <1>p, <1>s DEF RootFirst
<1>4. SlotsOK(e)'
  <2>1. \A u \in Thread : Unready(u)' = Unready(u)
    BY <1>s, <1>u
  <2>2. \A u \in Thread : \A q \in {"sense", "scan", "reset"} : pc'[u] = q <=> pc[u] = q
    BY <1>s, <1>p
  <2> QED BY <1>p, <1>s, <1>i, <2>1, <2>2 DEF SlotsOK
<1>5. WakeOK(e)'
  <2>1. ASSUME NEW u \in Inside(e), vpid[u] # 0, pc'[u] \notin Asleep
        PROVE  Woken(e, vpid[u])'
    <3>1. pc[u] \notin Asleep
      BY <2>1, <1>i, <1>s, <1>p, <1>b
    <3>2. Woken(e, vpid[u]) /\ vpid[u] \in Node
      BY <2>1, <3>1, <1>i DEF WakeOK, TypeInv
    <3>3. parentsense'[vpid[u]] = e % 2
      BY <3>2, <1>w DEF Woken
    <3> QED BY <3>3, <1>p DEF Woken
  <2>2. ASSUME NEW v \in Node \ {0}, ~Woken(e, v)'
        PROVE  /\ \E h \in Inside(e) : vpid[h] = v /\ pc'[h] \in Asleep
               /\ \E u \in Node, d \in {0, 1} :
                    /\ childpointer(u, d) = v
                    /\ \E p \in Inside(e) : vpid[p] = u /\ pc'[p] \in Before(d)
    <3>0. ~Woken(e, v) /\ v # n
      BY <2>2, <1>w
    <3>1. PICK h \in Inside(e) : vpid[h] = v /\ pc[h] \in Asleep
      BY <3>0 DEF WakeOK
    <3>2. pc'[h] \in Asleep
      BY <3>1, <1>i, <1>s, <1>p, <1>b
    <3>3. PICK u \in Node, d \in {0, 1} :
             childpointer(u, d) = v /\ \E p \in Inside(e) : vpid[p] = u /\ pc[p] \in Before(d)
      BY <3>0 DEF WakeOK
    <3>4. PICK p \in Inside(e) : vpid[p] = u /\ pc[p] \in Before(d)
      BY <3>3
    <3>5. pc'[p] \in Before(d)
      <4>1. CASE p = t
        <5>1. d # c
          BY <4>1, <3>0, <3>3, <3>4 DEF n
        <5> QED BY <4>1, <5>1, <3>4, <1>p, <1>s, <1>b
      <4>2. CASE p # t
        BY <4>2, <3>4, <1>i, <1>s
      <4> QED BY <4>1, <4>2
    <3> QED BY <3>1, <3>2, <3>3, <3>4, <3>5
  <2>3. ASSUME NEW v \in Node \ {0}, Woken(e, v)'
        PROVE  Woken(e, 1)'
    <3>0. 1 \in Node
      BY Tree
    <3>1. CASE Woken(e, v)
      BY <3>0, <3>1, <1>w DEF WakeOK
    <3>2. CASE v = n /\ vpid[t] # 0
      <4>1. Woken(e, vpid[t])
        BY <3>2, <1>t, <1>p, <1>b DEF WakeOK
      <4> QED BY <3>0, <3>2, <4>1, <1>v, <1>w DEF WakeOK
    <3>3. CASE v = n /\ vpid[t] = 0 /\ c = 0
      BY <3>0, <3>3, <1>v, <1>w
    <3>4. CASE v = n /\ vpid[t] = 0 /\ c = 1
      <4> SUFFICES ASSUME ~Woken(e, 1) PROVE FALSE
        BY <3>0, <1>w
      <4>1. PICK u \in Node, d \in {0, 1} :
               childpointer(u, d) = 1 /\ \E p \in Inside(e) : vpid[p] = u /\ pc[p] \in Before(d)
        BY <3>0 DEF WakeOK
      <4>2. u = 0 /\ d = 0
        BY <4>1, <1>v DEF childpointer
      <4>3. PICK p \in Inside(e) : vpid[p] = 0 /\ pc[p] \in Before(0)
        BY <4>1, <4>2
      <4>4. p = t
        BY <4>3, <3>4, <1>t DEF IndexOK
      <4> QED BY <4>3, <4>4, <3>4, <1>p, <1>b
    <3> QED BY <2>3, <3>1, <3>2, <3>3, <3>4, <1>w
  <2> QED BY <2>1, <2>2, <2>3, <1>p, <1>s DEF WakeOK
<1> QED BY <1>0, <1>s, <1>1, <1>2, <1>3, <1>4, <1>5

LEMMA LeaveStep ==
  ASSUME AtMostFour, TypeInv, NEW e \in Nat, EInv(e), NEW t \in Thread, Leave(t)
  PROVE  TypeInv' /\ EInv(e)'
<1> USE DEF EInv
<1>p. /\ pc[t] = "leave" /\ pc' = [pc EXCEPT ![t] = "out"]
      /\ sense_init' = 1 - sense[t] /\ left' = [left EXCEPT ![t] = @ + 1]
      /\ UNCHANGED <<vpid_next, parentsense, childnotready, vpid, sense, todo, entered>>
  BY DEF Leave
<1>t. t \in Inside(e) /\ sense[t] = e % 2 /\ entered[t] = e /\ left[t] = e - 1
  BY <1>p, LaterInside, WhichEpisode
<1>b. "leave" \notin Asleep /\ \A c : "leave" \notin Before(c)
  BY DEF Asleep, Before
<1>i. Inside(e) \subseteq Thread
  BY DEF Inside
<1>c. pc'[t] = "out" /\ \A u \in Thread : u # t => pc'[u] = pc[u]
  BY <1>p DEF TypeInv
<1>l. left'[t] = e /\ \A u \in Thread : u # t => left'[u] = left[u]
  BY <1>p, <1>t DEF TypeInv
<1>0. TypeInv'
  <2>1. left' \in [Thread -> 0 .. Episodes]
    <3>1. e \in 0 .. Episodes
      BY <1>t DEF TypeInv
    <3> QED BY <1>p, <1>l, <3>1 DEF TypeInv
  <2>2. sense_init' \in {0, 1}
    BY <1>p, <1>t, Parity
  <2>3. pc' \in [Thread -> Asleep \cup {"out", "wake0", "wake1", "leave"}]
        /\ \A u \in Thread : pc'[u] \in {"scan", "reset"} => pc'[u] = pc[u]
    BY <1>p DEF TypeInv
  <2> QED BY <1>p, <2>1, <2>2, <2>3 DEF TypeInv
<1>s. Early(e)' = Early(e) /\ Inside(e)' = Inside(e) \ {t}
  <2>1. Early(e)' = Early(e)
    BY <1>p DEF Early
  <2>2. Inside(e)' = Inside(e) \ {t}
    BY <1>p, <1>c DEF Inside
  <2> QED BY <2>1, <2>2
<1>u. /\ ~Unready(t)' /\ ~Unready(t)
      /\ \A u \in Thread : Unready(u)' = Unready(u)
  BY <1>p, <1>c DEF Unready
<1>1. EpisodeOK(e)'
  BY <1>p, <1>c, <1>l, <1>t DEF EpisodeOK
<1>x. IndexOK(e)'
  BY <1>p, <1>s DEF IndexOK
<1>2. SenseOK(e)'
  <2>1. sense_init' = (e + 1) % 2 /\ Inside(e) \ {t} # Thread
    BY <1>p, <1>t, Parity
  <2>2. \A u \in Thread : pc'[u] \notin {"out", "sense"} => pc[u] \notin {"out", "sense"}
    BY <1>p, <1>c
  <2> QED BY <1>p, <1>s, <2>1, <2>2 DEF SenseOK
<1>3. RootFirst(e)'
  <2>1. ASSUME NEW u \in Inside(e) \ {t}, Unready(u)'
        PROVE  \E r \in Inside(e) \ {t} : vpid[r] = 0 /\ pc'[r] \in {"sense", "scan"}
    <3>1. Unready(u)
      BY <2>1, <1>i, <1>u
    <3>2. PICK r \in Inside(e) : vpid[r] = 0 /\ pc[r] \in {"sense", "scan"}
      BY <3>1 DEF RootFirst
    <3>3. r # t /\ pc'[r] \in {"sense", "scan"}
      BY <3>2, <1>i, <1>p, <1>c
    <3> QED BY <3>2, <3>3
  <2>2. ASSUME NEW r \in Inside(e) \ {t}, vpid[r] = 0, pc'[r] \in Before(0)
        PROVE  FALSE
    <3>1. pc[r] \in Before(0)
      BY <2>2, <1>i, <1>c
    <3>2. 1 \in Node => ~Woken(e, 1)
      BY <2>2, <3>1 DEF RootFirst
    <3>3. vpid[t] \in Node \ {0}
      BY <2>2, <1>t DEF IndexOK, TypeInv
    <3>4. Woken(e, vpid[t])
      BY <3>3, <1>t, <1>p, <1>b DEF WakeOK
    <3>5. 1 \in Node
      BY <3>3, Tree
    <3> QED BY <3>2, <3>3, <3>4, <3>5 DEF WakeOK
  <2> QED BY <2>1, <2>2, <1>p, <1>s DEF RootFirst
<1>4. SlotsOK(e)'
  <2>1. \A u \in Thread : \A q \in {"sense", "scan", "reset"} : pc'[u] = q <=> pc[u] = q
    BY <1>c, <1>p
  <2>2. ASSUME \A u \in Inside(e) \ {t} : vpid[u] = 0 => pc'[u] \notin {"sense", "scan", "reset"}
        PROVE  \A u \in Inside(e) : vpid[u] = 0 => pc[u] \notin {"sense", "scan", "reset"}
    BY <2>2, <1>i, <1>c, <1>p
  <2>3. ASSUME \A u \in Inside(e) \ {t} : vpid[u] = 0 => pc'[u] \notin {"sense", "scan", "reset"},
               NEW v \in 1 .. num_procs - 1, v >= Cardinality(Early(e))
        PROVE  v - 1 \in childnotready[0]
    BY <2>2, <2>3 DEF SlotsOK
  <2> QED BY <1>p, <1>s, <1>u, <1>i, <2>1, <2>3 DEF SlotsOK
<1>5. WakeOK(e)'
  <2>1. ASSUME NEW u \in Inside(e) \ {t}, vpid[u] # 0, pc'[u] \notin Asleep
        PROVE  Woken(e, vpid[u])
    BY <2>1, <1>i, <1>c DEF WakeOK
  <2>2. ASSUME NEW v \in Node \ {0}, ~Woken(e, v)
        PROVE  /\ \E h \in Inside(e) \ {t} : vpid[h] = v /\ pc'[h] \in Asleep
               /\ \E u \in Node, c \in {0, 1} :
                    /\ childpointer(u, c) = v
                    /\ \E p \in Inside(e) \ {t} : vpid[p] = u /\ pc'[p] \in Before(c)
    <3>1. PICK h \in Inside(e) : vpid[h] = v /\ pc[h] \in Asleep
      BY <2>2 DEF WakeOK
    <3>2. h # t /\ pc'[h] \in Asleep
      BY <3>1, <1>i, <1>p, <1>c, <1>b
    <3>3. PICK u \in Node, c \in {0, 1} :
             childpointer(u, c) = v /\ \E p \in Inside(e) : vpid[p] = u /\ pc[p] \in Before(c)
      BY <2>2 DEF WakeOK
    <3>4. PICK p \in Inside(e) : vpid[p] = u /\ pc[p] \in Before(c)
      BY <3>3
    <3>5. p # t /\ pc'[p] \in Before(c)
      BY <3>4, <1>i, <1>p, <1>c, <1>b
    <3> QED BY <3>1, <3>2, <3>3, <3>4, <3>5
  <2> QED BY <2>1, <2>2, <1>p, <1>s DEF WakeOK, Woken
<1> QED BY <1>0, <1>x, <1>1, <1>2, <1>3, <1>4, <1>5

-----------------------------------------------------------------------------
(* A call takes the next index. *)

(* The index after the last one taken in this episode, and all of them     *)
(* before vpid_next comes round.                                           *)
LEMMA NextIndex ==
  ASSUME AtMostFour, IndicesSuffice, NEW e \in Nat, e < Episodes,
         NEW k \in Nat, k < num_procs, vpid_next \in 0 .. VpidWrap - 1,
         vpid_next % num_procs = k,
         VpidWrap % num_procs # 0 => vpid_next = num_procs * e + k,
         NEW next, next = (vpid_next + 1) % VpidWrap
  PROVE  /\ next \in 0 .. VpidWrap - 1
         /\ k + 1 < num_procs =>
              /\ next % num_procs = k + 1
              /\ VpidWrap % num_procs # 0 => next = num_procs * e + k + 1
         /\ k + 1 = num_procs =>
              /\ next % num_procs = 0
              /\ VpidWrap % num_procs # 0 => next = num_procs * (e + 1) + 0
<1>0. num_procs \in 1 .. 4 /\ VpidWrap \in Nat \ {0} /\ Episodes \in Nat
  BY Tree, VpidWrapAssumption, NumProcsAssumption, EpisodesAssumption
<1>1. next = IF vpid_next + 1 = VpidWrap THEN 0 ELSE vpid_next + 1
  BY <1>0
<1>2. CASE num_procs = 1
  BY <1>0, <1>1, <1>2 DEF IndicesSuffice
<1>3. CASE num_procs = 2
  BY <1>0, <1>1, <1>3 DEF IndicesSuffice
<1>4. CASE num_procs = 3
  BY <1>0, <1>1, <1>4 DEF IndicesSuffice
<1>5. CASE num_procs = 4
  BY <1>0, <1>1, <1>5 DEF IndicesSuffice
<1> QED BY <1>0, <1>2, <1>3, <1>4, <1>5

(* What a call does, whether or not it is the last one of its episode. *)
LEMMA CallFacts ==
  ASSUME AtMostFour, IndicesSuffice, TypeInv, NEW e \in Nat, EInv(e), NEW t \in Thread, Call(t),
         NEW k, k = Cardinality(Early(e))
  PROVE  /\ TypeInv'
         /\ entered[t] = e /\ e < Episodes /\ left[t] = e
         /\ t \notin Inside(e) /\ t \notin Early(e)
         /\ k \in Nat /\ k < num_procs /\ k \in Node
         /\ vpid'[t] = k /\ entered'[t] = e + 1 /\ pc'[t] = "sense"
         /\ \A u \in Thread : u # t =>
              vpid'[u] = vpid[u] /\ entered'[u] = entered[u] /\ pc'[u] = pc[u]
         /\ Early(e)' = Early(e) \cup {t}
         /\ Cardinality(Early(e)') = k + 1
         /\ k + 1 <= num_procs
         /\ k + 1 = num_procs => Early(e)' = Thread
         /\ \A r \in Inside(e) : vpid[r] = 0 => pc[r] \notin Before(0)
         /\ UNCHANGED <<sense_init, parentsense, childnotready, sense, todo, left>>
<1> USE DEF EInv
<1>p. /\ pc[t] = "out" /\ entered[t] < Episodes
      /\ vpid' = [vpid EXCEPT ![t] = vpid_next % num_procs]
      /\ vpid_next' = (vpid_next + 1) % VpidWrap
      /\ pc' = [pc EXCEPT ![t] = "sense"]
      /\ entered' = [entered EXCEPT ![t] = @ + 1]
      /\ UNCHANGED <<sense_init, parentsense, childnotready, sense, todo, left>>
  BY DEF Call
<1>1. entered[t] = e /\ left[t] = e
  <2>1. "out" \notin Asleep
    BY DEF Asleep
  <2> QED BY <1>p, <2>1 DEF EpisodeOK
<1>2. t \notin Inside(e) /\ t \notin Early(e)
  BY <1>1, <1>p DEF Inside, Early
<1>3. k \in Nat /\ k < num_procs /\ Early(e) \subseteq Thread /\ IsFiniteSet(Early(e))
  BY ThreadSets DEF Early, IndexOK
<1>4. k \in Node
  BY <1>3, Tree
<1>5. /\ vpid'[t] = k /\ entered'[t] = e + 1 /\ pc'[t] = "sense"
      /\ \A u \in Thread : u # t =>
              vpid'[u] = vpid[u] /\ entered'[u] = entered[u] /\ pc'[u] = pc[u]
  BY <1>p, <1>1 DEF TypeInv, IndexOK
<1>6. Early(e)' = Early(e) \cup {t}
  BY <1>5 DEF Early
<1>7. Cardinality(Early(e) \cup {t}) = k + 1
  BY <1>2, <1>3, FS_AddElement
<1>8. k + 1 <= num_procs /\ (k + 1 = num_procs => Early(e) \cup {t} = Thread)
  BY <1>3, <1>7, ThreadSets, Early(e) \cup {t} \subseteq Thread
<1>9. ASSUME NEW r \in Inside(e), vpid[r] = 0
      PROVE  pc[r] \notin Before(0)
  BY <1>9, <1>2, AllInside
<1>10. e < Episodes
  BY <1>p, <1>1
<1>11. TypeInv'
  <2>1. vpid_next' \in 0 .. VpidWrap - 1
    BY <1>p, VpidWrapAssumption, NumProcsAssumption DEF TypeInv
  <2>2. vpid' \in [Thread -> Node] /\ pc' \in [Thread -> Asleep \cup {"out", "wake0", "wake1", "leave"}]
    <3>1. vpid_next % num_procs \in Node
      BY <1>4 DEF IndexOK
    <3> QED BY <1>p, <3>1 DEF TypeInv, Asleep
  <2>3. entered' \in [Thread -> 0 .. Episodes]
    BY <1>p, EpisodesAssumption DEF TypeInv
  <2>4. \A u \in Thread : pc'[u] \in {"scan", "reset"} => todo'[u] \subseteq havechild(vpid'[u])
    BY <1>5, <1>p DEF TypeInv
  <2> QED BY <1>p, <2>1, <2>2, <2>3, <2>4 DEF TypeInv
<1> QED BY <1>p, <1>1, <1>2, <1>3, <1>4, <1>5, <1>6, <1>7, <1>8, <1>9, <1>10, <1>11

(* The indices taken in the new episode, the one just taken included. *)
LEMMA CallIndices ==
  ASSUME AtMostFour, IndicesSuffice, TypeInv, NEW e \in Nat, EInv(e), NEW t \in Thread, Call(t),
         NEW k, k = Cardinality(Early(e))
  PROVE  /\ \A u \in Early(e) \cup {t} : vpid'[u] < k + 1
         /\ \A i \in 0 .. k : \E u \in Early(e) \cup {t} : vpid'[u] = i
         /\ \A u, w \in Early(e) \cup {t} : vpid'[u] = vpid'[w] => u = w
         /\ \A u \in Early(e) \cup {t} :
              /\ pc'[u] \in Asleep
              /\ vpid'[u] = 0 => pc'[u] \in {"sense", "scan"}
         /\ \A u \in Thread : Unready(u)' /\ vpid'[u] # 0 => vpid'[u] - 1 \in childnotready[0]
<1>f. /\ t \notin Early(e) /\ t \notin Inside(e)
      /\ k \in Nat /\ k < num_procs /\ k \in Node
      /\ vpid'[t] = k /\ pc'[t] = "sense"
      /\ \A u \in Thread : u # t => vpid'[u] = vpid[u] /\ pc'[u] = pc[u]
      /\ \A r \in Inside(e) : vpid[r] = 0 => pc[r] \notin Before(0)
  BY CallFacts
<1>e. /\ Early(e) \subseteq Thread
      /\ \A u \in Early(e) : u # t /\ vpid'[u] = vpid[u] /\ pc'[u] = pc[u] /\ vpid[u] \in Int
  BY <1>f, Tree DEF Early, TypeInv
<1>i. /\ \A u \in Early(e) : vpid[u] < k
      /\ \A i \in 0 .. k - 1 : \E u \in Early(e) : vpid[u] = i
      /\ \A u, w \in Early(e) : vpid[u] = vpid[w] => u = w
  BY DEF EInv, IndexOK
<1>1. \A u \in Early(e) \cup {t} : vpid'[u] < k + 1
  BY <1>f, <1>e, <1>i
<1>2. ASSUME NEW i \in 0 .. k
      PROVE  \E u \in Early(e) \cup {t} : vpid'[u] = i
  <2>1. CASE i = k
    BY <2>1, <1>f
  <2>2. CASE i # k
    <3>1. i \in 0 .. k - 1
      BY <2>2, <1>f
    <3> QED BY <3>1, <1>e, <1>i
  <2> QED BY <2>1, <2>2
<1>3. \A u, w \in Early(e) \cup {t} : vpid'[u] = vpid'[w] => u = w
  BY <1>f, <1>e, <1>i
<1>4. ASSUME NEW u \in Early(e) \cup {t}
      PROVE  /\ pc'[u] \in Asleep
             /\ vpid'[u] = 0 => pc'[u] \in {"sense", "scan"}
  <2>1. CASE u = t
    BY <2>1, <1>f DEF Asleep
  <2>2. CASE u \in Early(e)
    BY <2>2, <1>e DEF EInv, EpisodeOK, Early
  <2> QED BY <2>1, <2>2
<1>5. ASSUME NEW u \in Thread, Unready(u)', vpid'[u] # 0
      PROVE  vpid'[u] - 1 \in childnotready[0]
  <2>1. CASE u = t
    <3>1. \A r \in Inside(e) : vpid[r] = 0 => pc[r] \notin {"sense", "scan", "reset"}
      BY <1>f DEF Before, Asleep
    <3>2. k \in 1 .. num_procs - 1 /\ k >= k
      BY <1>5, <2>1, <1>f, NumProcsAssumption
    <3> QED BY <2>1, <3>1, <3>2, <1>f DEF EInv, SlotsOK
  <2>2. CASE u # t
    <3>1. Unready(u) /\ vpid[u] # 0 /\ vpid'[u] = vpid[u]
      BY <2>2, <1>5, <1>f DEF Unready
    <3> QED BY <3>1 DEF EInv, SlotsOK
  <2> QED BY <2>1, <2>2
<1> QED BY <1>1, <1>2, <1>3, <1>4, <1>5

(* Somebody has yet to enter. *)
LEMMA CallStep ==
  ASSUME AtMostFour, IndicesSuffice, TypeInv, NEW e \in Nat, EInv(e), NEW t \in Thread, Call(t),
         Cardinality(Early(e)) + 1 # num_procs
  PROVE  EInv(e)'
<1> USE DEF EInv
<1> DEFINE k == Cardinality(Early(e))
<1>f. /\ entered[t] = e /\ left[t] = e /\ e < Episodes
      /\ t \notin Inside(e) /\ t \notin Early(e)
      /\ k \in Nat /\ k < num_procs /\ k \in Node
      /\ vpid'[t] = k /\ entered'[t] = e + 1 /\ pc'[t] = "sense"
      /\ \A u \in Thread : u # t =>
           vpid'[u] = vpid[u] /\ entered'[u] = entered[u] /\ pc'[u] = pc[u]
      /\ Early(e)' = Early(e) \cup {t}
      /\ Cardinality(Early(e)') = k + 1
      /\ k + 1 <= num_procs
      /\ \A r \in Inside(e) : vpid[r] = 0 => pc[r] \notin Before(0)
      /\ UNCHANGED <<sense_init, parentsense, childnotready, sense, todo, left>>
  BY CallFacts
<1>g. /\ \A u \in Early(e) \cup {t} : vpid'[u] < k + 1
      /\ \A i \in 0 .. k : \E u \in Early(e) \cup {t} : vpid'[u] = i
      /\ \A u, w \in Early(e) \cup {t} : vpid'[u] = vpid'[w] => u = w
      /\ \A u \in Early(e) \cup {t} :
              /\ pc'[u] \in Asleep
              /\ vpid'[u] = 0 => pc'[u] \in {"sense", "scan"}
      /\ \A u \in Thread : Unready(u)' /\ vpid'[u] # 0 => vpid'[u] - 1 \in childnotready[0]
  BY CallIndices
<1>n. vpid_next' % num_procs = k + 1
      /\ (VpidWrap % num_procs # 0 => vpid_next' = num_procs * e + k + 1)
  <2>1. k + 1 < num_procs
    BY <1>f, NumProcsAssumption
  <2>2. /\ vpid_next % num_procs = k /\ vpid_next \in 0 .. VpidWrap - 1
        /\ VpidWrap % num_procs # 0 => vpid_next = num_procs * e + k
        /\ vpid_next' = (vpid_next + 1) % VpidWrap
    BY DEF IndexOK, TypeInv, Call
  <2> HIDE DEF k
  <2> QED BY <2>1, <2>2, <1>f, NextIndex
<1> HIDE DEF k
<1>i. Inside(e)' = Inside(e) /\ Inside(e) \subseteq Thread
  BY <1>f DEF Inside
<1>u. \A u \in Inside(e) : u # t /\ vpid'[u] = vpid[u] /\ pc'[u] = pc[u] /\ Unready(u)' = Unready(u)
  BY <1>f, <1>i DEF Unready
<1>1. EpisodeOK(e)'
  BY <1>f, <1>g DEF EpisodeOK, Early
<1>2. IndexOK(e)'
  <2>1. k + 1 < num_procs /\ (k + 1) - 1 = k
    BY <1>f, NumProcsAssumption DEF k
  <2>2. \A u, w \in Inside(e) : vpid'[u] = vpid'[w] => u = w
    BY <1>u DEF IndexOK
  <2>3. \A i \in 0 .. (k + 1) - 1 : \E u \in Early(e) \cup {t} : vpid'[u] = i
    BY <1>g, <2>1
  <2>4. VpidWrap % num_procs # 0 => vpid_next' = num_procs * e + (k + 1)
    <3>1. \A x, y \in Int : x + y + 1 = x + (y + 1)
      OBVIOUS
    <3>2. num_procs * e \in Int /\ k \in Int
      BY <1>f, NumProcsAssumption
    <3> QED BY <1>n, <3>1, <3>2
  <2> DEFINE m == k + 1
  <2>5. /\ m < num_procs /\ Cardinality(Early(e)') = m
        /\ vpid_next' % num_procs = m
        /\ VpidWrap % num_procs # 0 => vpid_next' = num_procs * e + m
        /\ \A u \in Early(e) \cup {t} : vpid'[u] < m
        /\ \A i \in 0 .. m - 1 : \E u \in Early(e) \cup {t} : vpid'[u] = i
    BY <1>f, <1>g, <1>n, <2>1, <2>3, <2>4 DEF k
  <2> HIDE DEF m
  <2>6. \A u, w \in Early(e)' : vpid'[u] = vpid'[w] => u = w
    BY <1>f, <1>g
  <2>7. /\ \A u \in Early(e)' : vpid'[u] < m
        /\ \A i \in 0 .. m - 1 : \E u \in Early(e)' : vpid'[u] = i
    BY <1>f, <2>5
  <2>8. \A u, w \in Inside(e)' : vpid'[u] = vpid'[w] => u = w
    BY <1>i, <2>2
  <2>9. /\ Cardinality(Early(e)') < num_procs
        /\ vpid_next' % num_procs = Cardinality(Early(e)')
        /\ VpidWrap % num_procs # 0 => vpid_next' = num_procs * e + Cardinality(Early(e)')
    BY <2>5
  <2>10. /\ \A u \in Early(e)' : vpid'[u] < Cardinality(Early(e)')
         /\ \A i \in 0 .. Cardinality(Early(e)') - 1 : \E u \in Early(e)' : vpid'[u] = i
    BY <2>5, <2>7
  <2> QED BY <2>6, <2>8, <2>9, <2>10 DEF IndexOK
<1>3. SenseOK(e)'
  <2>1. \A u \in Thread : pc'[u] \notin {"out", "sense"} =>
          pc[u] \notin {"out", "sense"} /\ entered'[u] = entered[u]
    BY <1>f
  <2> QED BY <1>f, <1>i, <2>1 DEF SenseOK
<1>4. RootFirst(e)'
  <2>1. ASSUME NEW u \in Inside(e), Unready(u)
        PROVE  FALSE
    BY <2>1, <1>f, UnreadyInside
  <2> QED BY <1>f, <1>i, <1>u, <2>1 DEF RootFirst
<1>5. SlotsOK(e)'
  <2>1. ASSUME NEW u \in Thread, vpid'[u] = 0, pc'[u] = "scan"
        PROVE  \A j \in havechild(0) \ todo[u] : j \notin childnotready[0]
    BY <2>1, <1>f DEF SlotsOK
  <2>2. ASSUME NEW u \in Inside(e), vpid'[u] = 0, pc'[u] = "reset"
        PROVE  havechild(0) \subseteq childnotready[0] \cup todo[u]
    BY <2>2, <1>u DEF SlotsOK
  <2>3. ASSUME NEW v \in 1 .. num_procs - 1, v >= k + 1
        PROVE  v - 1 \in childnotready[0]
    <3>1. \A r \in Inside(e) : vpid[r] = 0 => pc[r] \notin {"sense", "scan", "reset"}
      BY <1>f DEF Before, Asleep
    <3>2. v >= k
      BY <2>3, <1>f
    <3> QED BY <3>1, <3>2 DEF SlotsOK, k
  <2> QED BY <1>f, <1>g, <1>i, <2>1, <2>2, <2>3 DEF SlotsOK
<1>6. WakeOK(e)'
  <2>1. ASSUME NEW u \in Inside(e), vpid'[u] # 0, pc'[u] \notin Asleep
        PROVE  Woken(e, vpid'[u])
    BY <2>1, <1>u DEF WakeOK
  <2>2. ASSUME NEW v \in Node \ {0}, ~Woken(e, v)
        PROVE  /\ \E h \in Inside(e) : vpid'[h] = v /\ pc'[h] \in Asleep
               /\ \E u \in Node, c \in {0, 1} :
                    /\ childpointer(u, c) = v
                    /\ \E p \in Inside(e) : vpid'[p] = u /\ pc'[p] \in Before(c)
    <3>1. PICK h \in Inside(e) : vpid[h] = v /\ pc[h] \in Asleep
      BY <2>2 DEF WakeOK
    <3>3. PICK u \in Node, c \in {0, 1} :
             childpointer(u, c) = v /\ \E p \in Inside(e) : vpid[p] = u /\ pc[p] \in Before(c)
      BY <2>2 DEF WakeOK
    <3>4. PICK p \in Inside(e) : vpid[p] = u /\ pc[p] \in Before(c)
      BY <3>3
    <3> QED BY <3>1, <3>3, <3>4, <1>u
  <2> QED BY <2>1, <2>2, <1>f, <1>i DEF WakeOK, Woken
<1> QED BY <1>1, <1>2, <1>3, <1>4, <1>5, <1>6

(* The last one enters: everybody has left the episode before, so all      *)
(* flags are set, and seen from the new episode none is.                   *)
LEMMA LastCallStep ==
  ASSUME AtMostFour, IndicesSuffice, TypeInv, NEW e \in Nat, EInv(e), NEW t \in Thread, Call(t),
         Cardinality(Early(e)) + 1 = num_procs
  PROVE  EInv(e + 1)'
<1> USE DEF EInv
<1> DEFINE k == Cardinality(Early(e))
<1>f. /\ entered[t] = e /\ left[t] = e /\ e < Episodes
      /\ t \notin Inside(e) /\ t \notin Early(e)
      /\ k \in Nat /\ k < num_procs /\ k \in Node
      /\ vpid'[t] = k /\ entered'[t] = e + 1 /\ pc'[t] = "sense"
      /\ \A u \in Thread : u # t =>
           vpid'[u] = vpid[u] /\ entered'[u] = entered[u] /\ pc'[u] = pc[u]
      /\ Early(e)' = Early(e) \cup {t}
      /\ Early(e)' = Thread
      /\ UNCHANGED <<sense_init, parentsense, childnotready, sense, todo, left>>
  BY CallFacts
<1>g. /\ \A i \in 0 .. k : \E u \in Thread : vpid'[u] = i
      /\ \A u, w \in Thread : vpid'[u] = vpid'[w] => u = w
      /\ \A u \in Thread :
              /\ pc'[u] \in Asleep
              /\ vpid'[u] = 0 => pc'[u] \in {"sense", "scan"}
      /\ \A u \in Thread : Unready(u)' /\ vpid'[u] # 0 => vpid'[u] - 1 \in childnotready[0]
  <2>1. Early(e) \cup {t} = Thread
    BY <1>f
  <2> QED BY <2>1, CallIndices
<1>n. vpid_next' % num_procs = 0
      /\ (VpidWrap % num_procs # 0 => vpid_next' = num_procs * (e + 1) + 0)
  <2>2. /\ vpid_next % num_procs = k /\ vpid_next \in 0 .. VpidWrap - 1
        /\ VpidWrap % num_procs # 0 => vpid_next = num_procs * e + k
        /\ vpid_next' = (vpid_next + 1) % VpidWrap
        /\ k + 1 = num_procs
    BY DEF IndexOK, TypeInv, Call
  <2> HIDE DEF k
  <2> QED BY <2>2, <1>f, NextIndex
<1>k. Node = 0 .. k
  BY <1>f, Tree
<1> HIDE DEF k
<1>o. "out" \notin Asleep
  BY DEF Asleep
<1>e. \A u \in Thread : entered'[u] = e + 1 /\ pc'[u] # "out"
  BY <1>f, <1>g, <1>o DEF Early
<1>i. Inside(e + 1)' = Thread /\ Early(e + 1)' = {} /\ Cardinality(Early(e + 1)') = 0
  <2>1. Inside(e + 1)' = Thread
    BY <1>e DEF Inside
  <2>2. Early(e + 1)' = {}
    BY <1>e DEF Early
  <2> QED BY <2>1, <2>2, FS_EmptySet
<1>j. Inside(e) = {}
  <2> SUFFICES ASSUME NEW u \in Inside(e) PROVE FALSE
    OBVIOUS
  <2>1. u \in Thread /\ u \notin Early(e) /\ u # t
    BY <1>f DEF Inside, Early
  <2> QED BY <2>1, <1>f
<1>w. \A v \in Node \ {0} : ~Woken(e + 1, v)'
  <2> SUFFICES ASSUME NEW v \in Node \ {0} PROVE ~Woken(e + 1, v)'
    OBVIOUS
  <2>1. Woken(e, v)
    BY <1>j DEF WakeOK
  <2> QED BY <2>1, <1>f, Parity DEF Woken
<1>1. EpisodeOK(e + 1)'
  <2>1. \A u \in Thread : left[u] = e
    BY <1>f, WhichEpisode, <1>o DEF Early, EpisodeOK
  <2> QED BY <1>e, <1>f, <2>1 DEF EpisodeOK
<1>2. IndexOK(e + 1)'
  <2>1. 0 < num_procs /\ 0 .. 0 - 1 = {}
    BY NumProcsAssumption
  <2> QED BY <1>g, <1>n, <1>i, <2>1 DEF IndexOK
<1>3. SenseOK(e + 1)'
  <2>1. \A u \in Thread : pc'[u] \notin {"out", "sense"} =>
          pc[u] \notin {"out", "sense"} /\ entered'[u] = entered[u]
    BY <1>f
  <2>2. sense_init = (e + 1) % 2
    BY <1>f DEF SenseOK
  <2> QED BY <1>f, <1>i, <2>1, <2>2 DEF SenseOK
<1>r. \A v \in Node : \E h \in Thread : vpid'[h] = v /\ pc'[h] \in Asleep
  BY <1>g, <1>k
<1>z. 0 \in Node
  BY Tree
<1>4. RootFirst(e + 1)'
  <2>1. \E r \in Thread : vpid'[r] = 0 /\ pc'[r] \in {"sense", "scan"}
    BY <1>r, <1>g, <1>z
  <2> QED BY <1>i, <1>w, <2>1 DEF RootFirst
<1>5. SlotsOK(e + 1)'
  <2>1. ASSUME NEW u \in Thread, vpid'[u] = 0, pc'[u] = "scan"
        PROVE  \A j \in havechild(0) \ todo[u] : j \notin childnotready[0]
    BY <2>1, <1>f DEF SlotsOK
  <2>2. \A u \in Thread : vpid'[u] = 0 => pc'[u] # "reset"
    BY <1>g
  <2>3. \E r \in Thread : vpid'[r] = 0 /\ pc'[r] \in {"sense", "scan"}
    BY <1>r, <1>g, <1>z
  <2> QED BY <1>f, <1>g, <1>i, <2>1, <2>2, <2>3 DEF SlotsOK
<1>6. WakeOK(e + 1)'
  <2>1. ASSUME NEW v \in Node \ {0}
        PROVE  \E u \in Node, c \in {0, 1} :
                 /\ childpointer(u, c) = v
                 /\ \E p \in Thread : vpid'[p] = u /\ pc'[p] \in Before(c)
    <3>0. Node = 0 .. num_procs - 1 /\ v \in 1 .. 3 /\ num_procs \in 1 .. 4
      BY Tree
    <3>1. \A u \in Node : \A c \in {0, 1} : \E p \in Thread : vpid'[p] = u /\ pc'[p] \in Before(c)
      BY <1>r DEF Before
    <3>2. \E u \in Node, c \in {0, 1} : childpointer(u, c) = v
      <4>1. CASE v = 1
        <5>1. childpointer(0, 0) = 1
          BY DEF childpointer
        <5> QED BY <4>1, <5>1, <1>z
      <4>2. CASE v = 2
        <5>1. childpointer(0, 1) = 2
          BY DEF childpointer
        <5> QED BY <4>2, <5>1, <1>z
      <4>3. CASE v = 3
        <5>1. childpointer(1, 0) = 3 /\ 1 \in Node
          BY <4>3, <3>0 DEF childpointer
        <5> QED BY <4>3, <5>1
      <4> QED BY <3>0, <4>1, <4>2, <4>3
    <3> QED BY <3>1, <3>2
  <2>2. \A v \in Node \ {0} : \E h \in Thread : vpid'[h] = v /\ pc'[h] \in Asleep
    BY <1>r
  <2> QED BY <1>g, <1>i, <1>w, <2>1, <2>2 DEF WakeOK
<1> QED BY <1>1, <1>2, <1>3, <1>4, <1>5, <1>6

-----------------------------------------------------------------------------
(* The theorems. *)

LEMMA InitInv ==
  ASSUME AtMostFour, Init
  PROVE  IInv
<1>1. TypeInv
  <2>1. /\ 0 \in Node /\ \A n \in Node : havechild(n) \in SUBSET (0 .. 3)
        /\ 0 \in 0 .. Episodes /\ 0 \in 0 .. VpidWrap - 1
    BY Tree, EpisodesAssumption, NumProcsAssumption, VpidWrapAssumption DEF havechild
  <2> QED BY <2>1 DEF Init, TypeInv, Asleep
<1>2. Early(0) = {} /\ Inside(0) = {} /\ Cardinality(Early(0)) = 0
  <2>1. Early(0) = {} /\ Inside(0) = {}
    BY DEF Init, Early, Inside
  <2> QED BY <2>1, FS_EmptySet
<1>3. EpisodeOK(0)
  BY DEF Init, EpisodeOK
<1>4. IndexOK(0)
  <2>1. 0 < num_procs /\ 0 .. 0 - 1 = {} /\ 0 % num_procs = 0 /\ num_procs * 0 + 0 = 0
    BY Tree
  <2> QED BY <1>2, <2>1 DEF Init, IndexOK
<1>5. SenseOK(0)
  <2>1. Inside(0) # Thread
    BY <1>2, NumProcsAssumption DEF Thread
  <2> QED BY <2>1 DEF Init, SenseOK
<1>6. RootFirst(0)
  BY <1>2 DEF RootFirst
<1>7. SlotsOK(0)
  <2>1. \A t \in Thread : vpid[t] = 0 /\ pc[t] = "out"
    BY DEF Init
  <2>2. childnotready[0] = 0 .. num_procs - 2
    BY Tree DEF Init
  <2>3. \A v \in 1 .. num_procs - 1 : v - 1 \in 0 .. num_procs - 2
    BY NumProcsAssumption
  <2> QED BY <1>2, <2>1, <2>2, <2>3 DEF SlotsOK
<1>8. WakeOK(0)
  <2>1. 0 % 2 = 0
    OBVIOUS
  <2>2. \A v \in Node : Woken(0, v)
    BY <2>1 DEF Init, Woken
  <2>3. \A v \in Node \ {0} : 1 \in Node
    BY Tree
  <2> QED BY <1>2, <2>2, <2>3 DEF WakeOK
<1>9. EInv(0)
  BY <1>3, <1>4, <1>5, <1>6, <1>7, <1>8 DEF EInv
<1> QED BY <1>1, <1>9, EpisodesAssumption DEF IInv

LEMMA NextInv ==
  ASSUME AtMostFour, IndicesSuffice, IInv, [Next]_vars
  PROVE  IInv'
<1>1. TypeInv /\ Episodes \in Nat
  BY EpisodesAssumption DEF IInv
<1>2. PICK e \in 0 .. Episodes : EInv(e)
  BY DEF IInv
<1>e. e \in Nat
  BY <1>1
<1>3. ASSUME NEW t \in Thread, Call(t)
      PROVE  IInv'
  <2>1. TypeInv' /\ e < Episodes
    BY <1>1, <1>2, <1>e, <1>3, CallFacts
  <2>2. EInv(e)' \/ EInv(e + 1)'
    BY <1>1, <1>2, <1>e, <1>3, CallStep, LastCallStep
  <2>3. e + 1 \in 0 .. Episodes
    BY <1>1, <1>e, <2>1
  <2> QED BY <2>1, <2>2, <2>3 DEF IInv
<1>4. ASSUME NEW t \in Thread, Step(t)
      PROVE  IInv'
  <2>1. TypeInv' /\ EInv(e)'
    <3>1. ASSUME Wake(t, 0, "wake0", "wake1")
          PROVE  TypeInv' /\ EInv(e)'
      BY <1>1, <1>2, <1>e, <3>1, WakeStep
    <3>2. ASSUME Wake(t, 1, "wake1", "leave")
          PROVE  TypeInv' /\ EInv(e)'
      BY <1>1, <1>2, <1>e, <3>2, WakeStep
    <3> QED
      BY <1>1, <1>2, <1>e, <1>4, <3>1, <3>2, ReadSenseStep, ScanStep, ScannedStep, ResetStep,
         NotifyStep, WaitStep, LeaveStep
      DEF Step
  <2> QED BY <2>1 DEF IInv
<1>5. ASSUME UNCHANGED vars
      PROVE  IInv'
  <2>1. TypeInv'
    BY <1>1, <1>5 DEF vars, shared, TypeInv
  <2>2. EpisodeOK(e)' /\ IndexOK(e)'
    BY <1>2, <1>5 DEF vars, shared, EInv, EpisodeOK, IndexOK, Early, Inside
  <2>3. SenseOK(e)' /\ RootFirst(e)'
    BY <1>2, <1>5 DEF vars, shared, EInv, SenseOK, RootFirst, Inside, Unready, Woken
  <2>4. SlotsOK(e)'
    BY <1>2, <1>5 DEF vars, shared, EInv, SlotsOK, Inside, Early, Unready
  <2>5. WakeOK(e)'
    BY <1>2, <1>5 DEF vars, shared, EInv, WakeOK, Inside, Woken
  <2> QED BY <2>1, <2>2, <2>3, <2>4, <2>5 DEF IInv, EInv
<1> QED BY <1>3, <1>4, <1>5 DEF Next

(* The types of every variable: an index is that of a node that exists,    *)
(* and a parent only ever listens for children that do.                    *)
THEOREM TypeCorrectness ==
  ASSUME AtMostFour, IndicesSuffice
  PROVE  Spec => []TypeOK
<1>1. Init => IInv
  BY InitInv
<1>2. IInv /\ [Next]_vars => IInv'
  BY NextInv
<1>3. IInv => TypeOK
  BY DEF IInv, TypeInv, TypeOK, Asleep
<1> QED BY <1>1, <1>2, <1>3, PTL DEF Spec

(* Two threads never use the same node in an episode, although each call   *)
(* takes whatever index comes next.                                        *)
THEOREM UniqueIndices ==
  ASSUME AtMostFour, IndicesSuffice
  PROVE  Spec => []VpidUnique
<1>1. Init => IInv
  BY InitInv
<1>2. IInv /\ [Next]_vars => IInv'
  BY NextInv
<1>3. IInv => VpidUnique
  <2> SUFFICES ASSUME IInv, NEW t \in Thread, NEW u \in Thread, t # u,
                      entered[t] = entered[u], pc[t] # "out", pc[u] # "out",
                      vpid[t] = vpid[u]
               PROVE  FALSE
    BY DEF VpidUnique
  <2>1. PICK e \in 0 .. Episodes : EInv(e)
    BY DEF IInv
  <2>2. TypeInv /\ e \in Nat
    BY EpisodesAssumption DEF IInv
  <2>3. (t \in Inside(e) /\ u \in Inside(e)) \/ (t \in Early(e) /\ u \in Early(e))
    BY <2>1, <2>2, WhichEpisode
  <2> QED BY <2>1, <2>3 DEF EInv, IndexOK
<1> QED BY <1>1, <1>2, <1>3, PTL DEF Spec

(* sense_init, written by all on their way out, is read as the sense of    *)
(* the episode a thread has entered.                                       *)
THEOREM SensesAgree ==
  ASSUME AtMostFour, IndicesSuffice
  PROVE  Spec => []SenseAgrees
<1>1. Init => IInv
  BY InitInv
<1>2. IInv /\ [Next]_vars => IInv'
  BY NextInv
<1>3. IInv => SenseAgrees
  BY DEF IInv, EInv, SenseOK, SenseAgrees
<1> QED BY <1>1, <1>2, <1>3, PTL DEF Spec

(* Nobody leaves an episode before everybody has entered it.  Without      *)
(* AtMostFour this is false: run mcs_five.                                 *)
THEOREM Safety ==
  ASSUME AtMostFour, IndicesSuffice
  PROVE  Spec => []BarrierSafety
<1>1. Init => IInv
  BY InitInv
<1>2. IInv /\ [Next]_vars => IInv'
  BY NextInv
<1>3. IInv => BarrierSafety
  <2> SUFFICES ASSUME IInv, NEW p \in Thread, NEW q \in Thread
               PROVE  left[p] <= entered[q]
    BY DEF BarrierSafety
  <2>1. PICK e \in 0 .. Episodes : EInv(e)
    BY DEF IInv
  <2>2. e \in Nat
    BY EpisodesAssumption
  <2>3. /\ entered[p] \in {e, e + 1} /\ entered[q] \in {e, e + 1}
        /\ left[p] = IF pc[p] = "out" THEN entered[p] ELSE entered[p] - 1
        /\ entered[p] = e + 1 => pc[p] \in Asleep
    BY <2>1 DEF EInv, EpisodeOK
  <2>4. "out" \notin Asleep
    BY DEF Asleep
  <2> QED BY <2>2, <2>3, <2>4
<1> QED BY <1>1, <1>2, <1>3, PTL DEF Spec

(* Every step is a step of Barrier or leaves entered and left alone. *)
THEOREM Refinement ==
  ASSUME AtMostFour, IndicesSuffice
  PROVE  Spec => ImplementsBarrier
<1>1. Init => IInv
  BY InitInv
<1>2. IInv /\ [Next]_vars => IInv'
  BY NextInv
<1>3. Init => Abstract!BInit
  BY DEF Init, Abstract!BInit
<1>4. IInv /\ [Next]_vars => [Abstract!BNext]_(Abstract!bvars)
  <2> SUFFICES ASSUME IInv, [Next]_vars PROVE [Abstract!BNext]_(Abstract!bvars)
    OBVIOUS
  <2>1. PICK e \in 0 .. Episodes : EInv(e)
    BY DEF IInv
  <2>2. TypeInv /\ e \in Nat
    BY EpisodesAssumption DEF IInv
  <2>3. ASSUME NEW t \in Thread, Call(t)
        PROVE  Abstract!BNext
    <3>1. entered[t] = left[t] /\ entered[t] < Episodes
      BY <2>1, <2>2, <2>3, CallFacts
    <3>2. Abstract!Enter(t)
      BY <2>3, <3>1 DEF Call, Abstract!Enter
    <3> QED BY <3>2 DEF Abstract!BNext
  <2>4. ASSUME NEW t \in Thread, Leave(t)
        PROVE  Abstract!BNext
    <3>1. entered[t] = e /\ left[t] = e - 1
      BY <2>1, <2>2, <2>4, LaterInside, WhichEpisode DEF Leave
    <3>2. \A u \in Thread : entered[u] >= entered[t]
      BY <2>1, <2>2, <3>1 DEF EInv, EpisodeOK
    <3>3. left[t] < entered[t]
      BY <2>2, <3>1
    <3>4. Abstract!Leave(t)
      BY <2>4, <3>2, <3>3 DEF Leave, Abstract!Leave
    <3> QED BY <3>4 DEF Abstract!BNext
  <2>5. ASSUME NEW t \in Thread, Step(t), ~Leave(t)
        PROVE  UNCHANGED <<entered, left>>
    BY <2>5 DEF Step, ReadSense, Scan, Scanned, Reset, Notify, Wait, Wake
  <2> QED BY <2>3, <2>4, <2>5 DEF Next, vars, Abstract!bvars
<1> QED
  BY <1>1, <1>2, <1>3, <1>4, PTL DEF Spec, ImplementsBarrier, Abstract!BSpec

=============================================================================
