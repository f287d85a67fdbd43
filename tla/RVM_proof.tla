------------------------------ MODULE RVM_proof ------------------------------
(***************************************************************************)
(* Proofs about RVM for any segments, transactions, sizes and values: the  *)
(* types, and that an abort restores the memory of its segments.           *)
(***************************************************************************)
EXTENDS RVM, TLAPS, SequenceTheorems, WellFoundedInduction

-----------------------------------------------------------------------------
(* Sequences and their last elements. *)

(* A set of positions has a last one: the last line about a cell, the      *)
(* oldest entry of an undo log for it.                                     *)
LEMMA HasLast ==
  ASSUME NEW n \in Nat, NEW I, I \subseteq 1 .. n, I # {}
  PROVE  \E m \in I : \A j \in I : j <= m
<1> DEFINE less == OpToRel(<, Nat)
<1>1. \A a, b \in Nat : a < b => <<a, b>> \in less
  BY DEF OpToRel
<1>2. IsWellFoundedOn(less, Nat)
  BY NatLessThanWellFounded
<1> HIDE DEF less
<1> DEFINE U == {n - i : i \in I}
<1>3. U \subseteq Nat
  BY SMT
<1>4. U # {}
  <2>1. PICK i \in I : TRUE
    OBVIOUS
  <2>2. n - i \in U
    OBVIOUS
  <2> QED BY <2>2
<1> HIDE DEF U
<1>5. PICK x \in U : \A y \in U : ~(<<y, x>> \in less)
  BY <1>2, <1>3, <1>4, WFMin
<1>6. PICK m \in I : x = n - m
  BY DEF U
<1>7. ASSUME NEW j \in I, m < j PROVE FALSE
  <2>1. n - j \in U /\ n - j < x /\ n - j \in Nat /\ x \in Nat
    BY <1>3, <1>6, <1>7 DEF U
  <2> QED BY <2>1, <1>1, <1>5
<1> QED BY <1>7

(* A function on 1 .. n is a sequence. *)
LEMMA FcnSeq ==
  ASSUME NEW S, NEW n \in Nat, NEW f \in [1 .. n -> S]
  PROVE  f \in Seq(S) /\ Len(f) = n /\ DOMAIN f = 1 .. n
OBVIOUS

-----------------------------------------------------------------------------
(* The undo log. *)

Undo == [off : Nat \ {0}, undo : Cells]

(* What undone makes of a cell: the oldest of its entries counts. *)
LEMMA UndoneFacts ==
  ASSUME NEW m, NEW st \in Seq(Undo), NEW c \in DOMAIN m
  PROVE  /\ (\A i \in 1 .. Len(st) : st[i].off # c) => undone(m, st)[c] = m[c]
         /\ \A i \in 1 .. Len(st) :
              st[i].off = c /\ (\A j \in i + 1 .. Len(st) : st[j].off # c)
                => undone(m, st)[c] = st[i].undo
<1>1. (\A i \in 1 .. Len(st) : st[i].off # c) => undone(m, st)[c] = m[c]
  BY DEF undone
<1>2. ASSUME NEW i \in 1 .. Len(st), st[i].off = c,
             \A j \in i + 1 .. Len(st) : st[j].off # c
      PROVE  undone(m, st)[c] = st[i].undo
  <2>1. \A k \in 1 .. Len(st) :
          st[k].off = c /\ (\A j \in k + 1 .. Len(st) : st[j].off # c) => k = i
    <3> SUFFICES ASSUME NEW k \in 1 .. Len(st), st[k].off = c, k # i,
                        \A j \in k + 1 .. Len(st) : st[j].off # c
                 PROVE  FALSE
      OBVIOUS
    <3>1. k \in i + 1 .. Len(st) \/ i \in k + 1 .. Len(st)
      OBVIOUS
    <3> QED BY <3>1, <1>2
  <2>2. i = CHOOSE k \in 1 .. Len(st) :
              st[k].off = c /\ \A j \in k + 1 .. Len(st) : st[j].off # c
    BY <1>2, <2>1
  <2> QED BY <1>2, <2>2 DEF undone
<1> QED BY <1>1, <1>2

(* A cell has a saved value, or an oldest one. *)
LEMMA OldestEntry ==
  ASSUME NEW st \in Seq(Undo), NEW c, NEW k \in 1 .. Len(st), st[k].off = c
  PROVE  \E i \in 1 .. Len(st) :
           st[i].off = c /\ \A j \in i + 1 .. Len(st) : st[j].off # c
<1> DEFINE I == {i \in 1 .. Len(st) : st[i].off = c}
<1>1. Len(st) \in Nat /\ I \subseteq 1 .. Len(st) /\ I # {}
  OBVIOUS
<1>2. PICK i \in I : \A j \in I : j <= i
  <2> HIDE DEF I
  <2> QED BY <1>1, HasLast
<1>3. \A j \in i + 1 .. Len(st) : st[j].off # c
  BY <1>2
<1> QED BY <1>2, <1>3

LEMMA UndoneDomain ==
  ASSUME NEW m, NEW st
  PROVE  DOMAIN undone(m, st) = DOMAIN m
BY DEF undone

(* Before the cell is written, one more entry for it changes nothing.      *)
LEMMA UndonePush ==
  ASSUME NEW m \in Seq(Cells), NEW st \in Seq(Undo), NEW c \in DOMAIN m, c \in Nat \ {0}
  PROVE  undone(m, <<[off |-> c, undo |-> m[c]]>> \o st) = undone(m, st)
<1> DEFINE e == [off |-> c, undo |-> m[c]]
           st1 == <<e>> \o st
<1>1. e \in Undo /\ m[c] \in Cells /\ e.off = c /\ e.undo = m[c]
  BY DEF Undo
<1>2. /\ st1 \in Seq(Undo) /\ Len(st1) = Len(st) + 1 /\ Len(st) \in Nat
      /\ st1[1] = e
      /\ \A i \in 1 .. Len(st) : st1[i + 1] = st[i]
      /\ \A i \in 2 .. Len(st1) : i - 1 \in 1 .. Len(st) /\ st1[i] = st[i - 1]
  <2> HIDE DEF e
  <2> QED BY <1>1
<1>t. st1 \in Seq(Undo)
  BY <1>2
<1> HIDE DEF e, st1
<1>3. ASSUME NEW d \in DOMAIN m
      PROVE  undone(m, st1)[d] = undone(m, st)[d]
  <2>1. CASE \E k \in 1 .. Len(st) : st[k].off = d
    <3>1. PICK i \in 1 .. Len(st) :
            st[i].off = d /\ \A j \in i + 1 .. Len(st) : st[j].off # d
      BY <2>1, OldestEntry
    <3>2. /\ i + 1 \in 1 .. Len(st1) /\ st1[i + 1] = st[i]
          /\ \A j \in i + 1 + 1 .. Len(st1) : st1[j].off # d
      <4>1. ASSUME NEW j \in i + 1 + 1 .. Len(st1)
            PROVE  st1[j].off # d
        <5>1. j \in 2 .. Len(st1) /\ j - 1 \in i + 1 .. Len(st)
          BY <1>2
        <5> QED BY <5>1, <1>2, <3>1
      <4> QED BY <1>2, <4>1
    <3>3. undone(m, st)[d] = st[i].undo
      BY <3>1, UndoneFacts
    <3>4. PICK k \in 1 .. Len(st1) : k = i + 1
      BY <3>2
    <3>5. st1[k].off = d /\ \A j \in k + 1 .. Len(st1) : st1[j].off # d
      BY <3>1, <3>2, <3>4
    <3>6. undone(m, st1)[d] = st1[k].undo
      BY <3>5, <1>t, UndoneFacts
    <3> QED BY <3>2, <3>3, <3>4, <3>6
  <2>2. CASE ~(\E k \in 1 .. Len(st) : st[k].off = d) /\ d = c
    <3>1. undone(m, st)[d] = m[c]
      BY <2>2, UndoneFacts
    <3>2. 1 \in 1 .. Len(st1) /\ st1[1].off = d /\ \A j \in 1 + 1 .. Len(st1) : st1[j].off # d
      <4>1. 1 \in 1 .. Len(st1) /\ st1[1].off = d
        BY <1>1, <1>2, <2>2
      <4>2. ASSUME NEW j \in 1 + 1 .. Len(st1)
            PROVE  st1[j].off # d
        <5>1. j \in 2 .. Len(st1)
          OBVIOUS
        <5>2. j - 1 \in 1 .. Len(st) /\ st1[j] = st[j - 1]
          BY <5>1, <1>2
        <5> QED BY <5>2, <2>2
      <4> QED BY <4>1, <4>2
    <3>3. undone(m, st1)[d] = st1[1].undo
      BY <3>2, <1>2, UndoneFacts
    <3> QED BY <3>1, <3>3, <1>1, <1>2
  <2>3. CASE ~(\E k \in 1 .. Len(st) : st[k].off = d) /\ d # c
    <3>1. undone(m, st)[d] = m[d]
      BY <2>3, UndoneFacts
    <3>2. \A i \in 1 .. Len(st1) : st1[i].off # d
      <4>1. \A i \in 1 .. Len(st1) : i = 1 \/ i \in 2 .. Len(st1)
        BY <1>2
      <4>2. ASSUME NEW i \in 2 .. Len(st1)
            PROVE  st1[i].off # d
        BY <1>2, <2>3
      <4>3. st1[1].off # d
        BY <1>1, <1>2, <2>3
      <4> QED BY <4>1, <4>2, <4>3
    <3>3. undone(m, st1)[d] = m[d]
      BY <3>2, <1>2, UndoneFacts
    <3> QED BY <3>1, <3>3
  <2> QED BY <2>1, <2>2, <2>3
<1>4. undone(m, st1) = undone(m, st)
  BY <1>3 DEF undone
<1> QED BY <1>4 DEF st1, e

(* What is written to a cell that has an entry will be undone. *)
LEMMA UndoneWrite ==
  ASSUME NEW m \in Seq(Cells), NEW st \in Seq(Undo), NEW c \in DOMAIN m, NEW x,
         NEW k \in 1 .. Len(st), st[k].off = c
  PROVE  undone([m EXCEPT ![c] = x], st) = undone(m, st)
<1> DEFINE w == [m EXCEPT ![c] = x]
<1>1. DOMAIN w = DOMAIN m /\ \A d \in DOMAIN m : d # c => w[d] = m[d]
  OBVIOUS
<1> HIDE DEF w
<1>2. ASSUME NEW d \in DOMAIN m
      PROVE  undone(w, st)[d] = undone(m, st)[d]
  <2>1. CASE \E i \in 1 .. Len(st) : st[i].off = d
    <3>1. PICK i \in 1 .. Len(st) :
            st[i].off = d /\ \A j \in i + 1 .. Len(st) : st[j].off # d
      BY <2>1, OldestEntry
    <3> QED BY <3>1, <1>1, UndoneFacts
  <2>2. CASE ~(\E i \in 1 .. Len(st) : st[i].off = d)
    BY <2>2, <1>1, UndoneFacts
  <2> QED BY <2>1, <2>2
<1>3. undone(w, st) = undone(m, st)
  BY <1>1, <1>2 DEF undone
<1> QED BY <1>3 DEF w

(* Nothing declared, nothing to undo. *)
LEMMA UndoneNothing ==
  ASSUME NEW m \in Seq(Cells)
  PROVE  undone(m, <<>>) = m
<1>1. \A c \in DOMAIN m : undone(m, <<>>)[c] = m[c]
  BY DEF undone
<1> QED BY <1>1 DEF undone

-----------------------------------------------------------------------------
(* The sequences that rvm_map and rvm_truncate_log make. *)

LEMMA CellsFacts == 0 \in Cells /\ Garbage \in Cells /\ Garbage # 0 /\ Val \subseteq Cells
BY ValAssumption DEF Cells, Garbage

LEMMA ZerosFacts ==
  ASSUME NEW n \in Nat
  PROVE  /\ Zeros(n) \in Seq(Cells) /\ Len(Zeros(n)) = n
         /\ \A c \in 1 .. n : Zeros(n)[c] = 0
<1>1. Zeros(n) \in [1 .. n -> Cells] /\ \A c \in 1 .. n : Zeros(n)[c] = 0
  BY CellsFacts DEF Zeros
<1> QED BY <1>1, FcnSeq

(* fseek and fwrite keep the other cells of the file. *)
LEMMA PutFacts ==
  ASSUME NEW f \in Seq(Cells), NEW c \in Nat \ {0}, NEW x \in Cells
  PROVE  /\ put(f, c, x) \in Seq(Cells)
         /\ Len(put(f, c, x)) = IF c > Len(f) THEN c ELSE Len(f)
         /\ put(f, c, x)[c] = x
         /\ \A d \in 1 .. Len(f) : d # c => put(f, c, x)[d] = f[d]
         /\ \A d \in Len(f) + 1 .. c - 1 : put(f, c, x)[d] = 0
<1> DEFINE n == IF c > Len(f) THEN c ELSE Len(f)
<1>1. /\ n \in Nat /\ Len(f) \in Nat /\ c \in 1 .. n
      /\ 1 .. Len(f) \subseteq 1 .. n /\ Len(f) + 1 .. c - 1 \subseteq 1 .. n
      /\ \A i \in 1 .. Len(f) : f[i] \in Cells
  OBVIOUS
<1> HIDE DEF n
<1>2. put(f, c, x) = [i \in 1 .. n |-> IF i = c THEN x ELSE IF i <= Len(f) THEN f[i] ELSE 0]
  BY DEF put, n
<1>3. put(f, c, x) \in [1 .. n -> Cells]
  BY <1>1, <1>2, CellsFacts
<1>4. put(f, c, x) \in Seq(Cells) /\ Len(put(f, c, x)) = n
  BY <1>1, <1>3, FcnSeq
<1>5. \A d \in Len(f) + 1 .. c - 1 : d # c /\ ~(d <= Len(f))
  BY <1>1
<1>6. \A d \in 1 .. Len(f) : d <= Len(f)
  BY <1>1
<1> QED BY <1>1, <1>2, <1>4, <1>5, <1>6 DEF n

LEMMA GrownFacts ==
  ASSUME mem \in [Segs -> Seq(Cells)], NEW s \in Segs, NEW n \in Nat
  PROVE  /\ grown(s, n) \in Seq(Cells)
         /\ s \in segments => Len(grown(s, n)) >= Len(mem[s])
<1>1. CASE s \in segments
  <2> DEFINE k == IF n > Len(mem[s]) THEN n ELSE Len(mem[s])
  <2>1. /\ k \in Nat /\ Len(mem[s]) \in Nat /\ k >= Len(mem[s])
        /\ \A i \in 1 .. Len(mem[s]) : mem[s][i] \in Cells
    OBVIOUS
  <2> HIDE DEF k
  <2>2. grown(s, n) = [c \in 1 .. k |-> IF c <= Len(mem[s]) THEN mem[s][c] ELSE 0]
    BY <1>1 DEF grown, k
  <2>3. grown(s, n) \in [1 .. k -> Cells]
    BY <2>1, <2>2, CellsFacts
  <2> QED BY <2>1, <2>3, FcnSeq
<1>2. CASE s \notin segments
  <2>1. grown(s, n) \in [1 .. n -> Cells]
    BY <1>2, CellsFacts DEF grown
  <2> QED BY <1>2, <2>1, FcnSeq
<1> QED BY <1>1, <1>2

(* rvm_map appends zeros to the file, if anything. *)
LEMMA ExtendedFacts ==
  ASSUME mem \in [Segs -> Seq(Cells)], file \in [Segs -> Seq(Cells) \cup {NoFile}],
         NEW s \in Segs, NEW n \in Nat
  PROVE  /\ extended(s, n) \in Seq(Cells)
         /\ file[s] = NoFile =>
              \A c \in 1 .. Len(extended(s, n)) : extended(s, n)[c] = 0
         /\ file[s] # NoFile =>
              /\ file[s] \in Seq(Cells)
              /\ Len(extended(s, n)) >= Len(file[s])
              /\ \A c \in 1 .. Len(extended(s, n)) :
                   extended(s, n)[c] = IF c <= Len(file[s]) THEN file[s][c] ELSE 0
<1> DEFINE g == Len(grown(s, n))
<1>1. grown(s, n) \in Seq(Cells) /\ g \in Nat /\ Len(mem[s]) \in Nat
  BY GrownFacts
<1>2. CASE file[s] = NoFile
  BY <1>1, <1>2, ZerosFacts DEF extended
<1>3. CASE file[s] # NoFile /\ s \in segments
  <2> DEFINE z == Zeros(g - Len(mem[s]))
  <2>1. g - Len(mem[s]) \in Nat
    BY <1>1, <1>3, GrownFacts
  <2>2. z \in Seq(Cells) /\ \A c \in 1 .. Len(z) : z[c] = 0
    BY <2>1, ZerosFacts
  <2> HIDE DEF z
  <2>3. file[s] \in Seq(Cells)
    BY <1>3
  <2>4. /\ file[s] \o z \in Seq(Cells)
        /\ Len(file[s] \o z) = Len(file[s]) + Len(z)
        /\ \A c \in 1 .. Len(file[s]) + Len(z) :
             (file[s] \o z)[c] = IF c <= Len(file[s]) THEN file[s][c] ELSE z[c - Len(file[s])]
    BY <2>2, <2>3, ConcatProperties
  <2>5. Len(file[s]) \in Nat /\ Len(z) \in Nat
    BY <2>2, <2>3
  <2>6. \A c \in 1 .. Len(file[s]) + Len(z) :
          c <= Len(file[s]) \/ c - Len(file[s]) \in 1 .. Len(z)
    BY <2>5
  <2>7. extended(s, n) = file[s] \o z
    BY <1>3 DEF extended, z
  <2> QED BY <1>3, <2>2, <2>3, <2>4, <2>5, <2>6, <2>7
<1>4. CASE file[s] # NoFile /\ s \notin segments
  BY <1>4 DEF extended
<1> QED BY <1>2, <1>3, <1>4

LEMMA ReadFacts ==
  ASSUME NEW f \in Seq(Cells), NEW m \in Seq(Cells)
  PROVE  /\ read(f, m) \in Seq(Cells) /\ Len(read(f, m)) = Len(m)
         /\ \A c \in 1 .. Len(m) : read(f, m)[c] = IF c <= Len(f) THEN f[c] ELSE m[c]
<1>1. /\ DOMAIN f = 1 .. Len(f) /\ DOMAIN m = 1 .. Len(m) /\ Len(f) \in Nat /\ Len(m) \in Nat
      /\ \A i \in 1 .. Len(f) : f[i] \in Cells
      /\ \A i \in 1 .. Len(m) : m[i] \in Cells
  OBVIOUS
<1>2. read(f, m) \in [1 .. Len(m) -> Cells]
  BY <1>1 DEF read
<1>3. \A c \in 1 .. Len(m) : c \in 1 .. Len(f) <=> c <= Len(f)
  BY <1>1
<1> QED BY <1>1, <1>2, <1>3, FcnSeq DEF read

LEMMA WantedFacts ==
  ASSUME NEW w \in Seq(Cells) \cup {NoFile}, NEW f \in Seq(Cells), NEW m \in Seq(Cells)
  PROVE  /\ wanted(w, f, m) \in Seq(Cells)
         /\ Len(wanted(w, f, m)) >= Len(m) /\ Len(wanted(w, f, m)) >= Len(f)
         /\ \A c \in 1 .. Len(wanted(w, f, m)) :
              wanted(w, f, m)[c] = IF w # NoFile /\ c \in DOMAIN w THEN w[c]
                                   ELSE IF c <= Len(f) THEN 0 ELSE Garbage
<1> DEFINE n == IF Len(f) > Len(m) THEN Len(f) ELSE Len(m)
<1>1. n \in Nat /\ n >= Len(f) /\ n >= Len(m)
  OBVIOUS
<1> HIDE DEF n
<1>2. wanted(w, f, m) = [c \in 1 .. n |-> IF w # NoFile /\ c \in DOMAIN w THEN w[c]
                                          ELSE IF c <= Len(f) THEN 0 ELSE Garbage]
  BY DEF wanted, n
<1>3. w # NoFile => \A c \in DOMAIN w : w[c] \in Cells
  OBVIOUS
<1>4. wanted(w, f, m) \in [1 .. n -> Cells]
  BY <1>2, <1>3, CellsFacts
<1>5. wanted(w, f, m) \in Seq(Cells) /\ Len(wanted(w, f, m)) = n
  BY <1>1, <1>4, FcnSeq
<1> QED BY <1>1, <1>2, <1>5

-----------------------------------------------------------------------------
(* Types.  What TypeOK needs to be inductive: a mapped segment has a file  *)
(* as long as the application knows of, undo logs exist only in            *)
(* transactions, and both logs name cells that exist.                      *)

Line == [seg : Segs, off : Nat \ {0}, val : Cells, parses : BOOLEAN]
Entry == [seg : Segs, off : Nat \ {0}]

History ==
  /\ want \in [Segs -> Seq(Cells) \cup {NoFile}]
  /\ snap \in [Segs -> Seq(Cells)]

Known ==
  \A s \in mapped : /\ file[s] # NoFile /\ want[s] # NoFile
                    /\ Len(mem[s]) <= Len(want[s])

Undoable ==
  \A s \in Segs : /\ cur_trans[s] \notin Trans => mods[s] = <<>>
                  /\ \A i \in 1 .. Len(mods[s]) : mods[s][i].off <= Len(mem[s])

Loggable ==
  \A i \in 1 .. Len(redolog) : /\ cur_trans[redolog[i].seg] \in Trans
                               /\ redolog[i].off <= Len(mem[redolog[i].seg])

TypeInv == TypeOK /\ History /\ Known /\ Undoable /\ Loggable

LEMMA EmptySeqs ==
  /\ \A S : <<>> \in Seq(S)
  /\ Len(<<>>) = 0 /\ 1 .. Len(<<>>) = {}
OBVIOUS

LEMMA FileIsFile ==
  ASSUME NEW f \in Seq(Cells)
  PROVE  f # NoFile
<1>1. Cells \subseteq Int
  BY ValAssumption DEF Cells, Garbage
<1>2. f \in Seq(Int)
  BY <1>1, SeqMonotonic
<1> QED BY <1>2, NamesAssumption

LEMMA CallFacts ==
  ASSUME call \in Calls
  PROVE  /\ Truncating => call.i \in Nat \ {0}
         /\ call.op = "map" => call.seg \in Segs /\ call.size \in Nat \ {0}
         /\ call.op = "commit" => call.i \in Nat \ {0} /\ call.t \in Trans
         /\ Truncating \/ call.op = "commit" => [call EXCEPT !.i = @ + 1] \in Calls
<1>1. CASE call = Idle
  BY <1>1 DEF Idle, Truncating
<1>2. CASE call \in [op : {"truncate"}, i : Nat \ {0}]
  BY <1>2 DEF Truncating, Calls
<1>3. CASE call \in [op : {"map"}, i : Nat \ {0}, seg : Segs, size : Sizes]
  BY <1>3, SizesAssumption DEF Truncating, Calls
<1>4. CASE call \in [op : {"commit"}, i : Nat \ {0}, t : Trans]
  BY <1>4 DEF Truncating, Calls
<1> QED BY <1>1, <1>2, <1>3, <1>4 DEF Calls

(* A segment of a transaction is mapped. *)
LEMMA InTransFacts ==
  ASSUME TypeInv, NEW s \in Segs
  PROVE  /\ InTransaction(s) <=> cur_trans[s] \in Trans
         /\ cur_trans[s] \in Trans =>
              /\ s \in mapped /\ s \in tsegs[cur_trans[s]]
              /\ file[s] \in Seq(Cells) /\ want[s] \in Seq(Cells)
              /\ Len(mem[s]) <= Len(want[s])
<1>1. \A t \in Trans : s \in tsegs[t] <=> cur_trans[s] = t
  BY DEF TypeInv, TypeOK
<1>2. \A t \in Trans : tsegs[t] \subseteq mapped
  BY DEF TypeInv, TypeOK
<1>3. file[s] \in Seq(Cells) \cup {NoFile} /\ want[s] \in Seq(Cells) \cup {NoFile}
  BY DEF TypeInv, TypeOK, History
<1> QED BY <1>1, <1>2, <1>3 DEF InTransaction, TypeInv, Known

(* The line that a commit writes for an entry of the redo log. *)
LEMMA LineFacts ==
  ASSUME TypeInv, NEW i \in 1 .. Len(redolog), NEW x \in Cells, NEW b \in BOOLEAN
  PROVE  LET s == redolog[i].seg
             c == redolog[i].off
         IN  /\ s \in Segs /\ c \in 1 .. Len(mem[s]) /\ c \in 1 .. Len(want[s])
             /\ cur_trans[s] \in Trans
             /\ mem[s][c] \in Cells /\ want[s] \in Seq(Cells)
             /\ [want EXCEPT ![s][c] = x] \in [Segs -> Seq(Cells) \cup {NoFile}]
             /\ [want EXCEPT ![s][c] = x][s] \in Seq(Cells)
             /\ Len([want EXCEPT ![s][c] = x][s]) = Len(want[s])
             /\ Append(log, [seg |-> s, off |-> c, val |-> x, parses |-> b]) \in Seq(Line)
<1> DEFINE s == redolog[i].seg
           c == redolog[i].off
           w == [want[s] EXCEPT ![c] = x]
<1>1. redolog \in Seq(Entry)
  BY DEF TypeInv, TypeOK, Entry
<1>a. redolog[i] \in Entry
  BY <1>1
<1>2. s \in Segs /\ c \in Nat \ {0}
  BY <1>a DEF Entry
<1>3. cur_trans[s] \in Trans /\ c <= Len(mem[s])
  BY DEF TypeInv, Loggable
<1> HIDE DEF s, c
<1>4. mem[s] \in Seq(Cells) /\ want[s] \in Seq(Cells) /\ Len(mem[s]) <= Len(want[s])
  BY <1>2, <1>3, InTransFacts DEF TypeInv, TypeOK
<1>5. c \in 1 .. Len(mem[s]) /\ c \in 1 .. Len(want[s]) /\ mem[s][c] \in Cells
  BY <1>2, <1>3, <1>4
<1>6. w \in Seq(Cells) /\ Len(w) = Len(want[s])
  BY <1>4, <1>5, ExceptSeq
<1>7. [want EXCEPT ![s][c] = x] = [want EXCEPT ![s] = w]
  OBVIOUS
<1> HIDE DEF w
<1>8. want \in [Segs -> Seq(Cells) \cup {NoFile}]
  BY DEF TypeInv, History
<1>9. [seg |-> s, off |-> c, val |-> x, parses |-> b] \in Line
  BY <1>2 DEF Line
<1>10. log \in Seq(Line)
  BY DEF TypeInv, TypeOK, Line
<1>11. Append(log, [seg |-> s, off |-> c, val |-> x, parses |-> b]) \in Seq(Line)
  BY <1>9, <1>10
<1>12. /\ [want EXCEPT ![s][c] = x] \in [Segs -> Seq(Cells) \cup {NoFile}]
       /\ [want EXCEPT ![s][c] = x][s] = w
  BY <1>2, <1>6, <1>7, <1>8
<1> QED BY <1>2, <1>3, <1>4, <1>5, <1>6, <1>11, <1>12 DEF s, c

(* What a commit may put after the line of an entry: nothing, or the rest  *)
(* of a line that was split.                                               *)
Rest == {<<>>} \cup {<<r>> : r \in Line}

LEMMA EntryFacts ==
  ASSUME TypeInv
  PROVE  /\ Len(redolog) \in Nat
         /\ \A i \in 1 .. Len(redolog) : redolog[i] \in Entry
         /\ call.op = "commit" /\ call.i <= Len(redolog) => call.i \in 1 .. Len(redolog)
<1>1. redolog \in Seq(Entry) /\ call \in Calls
  BY DEF TypeInv, TypeOK, Entry
<1>2. call.op = "commit" => call.i \in Nat \ {0}
  BY <1>1, CallFacts
<1> QED BY <1>1, <1>2

LEMMA RestFacts ==
  ASSUME NEW e \in Entry, NEW r \in rests(e)
  PROVE  r \in Line
<1>1. torn(e) \in Line
  BY CellsFacts DEF torn, Line, Entry
<1>2. ASSUME NEW s \in Segs, NEW c \in 1 .. MaxCells
      PROVE  whole([seg |-> s, off |-> c], Garbage) \in Line
  <2>1. c \in Nat \ {0}
    BY BoundsAssumption
  <2> QED BY <2>1, CellsFacts DEF whole, Line
<1>3. r = torn(e) \/ \E s \in Segs, c \in 1 .. MaxCells : r = whole([seg |-> s, off |-> c], Garbage)
  BY DEF rests
<1> QED BY <1>1, <1>2, <1>3

(* The step of a commit that logs an entry, in one form for whole and for  *)
(* split lines.                                                            *)
LEMMA CommitLogs ==
  ASSUME TypeInv, CommitLine
  PROVE  \E i \in 1 .. Len(redolog), y \in Cells, rest \in Rest :
           /\ i = call.i
           /\ logged(redolog[i], mem[redolog[i].seg][redolog[i].off], y, rest)
<1>1. call.i \in 1 .. Len(redolog)
  BY EntryFacts DEF CommitLine
<1>2. PICK i \in 1 .. Len(redolog) : i = call.i
  BY <1>1
<1>3. redolog[i] \in Entry
  BY EntryFacts
<1> DEFINE e == redolog[i]
           x == mem[e.seg][e.off]
<1>4. x \in Cells
  BY LineFacts, CellsFacts
<1>5. \/ x \notin Split /\ logged(e, x, x, <<>>)
      \/ x \in Split /\ \E y \in {x, Garbage}, r \in rests(e) : logged(e, x, y, <<r>>)
  BY <1>2 DEF CommitLine
<1> HIDE DEF e, x
<1>6. CASE logged(e, x, x, <<>>)
  BY <1>2, <1>4, <1>6 DEF Rest, e, x
<1>7. ASSUME NEW y \in {x, Garbage}, NEW r \in rests(e), logged(e, x, y, <<r>>)
      PROVE  \E z \in Cells, rest \in Rest : logged(e, x, z, rest)
  <2>1. r \in Line /\ y \in Cells
    BY <1>3, <1>4, RestFacts, CellsFacts DEF e
  <2> QED BY <1>7, <2>1 DEF Rest
<1> QED BY <1>2, <1>5, <1>6, <1>7 DEF e, x

(* What an entry that is logged does to the log and to the history.        *)
LEMMA LoggedFacts ==
  ASSUME TypeInv, NEW i \in 1 .. Len(redolog), NEW x \in Cells, NEW y \in Cells,
         NEW rest \in Rest, logged(redolog[i], x, y, rest)
  PROVE  LET s == redolog[i].seg
             c == redolog[i].off
             l == Append(log, whole(redolog[i], y))
             d == (damaged \ {<<s, c>>}) \cup (IF y = x THEN {} ELSE {<<s, c>>})
         IN  /\ whole(redolog[i], y) \in Line /\ l \in Seq(Line)
             /\ \/ log' = l /\ damaged' = d
                \/ \E r \in Line : /\ log' = Append(l, r)
                                   /\ damaged' = d \cup (IF r.parses THEN {<<r.seg, r.off>>} ELSE {})
             /\ log' \in Seq(Line) /\ damaged' \subseteq Segs \X (Nat \ {0})
             /\ want' \in [Segs -> Seq(Cells) \cup {NoFile}]
             /\ \A z \in Segs : \/ want'[z] = want[z]
                               \/ /\ want'[z] # NoFile /\ want[z] # NoFile
                                  /\ Len(want'[z]) = Len(want[z])
<1> DEFINE e == redolog[i]
           s == e.seg
           c == e.off
           l == Append(log, whole(e, y))
           d == (damaged \ {<<s, c>>}) \cup (IF y = x THEN {} ELSE {<<s, c>>})
<1>1. /\ s \in Segs /\ c \in Nat \ {0} /\ l \in Seq(Line) /\ whole(e, y) \in Line
      /\ log \in Seq(Line) /\ damaged \subseteq Segs \X (Nat \ {0})
  <2>1. e \in Entry
    BY EntryFacts
  <2>2. log \in Seq(Line) /\ damaged \subseteq Segs \X (Nat \ {0})
    BY DEF TypeInv, TypeOK, Line
  <2>3. whole(e, y) \in Line
    BY <2>1 DEF whole, Line, Entry
  <2> QED BY <2>1, <2>2, <2>3 DEF Entry
<1>2. /\ log' = l \o rest
      /\ damaged' = d \cup {<<rest[j].seg, rest[j].off>> :
                               j \in {k \in DOMAIN rest : rest[k].parses}}
      /\ want' = want \/ want' = [want EXCEPT ![s][c] = x]
  BY DEF logged, cell
<1>3. /\ want \in [Segs -> Seq(Cells) \cup {NoFile}] /\ want[s] \in Seq(Cells)
      /\ [want EXCEPT ![s][c] = x] \in [Segs -> Seq(Cells) \cup {NoFile}]
      /\ [want EXCEPT ![s][c] = x][s] \in Seq(Cells)
      /\ Len([want EXCEPT ![s][c] = x][s]) = Len(want[s])
  BY LineFacts DEF TypeInv, History
<1>4. d \subseteq Segs \X (Nat \ {0})
  BY <1>1
<1> HIDE DEF e, s, c, l, d
<1>5. \A z \in Segs : \/ want'[z] = want[z]
                     \/ /\ want'[z] # NoFile /\ want[z] # NoFile
                        /\ Len(want'[z]) = Len(want[z])
  <2>1. \A z \in Segs : z # s => [want EXCEPT ![s][c] = x][z] = want[z]
    BY <1>3
  <2> QED BY <1>2, <1>3, <2>1, FileIsFile
<1>6. CASE rest = <<>>
  <2>1. log' = l /\ damaged' = d
    BY <1>1, <1>2, <1>6
  <2> QED BY <1>1, <1>2, <1>3, <1>4, <1>5, <2>1 DEF e, s, c, l, d
<1>7. ASSUME NEW r \in Line, rest = <<r>>
      PROVE  /\ log' = Append(l, r) /\ Append(l, r) \in Seq(Line)
             /\ damaged' = d \cup (IF r.parses THEN {<<r.seg, r.off>>} ELSE {})
             /\ <<r.seg, r.off>> \in Segs \X (Nat \ {0})
  <2>1. l \o <<r>> = Append(l, r) /\ Append(l, r) \in Seq(Line)
    BY <1>1
  <2>2. DOMAIN rest = {1} /\ rest[1] = r
    BY <1>7
  <2>3. <<r.seg, r.off>> \in Segs \X (Nat \ {0})
    BY DEF Line
  <2> QED BY <1>2, <1>7, <2>1, <2>2, <2>3
<1>8. CASE \E r \in Line : rest = <<r>>
  <2>1. PICK r \in Line : rest = <<r>>
    BY <1>8
  <2>2. damaged' \subseteq Segs \X (Nat \ {0})
    BY <1>4, <1>7, <2>1
  <2> QED BY <1>1, <1>2, <1>3, <1>5, <1>7, <2>1, <2>2 DEF e, s, c, l, d
<1> QED BY <1>6, <1>8 DEF Rest

(* A crash leaves no process behind. *)
LEMMA DeadTypes ==
  ASSUME TypeInv, Dead,
         file' \in [Segs -> Seq(Cells) \cup {NoFile}], log' \in Seq(Line),
         want' \in [Segs -> Seq(Cells) \cup {NoFile}],
         damaged' \subseteq Segs \X (Nat \ {0})
  PROVE  TypeInv'
<1>1. TypeOK'
  BY EmptySeqs, NamesAssumption DEF Dead, TypeOK, Line, Calls
<1>2. History' /\ Known'
  BY EmptySeqs DEF Dead, History, Known
<1>3. Undoable' /\ Loggable'
  BY EmptySeqs DEF Dead, Undoable, Loggable
<1> QED BY <1>1, <1>2, <1>3 DEF TypeInv

(* A step that changes at most the log and the call in progress. *)
LEMMA SameTypes ==
  ASSUME TypeInv, call' \in Calls, up' \in BOOLEAN, log' \in Seq(Line),
         ~up' => segments = {} /\ call' = Idle,
         UNCHANGED <<file, segments, mapped, mem, cur_trans, mods, redolog, tsegs,
                     want, snap, damaged>>
  PROVE  TypeInv'
BY DEF TypeInv, TypeOK, Line, History, Known, Undoable, Loggable

LEMMA InitTypes == Init => TypeInv
<1> SUFFICES ASSUME Init PROVE TypeInv
  OBVIOUS
<1>1. TypeOK
  BY EmptySeqs, NamesAssumption DEF Init, TypeOK, Calls
<1>2. History /\ Known
  BY EmptySeqs DEF Init, History, Known
<1>3. Undoable /\ Loggable
  BY EmptySeqs DEF Init, Undoable, Loggable
<1> QED BY <1>1, <1>2, <1>3 DEF TypeInv

(* The steps of the process's life and of rvm_truncate_log. *)
LEMMA TruncateTypes ==
  ASSUME TypeInv,
         \/ Start \/ BeginTruncate \/ TruncateLine \/ EndTruncate \/ TruncateDies
         \/ MapRefused \/ Crash \/ CrashInLine
         \/ \E s \in Segs, n \in Sizes : BeginMap(s, n)
         \/ \E t \in Trans : BeginCommit(t)
  PROVE  TypeInv'
<1>1. /\ file \in [Segs -> Seq(Cells) \cup {NoFile}] /\ log \in Seq(Line)
      /\ want \in [Segs -> Seq(Cells) \cup {NoFile}]
      /\ call \in Calls /\ (~up => segments = {} /\ call = Idle) /\ up \in BOOLEAN
      /\ damaged \subseteq Segs \X (Nat \ {0})
  BY DEF TypeInv, TypeOK, History, Line
<1>e. <<>> \in Seq(Line) /\ Idle \in Calls /\ Idle.op = "none"
  BY EmptySeqs DEF Calls, Idle
<1>2. CASE Start \/ BeginTruncate \/ EndTruncate \/ MapRefused
  <2>1. CASE Start
    BY <1>1, <2>1, SameTypes DEF Start, disk
  <2>2. CASE BeginTruncate
    <3>1. call' \in Calls /\ log' = log /\ up' = up /\ up
      BY <2>2 DEF BeginTruncate, Ready, Calls, disk
    <3> QED BY <1>1, <2>2, <3>1, SameTypes DEF BeginTruncate, disk
  <2>3. CASE EndTruncate \/ MapRefused
    <3>1. call' = Idle /\ log' = <<>> /\ up' = up /\ up
      BY <1>1, <1>e, <2>3 DEF EndTruncate, MapRefused
    <3> QED BY <1>1, <1>e, <2>3, <3>1, SameTypes DEF EndTruncate, MapRefused
  <2> QED BY <1>2, <2>1, <2>2, <2>3
<1>3. ASSUME NEW s \in Segs, NEW n \in Sizes, BeginMap(s, n)
      PROVE  TypeInv'
  <2>1. call' \in Calls /\ log' = log /\ up' = up /\ up
    BY <1>3 DEF BeginMap, Ready, Calls, disk
  <2> QED BY <1>1, <1>3, <2>1, SameTypes DEF BeginMap, disk
<1>4. ASSUME NEW t \in Trans, BeginCommit(t)
      PROVE  TypeInv'
  <2>1. call' \in Calls /\ log' = log /\ up' = up /\ up
    BY <1>4 DEF BeginCommit, Ready, Calls, disk
  <2> QED BY <1>1, <1>4, <2>1, SameTypes DEF BeginCommit, disk
<1>5. CASE TruncateLine
  <2> DEFINE r == log[call.i]
             f == put(file[r.seg], r.off, r.val)
  <2>1. call.i \in Nat \ {0} /\ [call EXCEPT !.i = @ + 1] \in Calls /\ call # Idle
    BY <1>1, <1>5, <1>e, CallFacts DEF TruncateLine, Truncating
  <2>2. r \in Line
    BY <1>1, <1>5, <2>1 DEF TruncateLine
  <2>3. r.seg \in Segs /\ r.off \in Nat \ {0} /\ r.val \in Cells
    BY <2>2 DEF Line
  <2>4. file[r.seg] \in Seq(Cells) /\ file' = [file EXCEPT ![r.seg] = f]
    BY <1>1, <1>5, <2>3 DEF TruncateLine, Playable
  <2> HIDE DEF r
  <2>5. f \in Seq(Cells)
    BY <2>3, <2>4, PutFacts
  <2>6. f # NoFile
    BY <2>5, FileIsFile
  <2> HIDE DEF f
  <2>a. call' \in Calls /\ (~up' => segments' = {} /\ call' = Idle)
    BY <1>1, <1>5, <2>1 DEF TruncateLine
  <2>b. UNCHANGED <<log, up, segments, mapped, mem, cur_trans, mods, redolog, tsegs,
                    want, snap, damaged>>
    BY <1>5 DEF TruncateLine
  <2>7. TypeOK' /\ History'
    BY <1>1, <2>a, <2>b, <2>3, <2>4, <2>5 DEF TypeInv, TypeOK, History
  <2>8. Known' /\ Undoable' /\ Loggable'
    BY <1>1, <2>b, <2>3, <2>4, <2>6 DEF TypeInv, Known, Undoable, Loggable
  <2> QED BY <2>7, <2>8 DEF TypeInv
<1>6. CASE TruncateDies \/ Crash
  BY <1>1, <1>6, DeadTypes DEF TruncateDies, Crash, disk
<1>7. CASE CrashInLine
  <2>1. call.i \in 1 .. Len(redolog)
    BY <1>1, <1>7, CallFacts DEF CrashInLine, TypeInv, TypeOK
  <2>2. PICK i \in 1 .. Len(redolog) : i = call.i
    BY <2>1
  <2> DEFINE e == redolog[i]
             x == mem[e.seg][e.off]
  <2>3. x \in Cells /\ e \in Entry
    BY LineFacts, EntryFacts, CellsFacts
  <2>4. torn(e) \in Line /\ whole(e, Garbage) \in Line /\ cell(e) \in Segs \X (Nat \ {0})
    BY <2>3, CellsFacts DEF torn, whole, cell, Line, Entry
  <2>5. \/ log' = Append(log, torn(e)) /\ UNCHANGED <<want, damaged>>
        \/ log' = Append(log, whole(e, Garbage)) /\ UNCHANGED want /\ damaged' = damaged \cup {cell(e)}
        \/ logged(e, x, x, <<>>)
    BY <1>7, <2>2 DEF CrashInLine
  <2>6. logged(e, x, x, <<>>) =>
          /\ log' \in Seq(Line) /\ want' \in [Segs -> Seq(Cells) \cup {NoFile}]
          /\ damaged' \subseteq Segs \X (Nat \ {0})
    BY <2>3, LoggedFacts DEF Rest
  <2> HIDE DEF e, x
  <2>a. Append(log, torn(e)) \in Seq(Line) /\ Append(log, whole(e, Garbage)) \in Seq(Line)
    BY <1>1, <2>4
  <2>b. damaged \cup {cell(e)} \subseteq Segs \X (Nat \ {0})
    BY <1>1, <2>4
  <2>7. /\ log' \in Seq(Line) /\ want' \in [Segs -> Seq(Cells) \cup {NoFile}]
        /\ damaged' \subseteq Segs \X (Nat \ {0})
    BY <1>1, <2>a, <2>b, <2>5, <2>6, Zenon
  <2> QED BY <1>1, <1>7, <2>7, DeadTypes DEF CrashInLine
<1> QED BY <1>2, <1>3, <1>4, <1>5, <1>6, <1>7

(* The steps of rvm_map, rvm_unmap and rvm_destroy. *)

LEMMA MapTypes ==
  ASSUME TypeInv,
         \/ MapSegment \/ CrashInMap
         \/ \E s \in Segs : Unmap(s) \/ Destroy(s)
  PROVE  TypeInv'
<1>1. /\ file \in [Segs -> Seq(Cells) \cup {NoFile}] /\ log \in Seq(Line)
      /\ want \in [Segs -> Seq(Cells) \cup {NoFile}]
      /\ mem \in [Segs -> Seq(Cells)]
      /\ call \in Calls /\ (~up => segments = {} /\ call = Idle) /\ up \in BOOLEAN
      /\ damaged \subseteq Segs \X (Nat \ {0})
  BY DEF TypeInv, TypeOK, History, Line
<1>e. <<>> \in Seq(Line) /\ <<>> \in Seq(Cells) /\ Idle \in Calls /\ Idle.op = "none"
  BY EmptySeqs DEF Calls, Idle
<1>t. \A s \in Segs : s \notin mapped => cur_trans[s] \notin Trans
  BY InTransFacts
<1>2. ASSUME NEW s, s = call.seg, s \notin mapped,
             NEW n, n = call.size, call.op = "map"
      PROVE  s \in Segs /\ n \in Nat /\ extended(s, n) \in Seq(Cells) /\ grown(s, n) \in Seq(Cells)
  <2>1. s \in Segs /\ n \in Nat
    BY <1>1, <1>2, CallFacts
  <2> QED BY <1>1, <2>1, ExtendedFacts, GrownFacts
<1>3. CASE MapSegment
  <2> DEFINE s == call.seg
             n == call.size
             m == grown(s, n)
             f == extended(s, n)
  <2>1. s \in Segs /\ f \in Seq(Cells) /\ m \in Seq(Cells) /\ s \notin mapped
    BY <1>2, <1>3 DEF MapSegment
  <2>2. /\ file' = [file EXCEPT ![s] = f] /\ mem' = [mem EXCEPT ![s] = read(f, m)]
        /\ segments' = segments \cup {s} /\ mapped' = mapped \cup {s}
        /\ want' = [want EXCEPT ![s] = wanted(want[s], f, m)]
        /\ log' = <<>> /\ call' = Idle
        /\ UNCHANGED <<up, cur_trans, mods, redolog, tsegs, snap, damaged>>
        /\ up
    BY <1>1, <1>3, <1>e DEF MapSegment
  <2> HIDE DEF s, n, m, f
  <2>3. read(f, m) \in Seq(Cells) /\ Len(read(f, m)) = Len(m) /\ f # NoFile
    BY <2>1, ReadFacts, FileIsFile
  <2>4. want[s] \in Seq(Cells) \cup {NoFile}
    BY <1>1, <2>1
  <2>5. /\ wanted(want[s], f, m) \in Seq(Cells)
        /\ Len(wanted(want[s], f, m)) >= Len(m)
        /\ wanted(want[s], f, m) # NoFile
    BY <2>1, <2>4, WantedFacts, FileIsFile
  <2>6. tsegs \in [Trans -> SUBSET mapped'] /\ mapped' \subseteq segments' /\ segments' \subseteq Segs
    BY <2>1, <2>2 DEF TypeInv, TypeOK
  <2>7. TypeOK'
    BY <1>1, <1>e, <2>1, <2>2, <2>3, <2>6 DEF TypeInv, TypeOK, Line
  <2>8. History'
    BY <2>1, <2>2, <2>5 DEF TypeInv, History
  <2>9. Known'
    BY <1>1, <2>1, <2>2, <2>3, <2>5, <2>6 DEF TypeInv, TypeOK, Known
  <2>10. cur_trans[s] \notin Trans
    BY <1>t, <2>1
  <2>11. \A x \in Segs : x # s => mem'[x] = mem[x]
    BY <1>1, <2>2
  <2>12. Undoable'
    BY <2>2, <2>10, <2>11, EmptySeqs DEF TypeInv, TypeOK, Undoable
  <2>13. redolog \in Seq(Entry)
    BY DEF TypeInv, TypeOK, Entry
  <2>14. \A i \in 1 .. Len(redolog) : redolog[i].seg \in Segs /\ redolog[i].seg # s
    <3> TAKE i \in 1 .. Len(redolog)
    <3>1. redolog[i] \in Entry
      BY <2>13
    <3> QED BY <3>1, <2>10 DEF Entry, TypeInv, Loggable
  <2>15. Loggable'
    BY <2>2, <2>11, <2>14 DEF TypeInv, Loggable
  <2> QED BY <2>7, <2>8, <2>9, <2>12, <2>15 DEF TypeInv
<1>4. CASE CrashInMap
  <2> DEFINE s == call.seg
             f == extended(s, call.size)
  <2>1. s \in Segs /\ f \in Seq(Cells)
    BY <1>2, <1>4 DEF CrashInMap
  <2>2. PICK k \in (IF file[s] = NoFile THEN 0 ELSE Len(file[s])) .. Len(f) :
          file' = [file EXCEPT ![s] = SubSeq(f, 1, k)]
    BY <1>4 DEF CrashInMap
  <2>3. log' = <<>> /\ Dead /\ want' = want /\ damaged' = damaged
    BY <1>4 DEF CrashInMap
  <2> HIDE DEF s, f
  <2>4. SubSeq(f, 1, k) \in Seq(Cells)
    <3>1. file[s] \in Seq(Cells) \cup {NoFile}
      BY <1>1, <2>1
    <3>2. (IF file[s] = NoFile THEN 0 ELSE Len(file[s])) \in Nat /\ Len(f) \in Nat
      BY <2>1, <3>1
    <3>3. k \in Int /\ 1 \in Int /\ \A i \in 1 .. k : f[i] \in Cells
      BY <2>1, <3>2
    <3> QED BY <3>3, SubSeqProperties
  <2>5. file' \in [Segs -> Seq(Cells) \cup {NoFile}]
    BY <1>1, <2>2, <2>4
  <2> QED BY <1>1, <1>e, <2>3, <2>5, DeadTypes
<1>5. ASSUME NEW s \in Segs, Unmap(s) PROVE TypeInv'
  <2>1. \A t \in Trans : s \notin tsegs[t]
    BY <1>5 DEF Unmap, InTransaction
  <2>2. tsegs \in [Trans -> SUBSET (mapped \ {s})]
    BY <2>1 DEF TypeInv, TypeOK
  <2> QED
    BY <1>5, <2>2 DEF Unmap, TypeInv, TypeOK, History, Known, Undoable, Loggable, disk
<1>6. ASSUME NEW s \in Segs, Destroy(s) PROVE TypeInv'
  <2>1. s \notin mapped /\ cur_trans[s] \notin Trans
    BY <1>6, <1>t DEF Destroy
  <2>2. redolog \in Seq(Entry)
    BY DEF TypeInv, TypeOK, Entry
  <2>3. \A i \in 1 .. Len(redolog) : redolog[i].seg \in Segs /\ redolog[i].seg # s
    <3> TAKE i \in 1 .. Len(redolog)
    <3>1. redolog[i] \in Entry
      BY <2>2
    <3> QED BY <3>1, <2>1 DEF Entry, TypeInv, Loggable
  <2>4. \A t \in Trans, x \in Segs : x \in tsegs[t] <=> cur_trans'[x] = t
    BY <1>6, <2>1, NamesAssumption DEF Destroy, TypeInv, TypeOK
  <2>a. /\ file' \in [Segs -> Seq(Cells) \cup {NoFile}]
        /\ mem' \in [Segs -> Seq(Cells)]
        /\ cur_trans' \in [Segs -> Trans \cup {NoTrans, Lost}]
        /\ mods' \in [Segs -> Seq([off : Nat \ {0}, undo : Cells])]
        /\ mapped' \subseteq segments' /\ segments' \subseteq Segs
    <3>1. /\ cur_trans \in [Segs -> Trans \cup {NoTrans, Lost}]
          /\ mods \in [Segs -> Seq([off : Nat \ {0}, undo : Cells])]
          /\ mapped \subseteq segments /\ segments \subseteq Segs
      BY DEF TypeInv, TypeOK
    <3>2. <<>> \in Seq([off : Nat \ {0}, undo : Cells])
      BY EmptySeqs
    <3>3. file' \in [Segs -> Seq(Cells) \cup {NoFile}]
      BY <1>1, <1>6 DEF Destroy
    <3>4. mem' \in [Segs -> Seq(Cells)]
      BY <1>1, <1>6, <1>e DEF Destroy
    <3>5. mods' \in [Segs -> Seq([off : Nat \ {0}, undo : Cells])]
      BY <1>6, <3>1, <3>2 DEF Destroy
    <3> QED BY <1>6, <2>1, <3>1, <3>3, <3>4, <3>5 DEF Destroy
  <2>b. UNCHANGED <<log, up, mapped, redolog, tsegs, call, snap>> /\ up /\ damaged' \subseteq damaged
    BY <1>6 DEF Destroy, Ready
  <2>5. TypeOK'
    BY <2>a, <2>b, <2>4 DEF TypeInv, TypeOK
  <2>6. History' /\ Known'
    BY <1>1, <1>6, <2>1 DEF Destroy, TypeInv, TypeOK, History, Known
  <2>7. Undoable'
    BY <1>6, EmptySeqs DEF Destroy, TypeInv, TypeOK, Undoable
  <2>8. Loggable'
    BY <1>6, <2>3 DEF Destroy, TypeInv, TypeOK, Loggable
  <2> QED BY <2>5, <2>6, <2>7, <2>8 DEF TypeInv
<1> QED BY <1>3, <1>4, <1>5, <1>6

(* The steps of a transaction. *)

LEMMA EndTypes ==
  ASSUME TypeInv, NEW t \in Trans, EndTransaction(t),
         \A s \in Segs : mem'[s] \in Seq(Cells) /\ Len(mem'[s]) = Len(mem[s]),
         mem' \in [Segs -> Seq(Cells)],
         want' \in [Segs -> Seq(Cells) \cup {NoFile}],
         \A s \in mapped : want'[s] # NoFile /\ Len(want'[s]) = Len(want[s]),
         call' = Idle,
         UNCHANGED <<disk, up, segments, mapped, damaged>>
  PROVE  TypeInv'
<1>1. /\ redolog' = <<>>
      /\ mods' = [s \in Segs |-> IF s \in tsegs[t] THEN <<>> ELSE mods[s]]
      /\ cur_trans' = [s \in Segs |-> IF s \in tsegs[t] THEN NoTrans ELSE cur_trans[s]]
      /\ tsegs' = [tsegs EXCEPT ![t] = {}]
      /\ snap' = [s \in Segs |-> IF s \in tsegs[t] THEN <<>> ELSE snap[s]]
  BY DEF EndTransaction
<1>2. Idle \in Calls
  BY DEF Calls
<1>3. \A u \in Trans, s \in Segs : s \in tsegs'[u] <=> cur_trans'[s] = u
  BY <1>1, NamesAssumption DEF TypeInv, TypeOK
<1>4. /\ mods' \in [Segs -> Seq([off : Nat \ {0}, undo : Cells])]
      /\ cur_trans' \in [Segs -> Trans \cup {NoTrans, Lost}]
      /\ redolog' \in Seq([seg : Segs, off : Nat \ {0}])
      /\ tsegs' \in [Trans -> SUBSET mapped]
      /\ snap' \in [Segs -> Seq(Cells)]
  BY <1>1, EmptySeqs DEF TypeInv, TypeOK, History
<1>5. TypeOK'
  BY <1>2, <1>3, <1>4 DEF TypeInv, TypeOK, disk
<1>6. History' /\ Known'
  BY <1>4 DEF TypeInv, TypeOK, History, Known, disk
<1>7. Undoable' /\ Loggable'
  BY <1>1, EmptySeqs DEF TypeInv, TypeOK, Undoable, Loggable
<1> QED BY <1>5, <1>6, <1>7 DEF TypeInv

LEMMA UndoneTypes ==
  ASSUME NEW m \in Seq(Cells), NEW st \in Seq(Undo)
  PROVE  undone(m, st) \in Seq(Cells) /\ Len(undone(m, st)) = Len(m)
<1>1. \A c \in DOMAIN m : undone(m, st)[c] \in Cells
  <2> TAKE c \in DOMAIN m
  <2>1. CASE \E k \in 1 .. Len(st) : st[k].off = c
    <3>1. PICK i \in 1 .. Len(st) :
            st[i].off = c /\ \A j \in i + 1 .. Len(st) : st[j].off # c
      BY <2>1, OldestEntry
    <3>2. st[i].undo \in Cells
      <4>1. st[i] \in Undo
        OBVIOUS
      <4> QED BY <4>1 DEF Undo
    <3>3. undone(m, st)[c] = st[i].undo
      BY <3>1, UndoneFacts
    <3> QED BY <3>2, <3>3
  <2>2. CASE ~\E k \in 1 .. Len(st) : st[k].off = c
    BY <2>2, UndoneFacts
  <2> QED BY <2>1, <2>2
<1>2. DOMAIN undone(m, st) = 1 .. Len(m) /\ Len(m) \in Nat
  BY UndoneDomain
<1>3. undone(m, st) \in [1 .. Len(m) -> Cells]
  BY <1>1, <1>2 DEF undone
<1> QED BY <1>2, <1>3, FcnSeq

LEMMA TransTypes ==
  ASSUME TypeInv,
         \/ CommitLine \/ EndCommit
         \/ \E t \in Trans : Abort(t) \/ \E l \in Lists : Begin(t, l)
         \/ \E t \in Trans, s \in Segs : \E c \in DOMAIN mem[s] : AboutToModify(t, s, c)
         \/ \E t \in Trans, s \in Segs : \E c \in DOMAIN mem[s], x \in Val : Write(t, s, c, x)
  PROVE  TypeInv'
<1>1. /\ want \in [Segs -> Seq(Cells) \cup {NoFile}]
      /\ mem \in [Segs -> Seq(Cells)] /\ mods \in [Segs -> Seq(Undo)]
      /\ redolog \in Seq(Entry)
      /\ call \in Calls /\ (~up => segments = {} /\ call = Idle)
      /\ Idle.op = "none"
  BY DEF TypeInv, TypeOK, History, Undo, Entry, Idle
<1>2. CASE CommitLine
  <2>1. PICK i \in 1 .. Len(redolog), y \in Cells, rest \in Rest :
          logged(redolog[i], mem[redolog[i].seg][redolog[i].off], y, rest)
    BY <1>2, CommitLogs
  <2>2. mem[redolog[i].seg][redolog[i].off] \in Cells
    BY LineFacts, CellsFacts
  <2>3. /\ log' \in Seq(Line) /\ damaged' \subseteq Segs \X (Nat \ {0})
        /\ want' \in [Segs -> Seq(Cells) \cup {NoFile}]
        /\ \A z \in Segs : \/ want'[z] = want[z]
                          \/ /\ want'[z] # NoFile /\ want[z] # NoFile
                             /\ Len(want'[z]) = Len(want[z])
    BY <2>1, <2>2, LoggedFacts
  <2>4. /\ call' \in Calls /\ call # Idle
        /\ UNCHANGED <<file, up, segments, mapped, mem, cur_trans, mods, redolog,
                       tsegs, snap>>
    BY <1>1, <1>2, CallFacts DEF CommitLine
  <2>5. TypeOK' /\ History'
    BY <1>1, <2>3, <2>4 DEF TypeInv, TypeOK, History, Line
  <2>6. Known'
    BY <1>1, <2>3, <2>4 DEF TypeInv, TypeOK, Known
  <2>7. Undoable' /\ Loggable'
    BY <2>4 DEF TypeInv, Undoable, Loggable
  <2> QED BY <2>5, <2>6, <2>7 DEF TypeInv
<1>3. CASE EndCommit
  <2> DEFINE t == call.t
             w(s) == [c \in DOMAIN want[s] |->
                        IF Declared(s, c) THEN mem[s][c] ELSE want[s][c]]
  <2>1. t \in Trans
    BY <1>1, <1>3, CallFacts DEF EndCommit
  <2>2. /\ EndTransaction(t) /\ call' = Idle /\ UNCHANGED <<disk, up, segments, mapped, mem, damaged>>
        /\ want' = [s \in Segs |-> IF s \notin tsegs[t] THEN want[s] ELSE w(s)]
    BY <1>3 DEF EndCommit
  <2> HIDE DEF t
  <2>3. ASSUME NEW s \in Segs, s \in tsegs[t]
        PROVE  w(s) \in Seq(Cells) /\ Len(w(s)) = Len(want[s]) /\ w(s) # NoFile
    <3>a. cur_trans[s] \in Trans
      BY <2>1, <2>3 DEF TypeInv, TypeOK
    <3>1. /\ want[s] \in Seq(Cells) /\ Len(mem[s]) <= Len(want[s]) /\ mem[s] \in Seq(Cells)
          /\ \A i \in 1 .. Len(mods[s]) : mods[s][i].off <= Len(mem[s])
          /\ mods[s] \in Seq(Undo)
      BY <1>1, <3>a, InTransFacts DEF TypeInv, Undoable
    <3>2. \A i \in 1 .. Len(mods[s]) : mods[s][i].off \in 1 .. Len(mem[s])
      <4> TAKE i \in 1 .. Len(mods[s])
      <4>1. mods[s][i] \in Undo
        BY <3>1
      <4> QED BY <3>1, <4>1 DEF Undo
    <3>3. \A c \in DOMAIN want[s] :
            (IF Declared(s, c) THEN mem[s][c] ELSE want[s][c]) \in Cells
      BY <3>1, <3>2 DEF Declared
    <3>b. DOMAIN want[s] = 1 .. Len(want[s]) /\ Len(want[s]) \in Nat
      BY <3>1
    <3>4. w(s) \in [1 .. Len(want[s]) -> Cells] /\ Len(want[s]) \in Nat
      BY <3>3, <3>b
    <3> HIDE DEF w
    <3> QED BY <3>4, FcnSeq, FileIsFile
  <2> HIDE DEF w
  <2>4. /\ want' \in [Segs -> Seq(Cells) \cup {NoFile}]
        /\ \A s \in mapped : want'[s] # NoFile /\ Len(want'[s]) = Len(want[s])
    BY <1>1, <2>2, <2>3 DEF TypeInv, TypeOK, Known
  <2> QED BY <1>1, <2>1, <2>2, <2>4, EndTypes
<1>4. ASSUME NEW t \in Trans, Abort(t) PROVE TypeInv'
  <2>1. \A s \in Segs : /\ undone(mem[s], mods[s]) \in Seq(Cells)
                        /\ Len(undone(mem[s], mods[s])) = Len(mem[s])
    BY <1>1, UndoneTypes
  <2>2. mem' = [s \in Segs |-> IF s \in tsegs[t] THEN undone(mem[s], mods[s]) ELSE mem[s]]
    BY <1>4 DEF Abort
  <2>3. /\ mem' \in [Segs -> Seq(Cells)]
        /\ \A s \in Segs : mem'[s] \in Seq(Cells) /\ Len(mem'[s]) = Len(mem[s])
    BY <1>1, <2>1, <2>2
  <2>4. /\ EndTransaction(t) /\ call' = Idle /\ want' = want
        /\ UNCHANGED <<disk, up, segments, mapped, damaged>>
    BY <1>4 DEF Abort, Ready
  <2>5. \A s \in mapped : want'[s] # NoFile /\ Len(want'[s]) = Len(want[s])
    BY <2>4 DEF TypeInv, Known
  <2> QED BY <1>1, <2>3, <2>4, <2>5, EndTypes
<1>5. ASSUME NEW t \in Trans, NEW l \in Lists, Begin(t, l) PROVE TypeInv'
  <2>1. UNCHANGED <<disk, up, segments, mapped, mem, mods, redolog, call, want, damaged>> /\ tsegs[t] = {}
    BY <1>5 DEF Begin
  <2>2. \A i \in 1 .. Len(l) : l[i] \in Segs
    BY <1>5 DEF Lists
  <2>3. CASE \A i \in 1 .. Len(l) : Free(l[i])
    <3> DEFINE ss == {l[i] : i \in 1 .. Len(l)}
    <3>1. ss \subseteq mapped /\ \A s \in ss : cur_trans[s] = NoTrans
      BY <2>3 DEF Free
    <3>2. /\ tsegs' = [tsegs EXCEPT ![t] = ss]
          /\ cur_trans' = [s \in Segs |-> IF s \in ss THEN t ELSE cur_trans[s]]
          /\ snap' = [s \in Segs |-> IF s \in ss THEN mem[s] ELSE snap[s]]
      BY <1>5, <2>3 DEF Begin
    <3> HIDE DEF ss
    <3>3. \A u \in Trans, s \in Segs : s \in tsegs'[u] <=> cur_trans'[s] = u
      BY <2>1, <3>1, <3>2, NamesAssumption DEF TypeInv, TypeOK
    <3>4. TypeOK' /\ History'
      BY <1>1, <2>1, <3>1, <3>2, <3>3 DEF TypeInv, TypeOK, History, disk
    <3>5. Known' /\ Undoable' /\ Loggable'
      <4>1. \A i \in 1 .. Len(redolog) : redolog[i] \in Entry
        BY <1>1
      <4>2. \A s \in Segs : cur_trans[s] \in Trans => cur_trans'[s] \in Trans
        BY <3>2
      <4> QED BY <2>1, <4>1, <4>2 DEF TypeInv, TypeOK, Known, Undoable, Loggable, Entry, disk
    <3> QED BY <3>4, <3>5 DEF TypeInv
  <2>4. CASE ~(\A i \in 1 .. Len(l) : Free(l[i]))
    <3> DEFINE Taken(s) == \E i \in 1 .. Len(l) : l[i] = s /\ \A j \in 1 .. i : Free(l[j])
    <3>1. /\ cur_trans' = [s \in Segs |-> IF Taken(s) THEN Lost ELSE cur_trans[s]]
          /\ UNCHANGED <<tsegs, snap>>
      BY <1>5, <2>4 DEF Begin
    <3>2. \A s \in Segs : Taken(s) => cur_trans[s] = NoTrans
      BY DEF Free
    <3> HIDE DEF Taken
    <3>3. \A u \in Trans, s \in Segs : s \in tsegs'[u] <=> cur_trans'[s] = u
      BY <3>1, <3>2, NamesAssumption DEF TypeInv, TypeOK
    <3>4. TypeOK' /\ History'
      BY <1>1, <2>1, <3>1, <3>3 DEF TypeInv, TypeOK, History, disk
    <3>5. \A s \in Segs : cur_trans[s] \in Trans <=> cur_trans'[s] \in Trans
      BY <3>1, <3>2, NamesAssumption
    <3>6. Known' /\ Undoable' /\ Loggable'
      <4>1. \A i \in 1 .. Len(redolog) : redolog[i] \in Entry
        BY <1>1
      <4> QED BY <2>1, <4>1, <3>5 DEF TypeInv, TypeOK, Known, Undoable, Loggable, Entry, disk
    <3> QED BY <3>4, <3>6 DEF TypeInv
  <2> QED BY <2>3, <2>4
<1>6. ASSUME NEW t \in Trans, NEW s \in Segs, NEW c \in DOMAIN mem[s], AboutToModify(t, s, c)
      PROVE  TypeInv'
  <2> DEFINE e == [off |-> c, undo |-> mem[s][c]]
             r == [seg |-> s, off |-> c]
  <2>1. c \in Nat \ {0} /\ c \in 1 .. Len(mem[s]) /\ mem[s][c] \in Cells
    BY <1>1
  <2>2. e \in Undo /\ r \in Entry /\ e.off = c /\ r.seg = s /\ r.off = c
    BY <2>1 DEF Undo, Entry
  <2>3. /\ mods' = [mods EXCEPT ![s] = <<e>> \o mods[s]]
        /\ redolog' = Append(redolog, r)
        /\ cur_trans[s] = t
        /\ UNCHANGED <<disk, up, segments, mapped, mem, cur_trans, tsegs, call, want, snap, damaged>>
    BY <1>6 DEF AboutToModify
  <2> HIDE DEF e, r
  <2>4. /\ <<e>> \o mods[s] \in Seq(Undo)
        /\ \A i \in 1 .. Len(<<e>> \o mods[s]) :
             (<<e>> \o mods[s])[i] = e \/ \E j \in 1 .. Len(mods[s]) : (<<e>> \o mods[s])[i] = mods[s][j]
    <3>1. mods[s] \in Seq(Undo) /\ <<e>> \in Seq(Undo) /\ Len(<<e>>) = 1 /\ <<e>>[1] = e
      BY <1>1, <2>2
    <3>2. /\ <<e>> \o mods[s] \in Seq(Undo)
          /\ Len(<<e>> \o mods[s]) = 1 + Len(mods[s])
          /\ \A i \in 1 .. 1 + Len(mods[s]) :
               (<<e>> \o mods[s])[i] = IF i <= 1 THEN e ELSE mods[s][i - 1]
      BY <3>1, ConcatProperties
    <3>3. \A i \in 1 .. 1 + Len(mods[s]) : i <= 1 \/ i - 1 \in 1 .. Len(mods[s])
      BY <3>1
    <3> QED BY <3>2, <3>3
  <2>a. mods' \in [Segs -> Seq(Undo)]
    BY <1>1, <2>3, <2>4
  <2>b. redolog' \in Seq(Entry)
    BY <1>1, <2>2, <2>3
  <2>5. TypeOK' /\ History' /\ Known'
    BY <2>3, <2>a, <2>b DEF TypeInv, TypeOK, History, Known, disk, Undo, Entry
  <2>6. Undoable'
    BY <1>1, <2>1, <2>2, <2>3, <2>4 DEF TypeInv, Undoable
  <2>7. Loggable'
    <3>1. /\ Len(redolog') = Len(redolog) + 1
          /\ \A i \in 1 .. Len(redolog') : redolog'[i] = r \/ \E j \in 1 .. Len(redolog) : redolog'[i] = redolog[j]
      BY <1>1, <2>2, <2>3
    <3> QED BY <2>1, <2>2, <2>3, <3>1 DEF TypeInv, Loggable
  <2> QED BY <2>5, <2>6, <2>7 DEF TypeInv
<1>7. ASSUME NEW t \in Trans, NEW s \in Segs, NEW c \in DOMAIN mem[s], NEW x \in Val,
             Write(t, s, c, x)
      PROVE  TypeInv'
  <2> DEFINE m == [mem[s] EXCEPT ![c] = x]
  <2>1. c \in 1 .. Len(mem[s]) /\ x \in Cells /\ mem[s] \in Seq(Cells)
    BY <1>1, CellsFacts
  <2>2. m \in Seq(Cells) /\ Len(m) = Len(mem[s])
    BY <2>1, ExceptSeq
  <2>3. mem' = [mem EXCEPT ![s] = m]
    BY <1>7 DEF Write
  <2>4. UNCHANGED <<disk, up, segments, mapped, cur_trans, mods, redolog, tsegs, call, want, snap, damaged>>
    BY <1>7 DEF Write
  <2> HIDE DEF m
  <2>5. \A y \in Segs : Len(mem'[y]) = Len(mem[y])
    BY <1>1, <2>2, <2>3
  <2>6. TypeOK' /\ History'
    BY <1>1, <2>2, <2>3, <2>4 DEF TypeInv, TypeOK, History, disk
  <2>7. Known' /\ Undoable'
    BY <2>4, <2>5 DEF TypeInv, TypeOK, Known, Undoable, disk
  <2>8. Loggable'
    <3>1. \A i \in 1 .. Len(redolog) : redolog[i] \in Entry
      BY <1>1
    <3> QED BY <2>4, <2>5, <3>1 DEF TypeInv, Loggable, Entry
  <2> QED BY <2>6, <2>7, <2>8 DEF TypeInv
<1> QED BY <1>2, <1>3, <1>4, <1>5, <1>6, <1>7

LEMMA NextTypes ==
  ASSUME TypeInv, [Next]_vars
  PROVE  TypeInv'
<1>1. CASE UNCHANGED vars
  BY <1>1 DEF vars, disk, process, TypeInv, TypeOK, History, Known, Undoable, Loggable
<1>2. CASE Next
  BY <1>2, TruncateTypes, MapTypes, TransTypes DEF Next, Library, Application
<1> QED BY <1>1, <1>2

(* The types of everything on the disk and in the process; and an undo log *)
(* (Undoable) and the redo log (Loggable) only ever name cells that are in *)
(* the memory of their segment, whatever is mapped with another size,      *)
(* destroyed or crashes in between.                                        *)
THEOREM TypeCorrectness == Spec => [](TypeOK /\ Undoable /\ Loggable)
<1>1. TypeInv /\ [Next]_vars => TypeInv'
  BY NextTypes
<1>2. TypeInv => TypeOK /\ Undoable /\ Loggable
  BY DEF TypeInv
<1> QED BY InitTypes, <1>1, <1>2, PTL DEF Spec

-----------------------------------------------------------------------------
(* Abort.  At every moment of a transaction the undo log leads back to the *)
(* memory it began with.                                                   *)

LEMMA SameRestores ==
  ASSUME AbortRestores,
         \A t \in Trans : \A s \in tsegs'[t] :
           /\ s \in tsegs[t] /\ snap'[s] = snap[s]
           /\ undone(mem'[s], mods'[s]) = undone(mem[s], mods[s])
  PROVE  AbortRestores'
<1>1. AbortRestores' <=> \A t \in Trans : \A s \in tsegs'[t] : undone(mem'[s], mods'[s]) = snap'[s]
  BY DEF AbortRestores, undone
<1> QED BY <1>1 DEF AbortRestores

LEMMA NextRestores ==
  ASSUME TypeInv, AbortRestores, [Next]_vars
  PROVE  AbortRestores'
<1>1. /\ mem \in [Segs -> Seq(Cells)] /\ mods \in [Segs -> Seq(Undo)]
      /\ tsegs \in [Trans -> SUBSET mapped] /\ mapped \subseteq Segs
      /\ \A t \in Trans, s \in Segs : s \in tsegs[t] <=> cur_trans[s] = t
  BY DEF TypeInv, TypeOK, Undo
<1>2. CASE UNCHANGED <<mem, mods, tsegs, snap>>
  BY <1>2, SameRestores
<1>3. CASE Dead
  BY <1>3 DEF Dead, AbortRestores
<1>4. CASE MapSegment
  <2>1. \A t \in Trans : \A s \in tsegs[t] : s # call.seg
    BY <1>1, <1>4 DEF MapSegment
  <2> QED BY <1>1, <1>4, <2>1, SameRestores DEF MapSegment
<1>5. ASSUME NEW s \in Segs, Destroy(s) PROVE AbortRestores'
  <2>1. \A t \in Trans : s \notin tsegs[t]
    BY <1>1, <1>5 DEF Destroy
  <2> QED BY <1>1, <1>5, <2>1, SameRestores DEF Destroy
<1>6. ASSUME NEW t \in Trans, EndTransaction(t),
             \A s \in Segs : s \notin tsegs[t] => mem'[s] = mem[s]
      PROVE  AbortRestores'
  <2>1. \A u \in Trans : \A s \in tsegs'[u] : s \in Segs /\ s \in tsegs[u] /\ s \notin tsegs[t]
    BY <1>1, <1>6 DEF EndTransaction
  <2> QED BY <1>6, <2>1, SameRestores DEF EndTransaction
<1>7. ASSUME NEW t \in Trans, NEW l \in Lists, Begin(t, l) PROVE AbortRestores'
  <2>1. CASE \A i \in 1 .. Len(l) : Free(l[i])
    <3> DEFINE ss == {l[i] : i \in 1 .. Len(l)}
    <3>1. ss \subseteq mapped /\ \A s \in ss : cur_trans[s] = NoTrans
      BY <2>1 DEF Free
    <3>2. /\ tsegs' = [tsegs EXCEPT ![t] = ss]
          /\ snap' = [s \in Segs |-> IF s \in ss THEN mem[s] ELSE snap[s]]
          /\ mem' = mem /\ mods' = mods
      BY <1>7, <2>1 DEF Begin
    <3> HIDE DEF ss
    <3>3. ASSUME NEW u \in Trans, NEW s \in tsegs'[u]
          PROVE  undone(mem[s], mods[s]) = snap'[s]
      <4>1. CASE s \in ss
        <5>1. s \in Segs /\ mods[s] = <<>>
          BY <1>1, <3>1, <4>1, NamesAssumption DEF TypeInv, Undoable
        <5> QED BY <1>1, <3>2, <4>1, <5>1, UndoneNothing
      <4>2. CASE s \notin ss
        <5>1. s \in tsegs[u] /\ s \in Segs
          BY <1>1, <3>2, <4>2
        <5> QED BY <3>2, <4>2, <5>1 DEF AbortRestores
      <4> QED BY <4>1, <4>2
    <3>4. AbortRestores' <=> \A u \in Trans : \A s \in tsegs'[u] : undone(mem'[s], mods'[s]) = snap'[s]
      BY DEF AbortRestores
    <3> QED BY <3>2, <3>3, <3>4
  <2>2. CASE ~(\A i \in 1 .. Len(l) : Free(l[i]))
    BY <1>7, <2>2, SameRestores DEF Begin
  <2> QED BY <2>1, <2>2
<1>8. ASSUME NEW t \in Trans, NEW s \in Segs, NEW c \in DOMAIN mem[s], AboutToModify(t, s, c)
      PROVE  AbortRestores'
  <2>1. /\ mods' = [mods EXCEPT ![s] = <<[off |-> c, undo |-> mem[s][c]]>> \o mods[s]]
        /\ UNCHANGED <<mem, tsegs, snap>>
    BY <1>8 DEF AboutToModify
  <2>2. c \in Nat \ {0} /\ mem[s] \in Seq(Cells) /\ mods[s] \in Seq(Undo)
    BY <1>1
  <2>3. undone(mem[s], mods'[s]) = undone(mem[s], mods[s])
    <3>1. mods'[s] = <<[off |-> c, undo |-> mem[s][c]]>> \o mods[s]
      BY <1>1, <2>1
    <3> QED BY <2>2, <3>1, UndonePush
  <2>4. \A x \in Segs : x # s => mods'[x] = mods[x]
    BY <1>1, <2>1
  <2> QED BY <1>1, <2>1, <2>3, <2>4, SameRestores
<1>9. ASSUME NEW t \in Trans, NEW s \in Segs, NEW c \in DOMAIN mem[s], NEW x \in Val,
             Write(t, s, c, x)
      PROVE  AbortRestores'
  <2>1. mem' = [mem EXCEPT ![s] = [mem[s] EXCEPT ![c] = x]] /\ UNCHANGED <<mods, tsegs, snap>>
    BY <1>9 DEF Write
  <2>2. PICK k \in 1 .. Len(mods[s]) : mods[s][k].off = c
    BY <1>9 DEF Write, Declared
  <2>3. undone([mem[s] EXCEPT ![c] = x], mods[s]) = undone(mem[s], mods[s])
    <3>1. mem[s] \in Seq(Cells) /\ mods[s] \in Seq(Undo)
      BY <1>1
    <3> QED BY <2>2, <3>1, UndoneWrite
  <2>4. mem'[s] = [mem[s] EXCEPT ![c] = x] /\ \A y \in Segs : y # s => mem'[y] = mem[y]
    BY <1>1, <2>1
  <2> QED BY <1>1, <2>1, <2>3, <2>4, SameRestores
<1>10. ASSUME NEW t \in Trans, Abort(t) PROVE AbortRestores'
  BY <1>6, <1>10 DEF Abort
<1>11. CASE EndCommit
  <2>1. call.t \in Trans
    BY <1>11, CallFacts DEF EndCommit, TypeInv, TypeOK
  <2> QED BY <1>6, <1>11, <2>1 DEF EndCommit
<1>12. CASE UNCHANGED vars
  BY <1>2, <1>12 DEF vars, process
<1>13. CASE \/ Start \/ BeginTruncate \/ TruncateLine \/ EndTruncate \/ MapRefused \/ CommitLine
            \/ \E s \in Segs : Unmap(s) \/ \E n \in Sizes : BeginMap(s, n)
            \/ \E t \in Trans : BeginCommit(t)
  BY <1>2, <1>13
     DEF Start, BeginTruncate, TruncateLine, EndTruncate, MapRefused, CommitLine, Unmap,
         BeginMap, BeginCommit
<1>14. CASE TruncateDies \/ Crash \/ CrashInLine \/ CrashInMap
  BY <1>3, <1>14 DEF TruncateDies, Crash, CrashInLine, CrashInMap
<1> QED BY <1>4, <1>5, <1>7, <1>8, <1>9, <1>10, <1>11, <1>12, <1>13, <1>14
        DEF Next, Library, Application

(* rvm_abort_trans gives back the memory of rvm_begin_trans whenever it is *)
(* called, however often and in whatever order the transaction declared    *)
(* and wrote its cells, and whatever other transactions did meanwhile.     *)
THEOREM AbortIsExact == Spec => []AbortRestores
<1>1. Init => AbortRestores
  BY DEF Init, AbortRestores
<1>2. TypeInv /\ AbortRestores /\ [Next]_vars => TypeInv' /\ AbortRestores'
  BY NextTypes, NextRestores
<1> QED BY InitTypes, <1>1, <1>2, PTL DEF Spec

=============================================================================
