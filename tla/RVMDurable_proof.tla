-------------------------- MODULE RVMDurable_proof --------------------------
(***************************************************************************)
(* Proofs about RVM, for any segments, sizes and values.  When at most one *)
(* transaction runs at a time, the disk keeps what was committed, but for  *)
(* the cells that a torn or split line has damaged, and the memory agrees  *)
(* with it.  (With two, the redo log they share loses commits.)  And with  *)
(* any number of transactions only a line of a commit changes what the     *)
(* next process will find.                                                 *)
(***************************************************************************)
EXTENDS RVM_proof

-----------------------------------------------------------------------------
(* What the disk holds in a cell: the value of the last line of the log    *)
(* about it, or else of the file.                                          *)

About(r, s, c) == r.seg = s /\ r.off = c
None(l, s, c) == \A i \in 1 .. Len(l) : ~About(l[i], s, c)
Last(l, i, s, c) == About(l[i], s, c) /\ \A j \in i + 1 .. Len(l) : ~About(l[j], s, c)

Holds(l, f, s, c, x) ==
  \/ \E i \in 1 .. Len(l) : Last(l, i, s, c) /\ l[i].val = x
  \/ None(l, s, c) /\ c \in 1 .. Len(f) /\ f[c] = x

(* A cell that nobody has written: zero, or not there. *)
Clear(l, f, s, c) ==
  Holds(l, f, s, c, 0) \/ (None(l, s, c) /\ c \notin 1 .. Len(f))

(* The first n lines of the log are in the files. *)
PlayedTo(l, f, n) ==
  \A i \in 1 .. n :
    LET r == l[i] IN
    /\ r.parses /\ f[r.seg] # NoFile /\ r.off <= Len(f[r.seg])
    /\ (\A j \in i + 1 .. n : ~About(l[j], r.seg, r.off)) => f[r.seg][r.off] = r.val

(* The same as a value, which is what RVM calls recovered. *)
Found(l, f, s, c) ==
  LET L == {i \in 1 .. Len(l) : About(l[i], s, c)} IN
  IF L # {} THEN l[CHOOSE i \in L : \A j \in L : j <= i].val
  ELSE IF c \in DOMAIN f THEN f[c] ELSE 0

LEMMA FoundRecovered ==
  \A s, c : recovered(s, c) = Found(log, file[s], s, c)
BY DEF recovered, lines, Found, About

LEMMA FoundHolds ==
  ASSUME NEW l \in Seq(Line), NEW f \in Seq(Cells), NEW s, NEW c
  PROVE  /\ \A x : Holds(l, f, s, c, x) => Found(l, f, s, c) = x
         /\ None(l, s, c) /\ c \notin 1 .. Len(f) => Found(l, f, s, c) = 0
<1> DEFINE L == {i \in 1 .. Len(l) : About(l[i], s, c)}
<1>1. Len(l) \in Nat /\ DOMAIN f = 1 .. Len(f)
  OBVIOUS
<1>2. ASSUME NEW x, NEW i \in 1 .. Len(l), Last(l, i, s, c), l[i].val = x
      PROVE  Found(l, f, s, c) = x
  <2>1. i \in L /\ \A j \in L : j <= i
    BY <1>1, <1>2 DEF Last
  <2>2. \A k \in L : (\A j \in L : j <= k) => k = i
    <3> SUFFICES ASSUME NEW k \in L, \A j \in L : j <= k
                 PROVE  k = i
      OBVIOUS
    <3>1. i <= k /\ k <= i /\ k \in Int /\ i \in Int
      BY <2>1
    <3> QED BY <3>1
  <2> HIDE DEF L
  <2>3. i = CHOOSE k \in L : \A j \in L : j <= k
    BY <2>1, <2>2
  <2> QED BY <1>2, <2>1, <2>3 DEF Found, L
<1>3. None(l, s, c) => L = {}
  BY DEF None
<1> QED BY <1>1, <1>2, <1>3 DEF Found, Holds

LEMMA HoldsSomething ==
  ASSUME NEW l \in Seq(Line), NEW f \in Seq(Cells), NEW s, NEW c
  PROVE  (\E x : Holds(l, f, s, c, x)) \/ (None(l, s, c) /\ c \notin 1 .. Len(f))
<1> DEFINE L == {i \in 1 .. Len(l) : About(l[i], s, c)}
<1>1. CASE L # {}
  <2>1. Len(l) \in Nat /\ L \subseteq 1 .. Len(l)
    OBVIOUS
  <2>2. PICK i \in L : \A j \in L : j <= i
    <3> HIDE DEF L
    <3> QED BY <1>1, <2>1, HasLast
  <2>3. Last(l, i, s, c)
    BY <2>1, <2>2 DEF Last
  <2> QED BY <2>3 DEF Holds
<1>2. CASE L = {}
  BY <1>2 DEF Holds, None
<1> QED BY <1>1, <1>2

(* A line that is appended takes over its cell, and only its cell. *)
LEMMA HoldsAppend ==
  ASSUME NEW l \in Seq(Line), NEW r \in Line, NEW f, NEW s \in Segs, NEW c \in Nat
  PROVE  /\ About(r, s, c) => Holds(Append(l, r), f, s, c, r.val)
         /\ ~About(r, s, c) =>
              /\ \A x : Holds(l, f, s, c, x) => Holds(Append(l, r), f, s, c, x)
              /\ None(l, s, c) => None(Append(l, r), s, c)
<1> DEFINE k == Append(l, r)
<1>1. /\ Len(k) = Len(l) + 1 /\ Len(l) \in Nat /\ k[Len(l) + 1] = r
      /\ \A i \in 1 .. Len(l) : k[i] = l[i]
  OBVIOUS
<1> HIDE DEF k
<1>2. ASSUME About(r, s, c) PROVE Holds(k, f, s, c, r.val)
  <2>1. Len(k) \in 1 .. Len(k) /\ k[Len(k)] = r
    BY <1>1
  <2>2. \A j \in Len(k) + 1 .. Len(k) : FALSE
    BY <1>1
  <2>3. Last(k, Len(k), s, c)
    BY <1>2, <2>1, <2>2 DEF Last
  <2> QED BY <2>1, <2>3 DEF Holds
<1>3. ASSUME ~About(r, s, c), None(l, s, c) PROVE None(k, s, c)
  <2>1. \A i \in 1 .. Len(k) : i \in 1 .. Len(l) \/ i = Len(l) + 1
    BY <1>1
  <2> QED BY <1>1, <1>3, <2>1 DEF None
<1>4. ASSUME ~About(r, s, c), NEW x, Holds(l, f, s, c, x) PROVE Holds(k, f, s, c, x)
  <2>1. ASSUME NEW i \in 1 .. Len(l), Last(l, i, s, c), l[i].val = x
        PROVE  Holds(k, f, s, c, x)
    <3>1. i \in 1 .. Len(k) /\ k[i] = l[i]
      BY <1>1
    <3>2. \A j \in i + 1 .. Len(k) : (j \in i + 1 .. Len(l) /\ j \in 1 .. Len(l)) \/ j = Len(l) + 1
      BY <1>1
    <3>3. Last(k, i, s, c)
      BY <1>1, <1>4, <2>1, <3>1, <3>2 DEF Last
    <3> QED BY <2>1, <3>1, <3>3 DEF Holds
  <2> QED BY <1>3, <1>4, <2>1 DEF Holds
<1> QED BY <1>2, <1>3, <1>4 DEF k

(* What is in the log already may be written to the file of its cell. *)
LEMMA HoldsPut ==
  ASSUME NEW l, NEW f \in Seq(Cells), NEW s, NEW c \in Nat \ {0},
         NEW d \in Nat \ {0}, NEW v \in Cells, d = c => ~None(l, s, c)
  PROVE  /\ \A x : Holds(l, f, s, c, x) => Holds(l, put(f, d, v), s, c, x)
         /\ Clear(l, f, s, c) => Clear(l, put(f, d, v), s, c)
<1> DEFINE g == put(f, d, v)
<1>0. /\ g \in Seq(Cells)
      /\ Len(g) = IF d > Len(f) THEN d ELSE Len(f)
      /\ g[d] = v
      /\ \A i \in 1 .. Len(f) : i # d => g[i] = f[i]
      /\ \A i \in Len(f) + 1 .. d - 1 : g[i] = 0
  BY PutFacts, Zenon
<1> HIDE DEF g
<1>1. /\ Len(g) \in Nat /\ Len(f) \in Nat /\ Len(g) >= Len(f)
      /\ Len(g) = d \/ Len(g) = Len(f)
      /\ \A i \in 1 .. Len(f) : i # d => g[i] = f[i]
      /\ \A i \in Len(f) + 1 .. d - 1 : g[i] = 0
  BY <1>0
<1>2. ASSUME NEW x, Holds(l, f, s, c, x) PROVE Holds(l, g, s, c, x)
  BY <1>1, <1>2 DEF Holds
<1>3. ASSUME None(l, s, c), c \notin 1 .. Len(f) PROVE Clear(l, g, s, c)
  <2>1. CASE c \in 1 .. Len(g)
    <3>1. c \in Len(f) + 1 .. d - 1
      BY <1>1, <1>3, <2>1
    <3> QED BY <1>1, <1>3, <2>1, <3>1 DEF Clear, Holds
  <2> QED BY <1>3, <2>1 DEF Clear
<1> QED BY <1>2, <1>3 DEF Clear, g

(* Once every line is played, the files hold it all. *)
LEMMA HoldsPlayed ==
  ASSUME NEW l \in Seq(Line), NEW f \in [Segs -> Seq(Cells) \cup {NoFile}],
         PlayedTo(l, f, Len(l)), NEW s \in Segs, NEW c \in Nat \ {0}
  PROVE  /\ \A x : Holds(l, f[s], s, c, x) => c \in 1 .. Len(f[s]) /\ f[s][c] = x
         /\ Clear(l, f[s], s, c) => (c \in 1 .. Len(f[s]) => f[s][c] = 0)
<1>1. ASSUME NEW x, NEW i \in 1 .. Len(l), Last(l, i, s, c), l[i].val = x
      PROVE  c \in 1 .. Len(f[s]) /\ f[s][c] = x
  <2>1. f[s] # NoFile /\ c <= Len(f[s]) /\ f[s][c] = x
    BY <1>1 DEF Last, About, PlayedTo
  <2>2. Len(f[s]) \in Nat
    BY <2>1
  <2> QED BY <2>1, <2>2
<1>2. ASSUME NEW x, Holds(l, f[s], s, c, x)
      PROVE  c \in 1 .. Len(f[s]) /\ f[s][c] = x
  BY <1>1, <1>2 DEF Holds
<1> QED BY <1>2 DEF Clear

-----------------------------------------------------------------------------
(* What the log and the files keep of what is wanted in a segment: every   *)
(* cell of it, and nothing beyond it, but for the damaged cells D.         *)

Files == Seq(Cells) \cup {NoFile}

Keeps(l, f, w, D, s) ==
  /\ w # NoFile =>
       /\ f # NoFile
       /\ \A c \in 1 .. Len(w) :
            <<s, c>> \in D \/ w[c] = Garbage \/ Holds(l, f, s, c, w[c])
  /\ f # NoFile =>
       \A c \in Nat \ {0} :
         w = NoFile \/ c > Len(w) => <<s, c>> \in D \/ Clear(l, f, s, c)

(* A truncation that gets to the end may drop the log. *)
LEMMA KeepsPlayed ==
  ASSUME NEW l \in Seq(Line), NEW f \in [Segs -> Files], PlayedTo(l, f, Len(l)),
         NEW s \in Segs, NEW w \in Files, NEW D, Keeps(l, f[s], w, D, s)
  PROVE  Keeps(<<>>, f[s], w, D, s)
<1>1. \A c : None(<<>>, s, c)
  BY EmptySeqs DEF None
<1>2. ASSUME NEW c \in Nat \ {0}
      PROVE  /\ \A x : Holds(l, f[s], s, c, x) => Holds(<<>>, f[s], s, c, x)
             /\ Clear(l, f[s], s, c) => Clear(<<>>, f[s], s, c)
  <2>1. f \in [Segs -> Seq(Cells) \cup {NoFile}]
    BY DEF Files
  <2>2. /\ \A x : Holds(l, f[s], s, c, x) => c \in 1 .. Len(f[s]) /\ f[s][c] = x
        /\ Clear(l, f[s], s, c) => (c \in 1 .. Len(f[s]) => f[s][c] = 0)
    BY <2>1, HoldsPlayed, Zenon
  <2> QED BY <1>1, <2>2 DEF Holds, Clear
<1>3. w # NoFile => \A c \in 1 .. Len(w) : c \in Nat \ {0}
  BY DEF Files
<1> QED BY <1>2, <1>3 DEF Keeps

LEMMA KeepsPut ==
  ASSUME NEW l, NEW f \in Seq(Cells), NEW s, NEW w \in Files, NEW d \in Nat \ {0},
         NEW v \in Cells, ~None(l, s, d), NEW D, Keeps(l, f, w, D, s)
  PROVE  Keeps(l, put(f, d, v), w, D, s)
<1>1. put(f, d, v) \in Seq(Cells)
  BY PutFacts
<1>2. f # NoFile /\ put(f, d, v) # NoFile
  BY <1>1, FileIsFile
<1>3. ASSUME NEW c \in Nat \ {0}
      PROVE  /\ \A x : Holds(l, f, s, c, x) => Holds(l, put(f, d, v), s, c, x)
             /\ Clear(l, f, s, c) => Clear(l, put(f, d, v), s, c)
  <2>1. d = c => ~None(l, s, c)
    OBVIOUS
  <2> QED BY <2>1, HoldsPut, Zenon
<1>4. w # NoFile => \A c \in 1 .. Len(w) : c \in Nat \ {0}
  BY DEF Files
<1> QED BY <1>2, <1>3, <1>4 DEF Keeps

(* A line that is appended: its cell is damaged, or is wanted to be what   *)
(* the line says; nothing else becomes wanted or is repaired.              *)
LEMMA KeepsAppend ==
  ASSUME NEW l \in Seq(Line), NEW r \in Line, NEW f, NEW s \in Segs, NEW D, NEW E,
         NEW w \in Files, NEW u \in Files, Keeps(l, f, w, D, s),
         u = NoFile <=> w = NoFile, w # NoFile => Len(u) = Len(w),
         \A c \in Nat \ {0} :
           \/ <<s, c>> \in E
           \/ About(r, s, c) /\ w # NoFile /\ c <= Len(w) /\ u[c] = r.val
           \/ ~About(r, s, c) /\ <<s, c>> \notin D /\ (w # NoFile => u[c] = w[c])
  PROVE  Keeps(Append(l, r), f, u, E, s)
<1>1. ASSUME NEW c \in Nat \ {0}
      PROVE  /\ About(r, s, c) => Holds(Append(l, r), f, s, c, r.val)
             /\ ~About(r, s, c) =>
                  /\ \A x : Holds(l, f, s, c, x) => Holds(Append(l, r), f, s, c, x)
                  /\ Clear(l, f, s, c) => Clear(Append(l, r), f, s, c)
  <2>1. /\ About(r, s, c) => Holds(Append(l, r), f, s, c, r.val)
        /\ ~About(r, s, c) =>
             /\ \A x : Holds(l, f, s, c, x) => Holds(Append(l, r), f, s, c, x)
             /\ None(l, s, c) => None(Append(l, r), s, c)
    BY HoldsAppend
  <2> QED BY <2>1 DEF Clear
<1>2. w # NoFile => /\ f # NoFile /\ Len(w) \in Nat
                    /\ \A c \in 1 .. Len(w) : c \in Nat \ {0} /\ c <= Len(w)
  BY DEF Keeps, Files
<1>3. ASSUME u # NoFile, NEW c \in 1 .. Len(u)
      PROVE  <<s, c>> \in E \/ u[c] = Garbage \/ Holds(Append(l, r), f, s, c, u[c])
  <2>1. c \in 1 .. Len(w) /\ c \in Nat \ {0} /\ w # NoFile
    BY <1>2, <1>3
  <2>2. <<s, c>> \in D \/ w[c] = Garbage \/ Holds(l, f, s, c, w[c])
    BY <2>1 DEF Keeps
  <2>3. CASE <<s, c>> \in E
    BY <2>3
  <2>4. CASE About(r, s, c) /\ u[c] = r.val
    BY <1>1, <2>1, <2>4
  <2>5. CASE ~About(r, s, c) /\ <<s, c>> \notin D /\ u[c] = w[c]
    BY <1>1, <2>1, <2>2, <2>5
  <2> QED BY <2>1, <2>3, <2>4, <2>5
<1>4. ASSUME f # NoFile, NEW c \in Nat \ {0}, u = NoFile \/ c > Len(u)
      PROVE  <<s, c>> \in E \/ Clear(Append(l, r), f, s, c)
  <2>1. w = NoFile \/ (c > Len(w) /\ ~(c <= Len(w)))
    BY <1>2, <1>4
  <2>2. <<s, c>> \in D \/ Clear(l, f, s, c)
    BY <1>4, <2>1 DEF Keeps
  <2>3. <<s, c>> \in E \/ (~About(r, s, c) /\ <<s, c>> \notin D)
    BY <2>1
  <2> QED BY <1>1, <2>2, <2>3
<1>5. u # NoFile => f # NoFile
  BY <1>2
<1> QED BY <1>3, <1>4, <1>5 DEF Keeps

LEMMA KeepsSpoilt ==
  ASSUME NEW l \in Seq(Line), NEW r \in Line, NEW f, NEW s \in Segs, NEW w \in Files,
         NEW D, NEW E, Keeps(l, f, w, D, s), D \subseteq E, <<r.seg, r.off>> \in E
  PROVE  Keeps(Append(l, r), f, w, E, s)
<1>1. \A c \in Nat \ {0} : <<s, c>> \in E \/ (~About(r, s, c) /\ <<s, c>> \notin D)
  BY DEF About
<1> QED BY <1>1, KeepsAppend

(* rvm_map changes only what nothing was wanted in, and says so. *)
LEMMA KeepsMap ==
  ASSUME mem \in [Segs -> Seq(Cells)], file \in [Segs -> Files],
         NEW s \in Segs, NEW n \in Nat, NEW m \in Seq(Cells), NEW w \in Files,
         NEW D, Keeps(<<>>, file[s], w, D, s)
  PROVE  LET e == extended(s, n) IN
         /\ Keeps(<<>>, e, wanted(w, e, m), D, s)
         /\ \A c \in 1 .. Len(m) :
              <<s, c>> \in D \/ wanted(w, e, m)[c] = Garbage \/ wanted(w, e, m)[c] = read(e, m)[c]
<1> DEFINE e == extended(s, n)
           u == wanted(w, e, m)
<1>1. /\ e \in Seq(Cells)
      /\ file[s] = NoFile => \A c \in 1 .. Len(e) : e[c] = 0
      /\ file[s] # NoFile =>
           /\ file[s] \in Seq(Cells) /\ Len(e) >= Len(file[s])
           /\ \A c \in 1 .. Len(e) : e[c] = IF c <= Len(file[s]) THEN file[s][c] ELSE 0
  BY ExtendedFacts DEF Files
<1> HIDE DEF e
<1>2. /\ u \in Seq(Cells) /\ Len(u) >= Len(m) /\ Len(u) >= Len(e)
      /\ \A c \in 1 .. Len(u) :
           u[c] = IF w # NoFile /\ c \in DOMAIN w THEN w[c]
                  ELSE IF c <= Len(e) THEN 0 ELSE Garbage
  <2>1. w \in Seq(Cells) \cup {NoFile} /\ e \in Seq(Cells)
    BY <1>1 DEF Files
  <2> QED BY <2>1, WantedFacts
<1>3. \A c \in 1 .. Len(m) : read(e, m)[c] = IF c <= Len(e) THEN e[c] ELSE m[c]
  BY <1>1, ReadFacts
<1> HIDE DEF u
<1>4. u # NoFile /\ e # NoFile
  BY <1>1, <1>2, FileIsFile
<1>5. \A c : None(<<>>, s, c)
  BY EmptySeqs DEF None
<1>6. w # NoFile => /\ file[s] # NoFile /\ DOMAIN w = 1 .. Len(w) /\ Len(w) \in Nat
                    /\ \A c \in 1 .. Len(w) : <<s, c>> \in D \/ w[c] = Garbage
                                                  \/ (c \in 1 .. Len(file[s]) /\ file[s][c] = w[c])
  BY EmptySeqs DEF Keeps, Holds, Files
<1>7. file[s] # NoFile => \A c \in 1 .. Len(file[s]) :
        w = NoFile \/ c > Len(w) => <<s, c>> \in D \/ file[s][c] = 0
  <2>1. file[s] # NoFile => \A c \in 1 .. Len(file[s]) : c \in Nat \ {0}
    BY <1>1
  <2> QED BY <1>5, <2>1, EmptySeqs DEF Keeps, Clear, Holds
<1>8. ASSUME NEW c \in 1 .. Len(u)
      PROVE  <<s, c>> \in D \/ u[c] = Garbage \/ (c \in 1 .. Len(e) /\ u[c] = e[c])
  <2>1. CASE w # NoFile /\ c \in DOMAIN w
    <3>1. u[c] = w[c] /\ c \in 1 .. Len(w)
      BY <1>2, <1>6, <2>1
    <3>2. <<s, c>> \in D \/ u[c] = Garbage \/ (c \in 1 .. Len(file[s]) /\ file[s][c] = u[c])
      BY <1>6, <2>1, <3>1
    <3>3. Len(file[s]) \in Nat /\ Len(e) \in Nat
      BY <1>1, <1>6, <2>1
    <3>4. c \in 1 .. Len(file[s]) => c \in 1 .. Len(e) /\ e[c] = file[s][c]
      BY <1>1, <1>6, <2>1, <3>3
    <3> QED BY <3>2, <3>4
  <2>2. CASE ~(w # NoFile /\ c \in DOMAIN w) /\ c <= Len(e)
    <3>1. u[c] = 0 /\ c \in 1 .. Len(e) /\ (w = NoFile \/ c > Len(w))
      BY <1>1, <1>2, <1>6, <2>2
    <3>2. <<s, c>> \in D \/ e[c] = 0
      <4>1. CASE file[s] = NoFile
        BY <1>1, <3>1, <4>1
      <4>2. CASE file[s] # NoFile /\ c <= Len(file[s])
        BY <1>1, <1>7, <3>1, <4>2
      <4>3. CASE file[s] # NoFile /\ ~(c <= Len(file[s]))
        BY <1>1, <3>1, <4>3
      <4> QED BY <4>1, <4>2, <4>3
    <3> QED BY <3>1, <3>2
  <2>3. CASE ~(w # NoFile /\ c \in DOMAIN w) /\ ~(c <= Len(e))
    BY <1>2, <2>3
  <2> QED BY <2>1, <2>2, <2>3
<1>9. \A c \in Nat \ {0} : c > Len(u) => c \notin 1 .. Len(e)
  BY <1>1, <1>2
<1>10. Keeps(<<>>, e, u, D, s)
  BY <1>4, <1>5, <1>8, <1>9 DEF Keeps, Holds, Clear
<1>11. \A c \in 1 .. Len(m) : c \in 1 .. Len(u)
  BY <1>2
<1>12. \A c \in 1 .. Len(m) : <<s, c>> \in D \/ u[c] = Garbage \/ u[c] = read(e, m)[c]
  BY <1>1, <1>3, <1>8, <1>11
<1> QED BY <1>10, <1>12 DEF e, u

(* The same for a map that a crash cuts short. *)
LEMMA KeepsCut ==
  ASSUME mem \in [Segs -> Seq(Cells)], file \in [Segs -> Files],
         NEW s \in Segs, NEW n \in Nat, NEW w \in Files,
         NEW k \in (IF file[s] = NoFile THEN 0 ELSE Len(file[s])) .. Len(extended(s, n)),
         NEW D, Keeps(<<>>, file[s], w, D, s)
  PROVE  Keeps(<<>>, SubSeq(extended(s, n), 1, k), w, D, s)
<1> DEFINE e == extended(s, n)
           g == SubSeq(e, 1, k)
<1>1. /\ e \in Seq(Cells)
      /\ file[s] = NoFile => \A c \in 1 .. Len(e) : e[c] = 0
      /\ file[s] # NoFile =>
           /\ file[s] \in Seq(Cells) /\ Len(e) >= Len(file[s])
           /\ \A c \in 1 .. Len(e) : e[c] = IF c <= Len(file[s]) THEN file[s][c] ELSE 0
  BY ExtendedFacts DEF Files
<1>k. k \in (IF file[s] = NoFile THEN 0 ELSE Len(file[s])) .. Len(e)
  OBVIOUS
<1> HIDE DEF e
<1>2. k \in Nat /\ k <= Len(e) /\ (file[s] # NoFile => Len(file[s]) <= k)
  BY <1>1, <1>k
<1>3. /\ g \in Seq(Cells) /\ Len(g) = k
      /\ \A c \in 1 .. k : g[c] = e[c]
  <2>1. \A i \in 1 .. k : e[i] \in Cells
    BY <1>1, <1>2
  <2> QED BY <1>2, <2>1, SubSeqProperties
<1> HIDE DEF g
<1>4. \A c : None(<<>>, s, c)
  BY EmptySeqs DEF None
<1>5. g # NoFile
  BY <1>3, FileIsFile
<1>6. w # NoFile => /\ file[s] # NoFile /\ Len(w) \in Nat
                    /\ \A c \in 1 .. Len(w) : <<s, c>> \in D \/ w[c] = Garbage
                                                  \/ (c \in 1 .. Len(file[s]) /\ file[s][c] = w[c])
  <2>1. \A c, x : Holds(<<>>, file[s], s, c, x) => c \in 1 .. Len(file[s]) /\ file[s][c] = x
    BY EmptySeqs DEF Holds
  <2>2. w # NoFile => w \in Seq(Cells)
    BY DEF Files
  <2>3. w # NoFile => Len(w) \in Nat
    BY <2>2
  <2> QED BY <2>1, <2>3 DEF Keeps
<1>7. file[s] # NoFile => \A c \in 1 .. Len(file[s]) :
        w = NoFile \/ c > Len(w) => <<s, c>> \in D \/ file[s][c] = 0
  <2>1. file[s] # NoFile => \A c \in 1 .. Len(file[s]) : c \in Nat \ {0}
    BY <1>1
  <2> QED BY <1>4, <2>1, EmptySeqs DEF Keeps, Clear, Holds
<1>8. file[s] # NoFile => \A c \in 1 .. Len(file[s]) : c \in 1 .. Len(g) /\ g[c] = file[s][c]
  BY <1>1, <1>2, <1>3
<1>9. ASSUME NEW c \in 1 .. Len(g), w = NoFile \/ c > Len(w)
      PROVE  <<s, c>> \in D \/ g[c] = 0
  <2>1. c \in 1 .. Len(e) /\ g[c] = e[c]
    BY <1>1, <1>2, <1>3
  <2>2. CASE file[s] = NoFile
    BY <1>1, <2>1, <2>2
  <2>3. CASE file[s] # NoFile /\ c <= Len(file[s])
    BY <1>1, <1>7, <1>9, <2>1, <2>3
  <2>4. CASE file[s] # NoFile /\ ~(c <= Len(file[s]))
    BY <1>1, <2>1, <2>4
  <2> QED BY <2>2, <2>3, <2>4
<1>10. Keeps(<<>>, g, w, D, s)
  BY <1>4, <1>5, <1>6, <1>8, <1>9 DEF Keeps, Holds, Clear
<1> QED BY <1>10 DEF e, g

(* One more line is played. *)
LEMMA PlayedPut ==
  ASSUME NEW l \in Seq(Line), NEW f \in [Segs -> Files], NEW n \in 1 .. Len(l),
         PlayedTo(l, f, n - 1), l[n].parses, f[l[n].seg] # NoFile
  PROVE  PlayedTo(l, [f EXCEPT ![l[n].seg] = put(@, l[n].off, l[n].val)], n)
<1> DEFINE r == l[n]
           g == put(f[r.seg], r.off, r.val)
           h == [f EXCEPT ![r.seg] = g]
<1>1. r \in Line /\ \A i \in 1 .. n : l[i] \in Line
  OBVIOUS
<1>2. r.seg \in Segs /\ r.off \in Nat \ {0} /\ r.val \in Cells
  BY <1>1 DEF Line
<1>3. f[r.seg] \in Seq(Cells) /\ r.parses
  BY <1>2 DEF Files
<1> HIDE DEF r
<1>4. /\ g \in Seq(Cells)
      /\ Len(g) = IF r.off > Len(f[r.seg]) THEN r.off ELSE Len(f[r.seg])
      /\ g[r.off] = r.val
      /\ \A d \in 1 .. Len(f[r.seg]) : d # r.off => g[d] = f[r.seg][d]
  <2>1. PICK p \in Seq(Cells) : p = f[r.seg]
    BY <1>3
  <2>2. PICK c \in Nat \ {0}, v \in Cells : c = r.off /\ v = r.val
    BY <1>2
  <2>3. /\ put(p, c, v) \in Seq(Cells)
        /\ Len(put(p, c, v)) = IF c > Len(p) THEN c ELSE Len(p)
        /\ put(p, c, v)[c] = v
        /\ \A d \in 1 .. Len(p) : d # c => put(p, c, v)[d] = p[d]
        /\ \A d \in Len(p) + 1 .. c - 1 : put(p, c, v)[d] = 0
    BY PutFacts, Zenon
  <2>4. g = put(p, c, v)
    BY <2>1, <2>2
  <2> HIDE DEF g
  <2> QED BY <2>1, <2>2, <2>3, <2>4
<1> HIDE DEF g
<1>5. Len(g) >= Len(f[r.seg]) /\ Len(g) >= r.off /\ Len(g) \in Nat /\ Len(f[r.seg]) \in Nat
  BY <1>2, <1>3, <1>4
<1>6. g # NoFile
  BY <1>4, FileIsFile
<1>7. h[r.seg] = g /\ \A s \in Segs : s # r.seg => h[s] = f[s]
  BY <1>2
<1> HIDE DEF h
<1>8. ASSUME NEW i \in 1 .. n - 1
      PROVE  LET q == l[i] IN
             /\ q.parses /\ h[q.seg] # NoFile /\ q.off <= Len(h[q.seg])
             /\ (\A j \in i + 1 .. n : ~About(l[j], q.seg, q.off)) => h[q.seg][q.off] = q.val
  <2> DEFINE q == l[i]
  <2>1. i \in 1 .. n /\ n \in i + 1 .. n /\ \A j \in i + 1 .. n - 1 : j \in i + 1 .. n
    OBVIOUS
  <2>2. /\ q.parses /\ f[q.seg] # NoFile /\ q.off <= Len(f[q.seg])
        /\ (\A j \in i + 1 .. n - 1 : ~About(l[j], q.seg, q.off)) => f[q.seg][q.off] = q.val
    BY DEF PlayedTo
  <2>3. q \in Line /\ r = l[n]
    BY <1>1, <2>1 DEF r
  <2> HIDE DEF q
  <2>4. q.seg \in Segs /\ q.off \in Nat \ {0}
    BY <2>3 DEF Line
  <2>5. CASE q.seg = r.seg /\ q.off = r.off
    <3>1. About(l[n], q.seg, q.off)
      BY <2>3, <2>5 DEF About
    <3> QED BY <1>5, <1>6, <1>7, <2>1, <2>2, <2>5, <3>1 DEF q
  <2>6. CASE q.seg = r.seg /\ q.off # r.off
    <3>1. q.off \in 1 .. Len(f[r.seg])
      BY <1>5, <2>2, <2>4, <2>6
    <3>2. h[q.seg] = g /\ g[q.off] = f[q.seg][q.off] /\ q.off <= Len(g)
      BY <1>4, <1>5, <1>7, <2>6, <3>1
    <3> QED BY <1>6, <2>1, <2>2, <3>2 DEF q
  <2>7. CASE q.seg # r.seg
    BY <1>7, <2>1, <2>2, <2>4, <2>7 DEF q
  <2> QED BY <2>5, <2>6, <2>7
<1>9. \A i \in 1 .. n : i \in 1 .. n - 1 \/ i = n
  OBVIOUS
<1>10. r.parses /\ h[r.seg] # NoFile /\ r.off <= Len(h[r.seg]) /\ h[r.seg][r.off] = r.val
  BY <1>3, <1>4, <1>5, <1>6, <1>7
<1>11. PlayedTo(l, h, n)
  BY <1>8, <1>9, <1>10 DEF PlayedTo, r
<1> QED BY <1>11 DEF h, g, r

-----------------------------------------------------------------------------
(* The disk.  As long as its log can be played, the disk keeps what is     *)
(* wanted and not damaged; a truncation has played the lines it has passed.*)

OneTransaction == \A t, u \in Trans : t = u

Kept == LogPlayable => \A s \in Segs : Keeps(log, file[s], want[s], damaged, s)

Played ==
  Truncating => call.i <= Len(log) + 1 /\ PlayedTo(log, file, call.i - 1)

LEMMA DiskTypes ==
  ASSUME TypeInv
  PROVE  /\ file \in [Segs -> Files] /\ log \in Seq(Line) /\ Len(log) \in Nat
         /\ want \in [Segs -> Files] /\ mem \in [Segs -> Seq(Cells)]
         /\ redolog \in Seq(Entry) /\ Len(redolog) \in Nat
         /\ call \in Calls
BY DEF TypeInv, TypeOK, History, Files, Line, Entry

Plays(l, f) == \A i \in 1 .. Len(l) : l[i].parses /\ f[l[i].seg] # NoFile

LEMMA LogPlays == LogPlayable <=> Plays(log, file)
BY DEF LogPlayable, Playable, Plays

LEMMA PlaysAppend ==
  ASSUME NEW l \in Seq(Line), NEW r \in Line, NEW f, Plays(Append(l, r), f)
  PROVE  Plays(l, f) /\ r.parses
<1> DEFINE k == Append(l, r)
<1>1. /\ Len(k) = Len(l) + 1 /\ Len(l) \in Nat /\ k[Len(l) + 1] = r
      /\ \A i \in 1 .. Len(l) : k[i] = l[i] /\ i \in 1 .. Len(k)
      /\ Len(l) + 1 \in 1 .. Len(k)
  OBVIOUS
<1> QED BY <1>1 DEF Plays

LEMMA SameDisk ==
  ASSUME Kept, UNCHANGED <<file, log, want, damaged>>
  PROVE  Kept'
BY DEF Kept, LogPlayable, Playable

LEMMA PlayedTruncate ==
  ASSUME TypeInv, Played, TruncateLine
  PROVE  /\ Played'
         /\ LET r == log[call.i] IN
            /\ r \in Line /\ ~None(log, r.seg, r.off) /\ r.parses /\ file[r.seg] # NoFile
            /\ file' = [file EXCEPT ![r.seg] = put(file[r.seg], r.off, r.val)]
            /\ UNCHANGED <<log, want, damaged>>
<1> DEFINE n == call.i
           r == log[n]
           f == put(file[r.seg], r.off, r.val)
<1>1. /\ file \in [Segs -> Files] /\ log \in Seq(Line) /\ Len(log) \in Nat
      /\ want \in [Segs -> Files]
  BY DiskTypes
<1>2. /\ n \in 1 .. Len(log) /\ PlayedTo(log, file, n - 1)
      /\ r.parses /\ file[r.seg] # NoFile
      /\ file' = [file EXCEPT ![r.seg] = f]
      /\ log' = log /\ want' = want /\ damaged' = damaged
  BY <1>1, CallFacts DEF TruncateLine, Playable, Played, TypeInv, TypeOK
<1>i. Truncating' => call'.i = n + 1
  <2>1. call \in Calls /\ Truncating /\ call' = [call EXCEPT !.i = n + 1]
    BY DEF TruncateLine, TypeInv, TypeOK
  <2>2. CASE call = Idle
    BY <2>1, <2>2 DEF Idle, Truncating
  <2>3. CASE call \in [op : {"truncate"}, i : Nat \ {0}]
    BY <2>1, <2>3
  <2>4. CASE call \in [op : {"map"}, i : Nat \ {0}, seg : Segs, size : Sizes]
    BY <2>1, <2>4
  <2>5. CASE call \in [op : {"commit"}, i : Nat \ {0}, t : Trans]
    BY <2>1, <2>5 DEF Truncating
  <2> QED BY <2>1, <2>2, <2>3, <2>4, <2>5 DEF Calls
<1> HIDE DEF n
<1>3. r \in Line
  BY <1>1, <1>2
<1>5. PlayedTo(log, file', n)
  <2>1. PlayedTo(log, [file EXCEPT ![log[n].seg] = put(@, log[n].off, log[n].val)], n)
    BY <1>1, <1>2, PlayedPut
  <2> QED BY <1>2, <2>1
<1>6. Played'
  <2>1. n + 1 <= Len(log) + 1 /\ n + 1 - 1 = n
    BY <1>1, <1>2
  <2> QED BY <1>2, <1>i, <1>5, <2>1 DEF Played
<1>7. ~None(log, r.seg, r.off)
  BY <1>2 DEF None, About
<1> QED BY <1>2, <1>3, <1>6, <1>7 DEF n

LEMMA KeptTruncate ==
  ASSUME TypeInv, Kept, Played, TruncateLine
  PROVE  Kept'
<1> DEFINE r == log[call.i]
<1>1. /\ file \in [Segs -> Files] /\ log \in Seq(Line) /\ Len(log) \in Nat
      /\ want \in [Segs -> Files]
  BY DiskTypes
<1>2. /\ r \in Line /\ ~None(log, r.seg, r.off) /\ file[r.seg] # NoFile
      /\ file' = [file EXCEPT ![r.seg] = put(file[r.seg], r.off, r.val)]
      /\ UNCHANGED <<log, want, damaged>>
  BY PlayedTruncate
<1> HIDE DEF r
<1>3. r.seg \in Segs /\ r.off \in Nat \ {0} /\ r.val \in Cells
  BY <1>2 DEF Line
<1>4. LogPlayable' => LogPlayable
  BY <1>1, <1>2, <1>3 DEF LogPlayable, Playable
<1>5. ASSUME NEW s \in Segs, Keeps(log, file[s], want[s], damaged, s)
      PROVE  Keeps(log, file'[s], want[s], damaged, s)
  <2>1. CASE s = r.seg
    <3>1. file[s] \in Seq(Cells) /\ want[s] \in Files /\ file'[s] = put(file[s], r.off, r.val)
      BY <1>1, <1>2, <1>3, <2>1 DEF Files
    <3>2. Keeps(log, put(file[s], r.off, r.val), want[s], damaged, s)
      BY <1>2, <1>3, <1>5, <2>1, <3>1, KeepsPut
    <3> QED BY <3>1, <3>2
  <2>2. CASE s # r.seg
    BY <1>1, <1>2, <1>5, <2>2
  <2> QED BY <2>1, <2>2
<1> QED BY <1>2, <1>4, <1>5 DEF Kept

(* At the end of a truncation the files alone keep it all. *)
LEMMA Flushed ==
  ASSUME TypeInv, Kept, Played, Truncating, call.i > Len(log), NEW s \in Segs
  PROVE  Keeps(<<>>, file[s], want[s], damaged, s)
<1>1. /\ file \in [Segs -> Files] /\ log \in Seq(Line) /\ Len(log) \in Nat
      /\ want[s] \in Files
  BY DiskTypes
<1>2. call.i \in Nat
  BY CallFacts DEF TypeInv, TypeOK
<1>3. call.i - 1 = Len(log)
  BY <1>1, <1>2 DEF Played
<1>4. PlayedTo(log, file, Len(log))
  BY <1>3 DEF Played
<1>5. LogPlayable
  BY <1>4 DEF PlayedTo, LogPlayable, Playable
<1> QED BY <1>1, <1>4, <1>5, KeepsPlayed DEF Kept

LEMMA KeptMap ==
  ASSUME TypeInv, Kept, Played,
         EndTruncate \/ MapRefused \/ MapSegment \/ CrashInMap
  PROVE  Kept'
<1>1. /\ file \in [Segs -> Files] /\ want \in [Segs -> Files]
      /\ mem \in [Segs -> Seq(Cells)]
  BY DiskTypes
<1>2. /\ Truncating /\ call.i > Len(log) /\ log' = <<>> /\ damaged' = damaged
  BY DEF EndTruncate, MapRefused, MapSegment, CrashInMap, Truncating
<1>3. \A s \in Segs : Keeps(<<>>, file[s], want[s], damaged, s)
  BY <1>2, Flushed
<1>4. SUFFICES ASSUME NEW s \in Segs PROVE Keeps(<<>>, file'[s], want'[s], damaged, s)
  BY <1>2 DEF Kept
<1>5. CASE EndTruncate \/ MapRefused
  BY <1>3, <1>5 DEF EndTruncate, MapRefused
<1>6. ASSUME call.op = "map", s = call.seg, NEW n, n = call.size
      PROVE  n \in Nat
  BY <1>6, CallFacts DEF TypeInv, TypeOK
<1>7. CASE MapSegment
  <2>1. CASE s = call.seg
    <3>1. PICK n \in Nat : n = call.size
      BY <1>6, <1>7, <2>1 DEF MapSegment
    <3>2. /\ file'[s] = extended(s, n)
          /\ want'[s] = wanted(want[s], extended(s, n), grown(s, n))
      BY <1>1, <1>7, <2>1, <3>1 DEF MapSegment
    <3>3. grown(s, n) \in Seq(Cells) /\ want[s] \in Files
      BY <1>1, GrownFacts
    <3>4. Keeps(<<>>, extended(s, n), wanted(want[s], extended(s, n), grown(s, n)), damaged, s)
      BY <1>1, <1>3, <3>3, KeepsMap
    <3> QED BY <3>2, <3>4
  <2>2. CASE s # call.seg
    BY <1>1, <1>3, <1>7, <2>2 DEF MapSegment
  <2> QED BY <2>1, <2>2
<1>8. CASE CrashInMap
  <2>1. CASE s = call.seg
    <3>1. PICK n \in Nat : n = call.size
      BY <1>6, <1>8, <2>1 DEF CrashInMap
    <3>2. PICK k \in (IF file[s] = NoFile THEN 0 ELSE Len(file[s])) .. Len(extended(s, n)) :
            file'[s] = SubSeq(extended(s, n), 1, k)
      BY <1>1, <1>8, <2>1, <3>1 DEF CrashInMap
    <3>3. want[s] \in Files /\ want' = want
      BY <1>1, <1>8 DEF CrashInMap
    <3>4. Keeps(<<>>, SubSeq(extended(s, n), 1, k), want[s], damaged, s)
      BY <1>1, <1>3, <3>3, KeepsCut
    <3> QED BY <3>2, <3>3, <3>4
  <2>2. CASE s # call.seg
    BY <1>1, <1>3, <1>8, <2>2 DEF CrashInMap
  <2> QED BY <2>1, <2>2
<1> QED BY <1>5, <1>7, <1>8

(* A line of a commit, whole or split.  The cell is of the transaction     *)
(* that commits, as there is no other.                                     *)
LEMMA KeptLogged ==
  ASSUME TypeInv, Kept, NEW i \in 1 .. Len(redolog), NEW x \in Cells, NEW y \in Cells,
         NEW rest \in Rest, logged(redolog[i], x, y, rest), file' = file,
         redolog[i].seg \in tsegs[call.t]
  PROVE  Kept'
<1> DEFINE z == redolog[i].seg
           o == redolog[i].off
           r == whole(redolog[i], y)
           l == Append(log, r)
           d == (damaged \ {<<z, o>>}) \cup (IF y = x THEN {} ELSE {<<z, o>>})
<1>1. /\ file \in [Segs -> Files] /\ want \in [Segs -> Files] /\ log \in Seq(Line)
  BY DiskTypes
<1>2. /\ z \in Segs /\ o \in 1 .. Len(want[z]) /\ want[z] \in Seq(Cells)
      /\ want' = [want EXCEPT ![z][o] = x] /\ want' \in [Segs -> Files]
      /\ want'[z] \in Seq(Cells) /\ Len(want'[z]) = Len(want[z])
  <2>1. want' = [want EXCEPT ![z][o] = x]
    BY DEF logged
  <2> QED BY <2>1, LineFacts DEF Files
<1>3. r \in Line /\ l \in Seq(Line) /\ r.seg = z /\ r.off = o /\ r.val = y
  BY LoggedFacts DEF whole
<1>4. \/ log' = l /\ damaged' = d
      \/ \E q \in Line : /\ log' = Append(l, q)
                         /\ damaged' = d \cup (IF q.parses THEN {<<q.seg, q.off>>} ELSE {})
  BY LoggedFacts
<1> HIDE DEF z, o, r, l
<1>5. ASSUME NEW s \in Segs, Keeps(log, file[s], want[s], damaged, s)
      PROVE  Keeps(l, file[s], want'[s], d, s)
  <2>1. /\ want[s] \in Files /\ want'[s] \in Files
        /\ want'[s] = NoFile <=> want[s] = NoFile
        /\ want[s] # NoFile => Len(want'[s]) = Len(want[s])
    BY <1>1, <1>2, FileIsFile
  <2>2. ASSUME NEW c \in Nat \ {0}
        PROVE  \/ <<s, c>> \in d
               \/ About(r, s, c) /\ want[s] # NoFile /\ c <= Len(want[s]) /\ want'[s][c] = r.val
               \/ ~About(r, s, c) /\ <<s, c>> \notin damaged /\ (want[s] # NoFile => want'[s][c] = want[s][c])
    <3>1. CASE s = z /\ c = o
      <4>1. want'[s][c] = x /\ want[s] # NoFile /\ c <= Len(want[s])
        BY <1>1, <1>2, <3>1, FileIsFile
      <4>2. About(r, s, c)
        BY <1>3, <3>1 DEF About
      <4>3. CASE y = x
        BY <1>3, <4>1, <4>2, <4>3
      <4>4. CASE y # x
        BY <3>1, <4>4
      <4> QED BY <4>3, <4>4
    <3>2. CASE ~(s = z /\ c = o)
      <4>1. ~About(r, s, c)
        BY <1>3, <3>2 DEF About
      <4>2. want'[s][c] = want[s][c]
        BY <1>1, <1>2, <3>2
      <4>3. <<s, c>> \in damaged => <<s, c>> \in d
        BY <3>2
      <4> QED BY <4>1, <4>2, <4>3
    <3> QED BY <3>1, <3>2
  <2> HIDE DEF d
  <2>3. Keeps(Append(log, r), file[s], want'[s], d, s)
    BY <1>1, <1>3, <1>5, <2>1, <2>2, KeepsAppend
  <2> QED BY <2>3 DEF l
<1> HIDE DEF d
<1>6. Plays(l, file) => \A s \in Segs : Keeps(l, file[s], want'[s], d, s)
  <2>1. Plays(l, file) => LogPlayable
    BY <1>1, <1>3, PlaysAppend, LogPlays DEF l
  <2> QED BY <1>5, <2>1 DEF Kept
<1>7. LogPlayable' <=> Plays(log', file)
  BY DEF LogPlayable, Playable, Plays
<1>8. CASE log' = l /\ damaged' = d
  BY <1>6, <1>7, <1>8 DEF Kept
<1>9. ASSUME NEW q \in Line, log' = Append(l, q),
             damaged' = d \cup (IF q.parses THEN {<<q.seg, q.off>>} ELSE {})
      PROVE  Kept'
  <2>1. SUFFICES ASSUME LogPlayable', NEW s \in Segs
                 PROVE  Keeps(log', file[s], want'[s], damaged', s)
    BY DEF Kept
  <2>2. Plays(l, file) /\ q.parses
    BY <1>3, <1>7, <1>9, <2>1, PlaysAppend
  <2>3. Keeps(l, file[s], want'[s], d, s)
    BY <1>6, <2>2
  <2>4. d \subseteq damaged' /\ <<q.seg, q.off>> \in damaged'
    BY <1>9, <2>2
  <2>5. want'[s] \in Files
    BY <1>2
  <2>6. Keeps(Append(l, q), file[s], want'[s], damaged', s)
    BY <1>3, <2>3, <2>4, <2>5, KeepsSpoilt
  <2> QED BY <1>9, <2>6
<1> QED BY <1>4, <1>8, <1>9

LEMMA KeptLine ==
  ASSUME OneTransaction, TypeInv, Kept, CommitLine \/ CrashInLine
  PROVE  Kept'
<1>1. /\ file \in [Segs -> Files] /\ want \in [Segs -> Files] /\ log \in Seq(Line)
      /\ call.t \in Trans
  BY DiskTypes, CallFacts DEF CommitLine, CrashInLine
<1>2. \A i \in 1 .. Len(redolog) :
        /\ redolog[i].seg \in tsegs[call.t] /\ redolog[i] \in Entry
        /\ mem[redolog[i].seg][redolog[i].off] \in Cells
  <2> TAKE i \in 1 .. Len(redolog)
  <2>1. /\ redolog[i].seg \in Segs /\ cur_trans[redolog[i].seg] \in Trans
        /\ mem[redolog[i].seg][redolog[i].off] \in Cells
    BY LineFacts, CellsFacts
  <2>2. redolog[i].seg \in tsegs[call.t]
    BY <1>1, <2>1 DEF OneTransaction, TypeInv, TypeOK
  <2> QED BY <2>1, <2>2, EntryFacts
<1>3. CASE CommitLine
  <2>1. PICK i \in 1 .. Len(redolog), y \in Cells, rest \in Rest :
          logged(redolog[i], mem[redolog[i].seg][redolog[i].off], y, rest)
    BY <1>3, CommitLogs
  <2>2. file' = file
    BY <1>3 DEF CommitLine
  <2> QED BY <1>2, <2>1, <2>2, KeptLogged
<1>4. CASE CrashInLine
  <2>1. call.i \in 1 .. Len(redolog) /\ file' = file
    BY <1>4, EntryFacts DEF CrashInLine
  <2>2. PICK i \in 1 .. Len(redolog) : i = call.i
    BY <2>1
  <2> DEFINE e == redolog[i]
             x == mem[e.seg][e.off]
  <2>3. \/ log' = Append(log, torn(e)) /\ UNCHANGED <<want, damaged>>
        \/ log' = Append(log, whole(e, Garbage)) /\ UNCHANGED want /\ damaged' = damaged \cup {cell(e)}
        \/ logged(e, x, x, <<>>)
    BY <1>4, <2>2 DEF CrashInLine
  <2>4. LogPlayable' <=> Plays(log', file)
    BY <2>1 DEF LogPlayable, Playable, Plays
  <2>5. CASE logged(e, x, x, <<>>)
    BY <1>2, <2>1, <2>5, KeptLogged DEF Rest
  <2>6. e \in Entry
    BY <1>2
  <2> HIDE DEF e, x
  <2>7. CASE log' = Append(log, torn(e))
    <3>1. torn(e) \in Line /\ ~torn(e).parses
      BY <2>6, CellsFacts DEF torn, Line, Entry
    <3>2. ~LogPlayable'
      BY <1>1, <2>4, <2>7, <3>1, PlaysAppend
    <3> QED BY <3>2 DEF Kept
  <2>8. CASE log' = Append(log, whole(e, Garbage)) /\ UNCHANGED want /\ damaged' = damaged \cup {cell(e)}
    <3> DEFINE r == whole(e, Garbage)
    <3>1. r \in Line /\ <<r.seg, r.off>> \in damaged' /\ damaged \subseteq damaged'
      BY <2>6, <2>8, CellsFacts DEF whole, cell, Line, Entry
    <3> HIDE DEF r
    <3>2. SUFFICES ASSUME LogPlayable', NEW s \in Segs
                   PROVE  Keeps(log', file[s], want[s], damaged', s)
      BY <2>1, <2>8 DEF Kept
    <3>3. LogPlayable
      BY <1>1, <2>4, <2>8, <3>1, <3>2, PlaysAppend, LogPlays DEF r
    <3>4. Keeps(log, file[s], want[s], damaged, s) /\ want[s] \in Files
      BY <1>1, <3>3 DEF Kept
    <3>5. Keeps(Append(log, r), file[s], want[s], damaged', s)
      BY <1>1, <3>1, <3>4, KeepsSpoilt
    <3> QED BY <2>8, <3>5 DEF r
  <2> QED BY <2>3, <2>5, <2>7, <2>8
<1> QED BY <1>3, <1>4

LEMMA KeptDestroy ==
  ASSUME TypeInv, Kept, NEW s \in Segs, Destroy(s)
  PROVE  Kept'
<1>1. file \in [Segs -> Files] /\ want \in [Segs -> Files] /\ log \in Seq(Line)
  BY DiskTypes
<1>2. /\ file' = [file EXCEPT ![s] = NoFile] /\ want' = [want EXCEPT ![s] = NoFile]
      /\ log' = log /\ damaged' = {q \in damaged : q[1] # s}
  BY DEF Destroy
<1>3. LogPlayable' => LogPlayable
  <2>1. \A i \in 1 .. Len(log) : log[i] \in Line
    BY <1>1
  <2>2. \A i \in 1 .. Len(log) : log[i].seg \in Segs
    BY <2>1 DEF Line
  <2> QED BY <1>1, <1>2, <2>2 DEF LogPlayable, Playable
<1>4. ASSUME NEW x \in Segs, Keeps(log, file[x], want[x], damaged, x)
      PROVE  Keeps(log', file'[x], want'[x], damaged', x)
  <2>1. CASE x = s
    BY <1>1, <1>2, <2>1 DEF Keeps
  <2>2. CASE x # s
    <3>1. \A c : <<x, c>> \in damaged' <=> <<x, c>> \in damaged
      BY <1>2, <2>2
    <3> QED BY <1>1, <1>2, <1>4, <2>2, <3>1 DEF Keeps
  <2> QED BY <2>1, <2>2
<1> QED BY <1>3, <1>4 DEF Kept

-----------------------------------------------------------------------------
(* The memory.  A commit has logged what the cells hold; what a            *)
(* transaction declared is what the redo log names; and the memory it      *)
(* began with is what was committed before.                                *)

Logged ==
  call.op = "commit" =>
    /\ call.i <= Len(redolog) + 1
    /\ \A i \in 1 .. call.i - 1 :
         want[redolog[i].seg][redolog[i].off] = mem[redolog[i].seg][redolog[i].off]

SameDeclared ==
  \A s \in Segs, c \in Nat \ {0} :
    Declared(s, c) <=> \E i \in 1 .. Len(redolog) : About(redolog[i], s, c)

(* The committing transaction has logged the cell already. *)
Done(s, c) ==
  call.op = "commit" /\ \E i \in 1 .. call.i - 1 : About(redolog[i], s, c)

SnapCurrent ==
  \A s \in Segs : cur_trans[s] \in Trans =>
    \A c \in 1 .. Len(mem[s]) :
      Done(s, c) \/ <<s, c>> \in damaged \/ want[s][c] \in {snap[s][c], Garbage}

MemoryInv == Logged /\ SameDeclared /\ SnapCurrent /\ MappedCurrent

LEMMA SameMemory ==
  ASSUME MemoryInv,
         UNCHANGED <<mapped, mem, cur_trans, mods, redolog, tsegs, want, snap, damaged>>,
         call.op # "commit", call'.op = "commit" => call'.i = 1,
         Len(redolog) \in Nat
  PROVE  MemoryInv'
<1>1. Logged' /\ SnapCurrent'
  BY DEF MemoryInv, Logged, SnapCurrent, Done
<1>2. SameDeclared' /\ MappedCurrent'
  BY DEF MemoryInv, SameDeclared, Declared, MappedCurrent, InTransaction
<1> QED BY <1>1, <1>2 DEF MemoryInv

LEMMA DeadMemory ==
  ASSUME Dead
  PROVE  MemoryInv'
<1>1. call'.op = "none" /\ mapped' = {} /\ redolog' = <<>>
      /\ \A s \in Segs : mods'[s] = <<>> /\ cur_trans'[s] = NoTrans
  BY DEF Dead, Idle
<1>2. Logged' /\ SnapCurrent' /\ MappedCurrent'
  BY <1>1, NamesAssumption DEF Logged, SnapCurrent, MappedCurrent
<1>3. SameDeclared'
  BY <1>1, EmptySeqs DEF SameDeclared, Declared
<1> QED BY <1>2, <1>3 DEF MemoryInv

(* In a call that is not a commit, the snapshot is what is wanted. *)
LEMMA SnapWanted ==
  ASSUME MemoryInv, AbortRestores, TypeInv, NEW t \in Trans, NEW s \in tsegs[t],
         NEW c \in 1 .. Len(mem[s]), ~Done(s, c)
  PROVE  <<s, c>> \in damaged \/ want[s][c] \in {undone(mem[s], mods[s])[c], Garbage}
<1>1. s \in Segs /\ cur_trans[s] \in Trans
  BY DEF TypeInv, TypeOK
<1>2. undone(mem[s], mods[s]) = snap[s]
  BY DEF AbortRestores
<1> QED BY <1>1, <1>2 DEF MemoryInv, SnapCurrent

(* With one transaction, its end leaves no declaration behind. *)
LEMMA EndMemory ==
  ASSUME OneTransaction, TypeInv, MemoryInv, NEW t \in Trans, EndTransaction(t),
         call' = Idle, UNCHANGED <<mapped, want, damaged>>,
         \A s \in Segs \ tsegs[t] : mem'[s] = mem[s],
         \A s \in tsegs[t] : \A c \in DOMAIN mem'[s] :
           <<s, c>> \in damaged \/ want[s][c] \in {mem'[s][c], Garbage}
  PROVE  MemoryInv'
<1>1. /\ \A s \in Segs : cur_trans[s] \in Trans <=> s \in tsegs[t]
      /\ tsegs \in [Trans -> SUBSET mapped] /\ mapped \subseteq Segs
  BY DEF OneTransaction, TypeInv, TypeOK
<1>2. /\ redolog' = <<>> /\ call'.op = "none"
      /\ \A s \in Segs : mods'[s] = <<>> /\ cur_trans'[s] \notin Trans
  BY <1>1, NamesAssumption DEF EndTransaction, TypeInv, Undoable, Idle
<1>3. Logged' /\ SnapCurrent'
  BY <1>2 DEF Logged, SnapCurrent
<1>4. SameDeclared'
  BY <1>2, EmptySeqs DEF SameDeclared, Declared
<1>5. MappedCurrent'
  <2>1. \A s \in Segs : s \notin tsegs[t] => ~InTransaction(s)
    BY <1>1 DEF InTransaction, OneTransaction
  <2>2. SUFFICES ASSUME NEW s \in mapped, NEW c \in DOMAIN mem'[s]
                 PROVE  <<s, c>> \in damaged \/ want[s][c] \in {mem'[s][c], Garbage}
    BY DEF MappedCurrent
  <2>3. CASE s \in tsegs[t]
    BY <2>3
  <2>4. CASE s \notin tsegs[t]
    BY <1>1, <2>1, <2>4 DEF MemoryInv, MappedCurrent
  <2> QED BY <2>3, <2>4
<1> QED BY <1>3, <1>4, <1>5 DEF MemoryInv

(* A commit that has logged all its cells has nothing more to change.      *)
LEMMA CommitMemory ==
  ASSUME OneTransaction, TypeInv, AbortRestores, MemoryInv, EndCommit
  PROVE  MemoryInv' /\ want' = want
<1> DEFINE t == call.t
<1>1. /\ t \in Trans /\ call.i \in Nat /\ call.op = "commit"
      /\ EndTransaction(t) /\ call' = Idle /\ UNCHANGED <<mapped, mem, damaged>>
      /\ want' = [s \in Segs |-> IF s \notin tsegs[t] THEN want[s] ELSE
           [c \in DOMAIN want[s] |-> IF Declared(s, c) THEN mem[s][c] ELSE want[s][c]]]
  BY CallFacts DEF EndCommit, TypeInv, TypeOK
<1>2. call.i > Len(redolog)
  BY DEF EndCommit
<1> HIDE DEF t
<1>3. /\ want \in [Segs -> Files] /\ mem \in [Segs -> Seq(Cells)] /\ Len(redolog) \in Nat
      /\ tsegs \in [Trans -> SUBSET mapped] /\ mapped \subseteq Segs
  BY DiskTypes DEF TypeInv, TypeOK
<1>4. call.i - 1 = Len(redolog)
  BY <1>1, <1>2, <1>3 DEF MemoryInv, Logged
<1>5. ASSUME NEW s \in Segs, NEW c \in Nat \ {0}
      PROVE  /\ Declared(s, c) <=> Done(s, c)
             /\ Declared(s, c) => want[s][c] = mem[s][c]
  <2>1. Declared(s, c) <=> \E i \in 1 .. Len(redolog) : About(redolog[i], s, c)
    BY DEF MemoryInv, SameDeclared
  <2>2. \A i \in 1 .. Len(redolog) :
          want[redolog[i].seg][redolog[i].off] = mem[redolog[i].seg][redolog[i].off]
    BY <1>1, <1>4 DEF MemoryInv, Logged
  <2> QED BY <1>1, <1>4, <2>1, <2>2 DEF Done, About
<1>6. want' = want
  <2>1. ASSUME NEW s \in Segs, s \in tsegs[t]
        PROVE  [c \in DOMAIN want[s] |-> IF Declared(s, c) THEN mem[s][c] ELSE want[s][c]] = want[s]
    <3>1. cur_trans[s] \in Trans
      BY <1>1, <2>1 DEF TypeInv, TypeOK
    <3>2. want[s] \in Seq(Cells)
      BY <3>1, InTransFacts
    <3>3. \A c \in DOMAIN want[s] : c \in Nat \ {0}
      BY <3>2
    <3>4. \A c \in DOMAIN want[s] : (IF Declared(s, c) THEN mem[s][c] ELSE want[s][c]) = want[s][c]
      BY <1>5, <3>3
    <3>5. want[s] = [c \in DOMAIN want[s] |-> want[s][c]]
      BY <3>2
    <3> QED BY <3>4, <3>5
  <2>2. \A s \in Segs : want'[s] = want[s]
    BY <1>1, <2>1
  <2>3. want' = [s \in Segs |-> want'[s]] /\ want = [s \in Segs |-> want[s]]
    BY <1>1, <1>3
  <2> QED BY <2>2, <2>3
<1>7. ASSUME NEW s \in tsegs[t], NEW c \in DOMAIN mem[s]
      PROVE  <<s, c>> \in damaged \/ want[s][c] \in {mem[s][c], Garbage}
  <2>1. s \in Segs /\ c \in 1 .. Len(mem[s]) /\ c \in Nat \ {0}
    BY <1>1, <1>3
  <2>2. CASE Declared(s, c)
    BY <1>5, <2>1, <2>2
  <2>3. CASE ~Declared(s, c)
    <3>1. <<s, c>> \in damaged \/ want[s][c] \in {undone(mem[s], mods[s])[c], Garbage}
      BY <1>1, <1>5, <2>1, <2>3, SnapWanted
    <3>2. undone(mem[s], mods[s])[c] = mem[s][c]
      BY <2>3 DEF undone, Declared
    <3> QED BY <3>1, <3>2
  <2> QED BY <2>2, <2>3
<1>8. MemoryInv'
  BY <1>1, <1>3, <1>6, <1>7, EndMemory
<1> QED BY <1>6, <1>8

LEMMA AbortMemory ==
  ASSUME OneTransaction, TypeInv, AbortRestores, MemoryInv, NEW t \in Trans, Abort(t)
  PROVE  MemoryInv'
<1>1. /\ call.op = "none" /\ call' = Idle /\ EndTransaction(t) /\ UNCHANGED <<mapped, want, damaged>>
      /\ mem' = [s \in Segs |-> IF s \in tsegs[t] THEN undone(mem[s], mods[s]) ELSE mem[s]]
  BY DEF Abort, Ready, Idle
<1>2. /\ mem \in [Segs -> Seq(Cells)] /\ tsegs \in [Trans -> SUBSET mapped] /\ mapped \subseteq Segs
  BY DEF TypeInv, TypeOK
<1>3. ASSUME NEW s \in tsegs[t], NEW c \in DOMAIN mem'[s]
      PROVE  <<s, c>> \in damaged \/ want[s][c] \in {mem'[s][c], Garbage}
  <2>1. s \in Segs /\ mem'[s] = undone(mem[s], mods[s]) /\ DOMAIN mem'[s] = DOMAIN mem[s]
    BY <1>1, <1>2, UndoneDomain
  <2>2. c \in 1 .. Len(mem[s])
    BY <1>2, <2>1
  <2>3. ~Done(s, c)
    BY <1>1 DEF Done
  <2> QED BY <2>1, <2>2, <2>3, SnapWanted
<1>4. \A s \in Segs \ tsegs[t] : mem'[s] = mem[s]
  BY <1>1
<1> QED BY <1>1, <1>3, <1>4, EndMemory

LEMMA MapMemory ==
  ASSUME TypeInv, Kept, Played, MemoryInv, MapSegment
  PROVE  MemoryInv'
<1>1. /\ file \in [Segs -> Files] /\ want \in [Segs -> Files]
      /\ mem \in [Segs -> Seq(Cells)] /\ tsegs \in [Trans -> SUBSET mapped]
      /\ mapped \subseteq Segs
  BY DiskTypes DEF TypeInv, TypeOK
<1>2. PICK s \in Segs, n \in Nat : s = call.seg /\ n = call.size
  BY CallFacts DEF MapSegment, TypeInv, TypeOK
<1>3. /\ Truncating /\ call.op # "commit" /\ call.i > Len(log) /\ s \notin mapped
      /\ mem' = [mem EXCEPT ![s] = read(extended(s, n), grown(s, n))]
      /\ want' = [want EXCEPT ![s] = wanted(want[s], extended(s, n), grown(s, n))]
      /\ mapped' = mapped \cup {s} /\ call' = Idle
      /\ UNCHANGED <<cur_trans, mods, redolog, tsegs, snap, damaged>>
  BY <1>2 DEF MapSegment, Truncating
<1>4. cur_trans[s] \notin Trans /\ call'.op = "none"
  BY <1>3, InTransFacts DEF Idle
<1>5. \A x \in Segs : x # s => mem'[x] = mem[x] /\ want'[x] = want[x]
  BY <1>1, <1>3
<1>6. Logged' /\ SameDeclared'
  BY <1>3, <1>4 DEF MemoryInv, Logged, SameDeclared, Declared
<1>7. SnapCurrent'
  BY <1>3, <1>4, <1>5 DEF MemoryInv, SnapCurrent, Done
<1>8. grown(s, n) \in Seq(Cells) /\ want[s] \in Files /\ extended(s, n) \in Seq(Cells)
  BY <1>1, GrownFacts, ExtendedFacts DEF Files
<1>9. \A c \in DOMAIN mem'[s] :
        <<s, c>> \in damaged \/ want'[s][c] \in {mem'[s][c], Garbage}
  <2> DEFINE e == extended(s, n)
             m == grown(s, n)
  <2>1. Keeps(<<>>, file[s], want[s], damaged, s)
    BY <1>3, Flushed
  <2>2. \A c \in 1 .. Len(m) :
          \/ <<s, c>> \in damaged
          \/ wanted(want[s], e, m)[c] = Garbage \/ wanted(want[s], e, m)[c] = read(e, m)[c]
    BY <1>1, <1>8, <2>1, KeepsMap
  <2>3. read(e, m) \in Seq(Cells) /\ Len(read(e, m)) = Len(m)
    BY <1>8, ReadFacts
  <2>4. mem'[s] = read(e, m) /\ want'[s] = wanted(want[s], e, m)
    BY <1>1, <1>3
  <2> HIDE DEF e, m
  <2>5. DOMAIN mem'[s] = 1 .. Len(m)
    BY <2>3, <2>4
  <2> QED BY <2>2, <2>4, <2>5
<1>10. MappedCurrent'
  <2>1. SUFFICES ASSUME NEW x \in mapped', ~InTransaction(x)', NEW c \in DOMAIN mem'[x]
                 PROVE  <<x, c>> \in damaged \/ want'[x][c] \in {mem'[x][c], Garbage}
    BY <1>3 DEF MappedCurrent
  <2>2. CASE x = s
    BY <1>9, <2>1, <2>2
  <2>3. CASE x # s
    <3>1. x \in mapped /\ x \in Segs /\ ~InTransaction(x)
      BY <1>1, <1>3, <2>1, <2>3 DEF InTransaction
    <3> QED BY <1>5, <2>3, <3>1 DEF MemoryInv, MappedCurrent
  <2> QED BY <2>2, <2>3
<1> QED BY <1>6, <1>7, <1>10 DEF MemoryInv

LEMMA DestroyMemory ==
  ASSUME TypeInv, MemoryInv, NEW s \in Segs, Destroy(s)
  PROVE  MemoryInv'
<1>1. /\ want \in [Segs -> Files] /\ mem \in [Segs -> Seq(Cells)] /\ mapped \subseteq Segs
      /\ mods \in [Segs -> Seq(Undo)] /\ cur_trans \in [Segs -> Trans \cup {NoTrans, Lost}]
  BY DiskTypes DEF TypeInv, TypeOK, Undo
<1>2. /\ s \notin mapped /\ call.op = "none"
      /\ mem' = [mem EXCEPT ![s] = <<>>] /\ want' = [want EXCEPT ![s] = NoFile]
      /\ mods' = [mods EXCEPT ![s] = <<>>] /\ cur_trans' = [cur_trans EXCEPT ![s] = NoTrans]
      /\ UNCHANGED <<mapped, redolog, tsegs, call, snap>>
  BY DEF Destroy, Ready, Idle
<1>3. cur_trans[s] \notin Trans
  BY <1>2, InTransFacts
<1>4. mods' = mods
  <2>1. mods[s] = <<>>
    BY <1>3 DEF TypeInv, Undoable
  <2> QED BY <1>1, <1>2, <2>1
<1>5. \A x \in Segs : x # s =>
        /\ mem'[x] = mem[x] /\ want'[x] = want[x] /\ cur_trans'[x] = cur_trans[x]
        /\ \A c : <<x, c>> \in damaged' <=> <<x, c>> \in damaged
  BY <1>1, <1>2 DEF Destroy
<1>6. Logged' /\ SameDeclared'
  BY <1>2, <1>4 DEF MemoryInv, Logged, SameDeclared, Declared
<1>7. SnapCurrent'
  <2>1. cur_trans'[s] \notin Trans
    BY <1>1, <1>2, NamesAssumption
  <2> QED BY <1>2, <1>5, <2>1 DEF MemoryInv, SnapCurrent, Done
<1>8. MappedCurrent'
  BY <1>1, <1>2, <1>5 DEF MemoryInv, MappedCurrent, InTransaction
<1> QED BY <1>6, <1>7, <1>8 DEF MemoryInv

(* The snapshot is the memory, and that is what was committed. *)
LEMMA BeginMemory ==
  ASSUME OneTransaction, TypeInv, MemoryInv, NEW t \in Trans, NEW l \in Lists, Begin(t, l)
  PROVE  MemoryInv'
<1>1. /\ call.op = "none" /\ tsegs[t] = {}
      /\ UNCHANGED <<mapped, mem, mods, redolog, call, want, damaged>>
      /\ tsegs \in [Trans -> SUBSET mapped] /\ mapped \subseteq Segs
      /\ mem \in [Segs -> Seq(Cells)]
  BY DEF Begin, Ready, Idle, TypeInv, TypeOK
<1>2. Logged' /\ SameDeclared'
  BY <1>1 DEF MemoryInv, Logged, SameDeclared, Declared
<1>3. CASE \A i \in 1 .. Len(l) : Free(l[i])
  <2> DEFINE ss == {l[i] : i \in 1 .. Len(l)}
  <2>1. ss \subseteq mapped
    BY <1>3 DEF Free
  <2>2. /\ tsegs' = [tsegs EXCEPT ![t] = ss]
        /\ cur_trans' = [s \in Segs |-> IF s \in ss THEN t ELSE cur_trans[s]]
        /\ snap' = [s \in Segs |-> IF s \in ss THEN mem[s] ELSE snap[s]]
    BY <1>3 DEF Begin
  <2> HIDE DEF ss
  <2>3. \A s \in Segs : ~InTransaction(s)
    BY <1>1 DEF InTransaction, OneTransaction
  <2>4. SnapCurrent'
    <3>1. SUFFICES ASSUME NEW s \in Segs, cur_trans'[s] \in Trans, NEW c \in 1 .. Len(mem[s])
                   PROVE  <<s, c>> \in damaged \/ want[s][c] \in {snap'[s][c], Garbage}
      BY <1>1 DEF SnapCurrent, Done
    <3>2. s \in ss
      BY <2>2, <2>3, <3>1, InTransFacts
    <3>3. s \in mapped /\ c \in DOMAIN mem[s] /\ snap'[s] = mem[s]
      BY <1>1, <2>1, <2>2, <3>2
    <3> QED BY <2>3, <3>3 DEF MemoryInv, MappedCurrent
  <2>5. MappedCurrent'
    BY <1>1, <2>3 DEF MemoryInv, MappedCurrent
  <2> QED BY <1>2, <2>4, <2>5 DEF MemoryInv
<1>4. CASE ~(\A i \in 1 .. Len(l) : Free(l[i]))
  <2>1. /\ UNCHANGED <<tsegs, snap>>
        /\ \A s \in Segs : cur_trans'[s] \in {cur_trans[s], Lost}
    BY <1>4 DEF Begin
  <2>2. SnapCurrent'
    BY <1>1, <2>1, NamesAssumption DEF MemoryInv, SnapCurrent, Done
  <2>3. MappedCurrent'
    BY <1>1, <2>1 DEF MemoryInv, MappedCurrent, InTransaction
  <2> QED BY <1>2, <2>2, <2>3 DEF MemoryInv
<1> QED BY <1>3, <1>4

LEMMA DeclareMemory ==
  ASSUME TypeInv, MemoryInv, NEW t \in Trans, NEW s \in Segs, NEW c \in DOMAIN mem[s],
         AboutToModify(t, s, c)
  PROVE  MemoryInv'
<1> DEFINE e == [off |-> c, undo |-> mem[s][c]]
           r == [seg |-> s, off |-> c]
<1>1. /\ mods \in [Segs -> Seq(Undo)] /\ redolog \in Seq(Entry)
      /\ mem[s] \in Seq(Cells)
  BY DEF TypeInv, TypeOK, Undo, Entry
<1>2. c \in Nat \ {0} /\ mem[s][c] \in Cells
  BY <1>1
<1>3. e \in Undo /\ r \in Entry /\ e.off = c /\ r.seg = s /\ r.off = c
  BY <1>2 DEF Undo, Entry
<1>4. /\ call.op = "none"
      /\ mods' = [mods EXCEPT ![s] = <<e>> \o mods[s]]
      /\ redolog' = Append(redolog, r)
      /\ UNCHANGED <<mapped, mem, cur_trans, tsegs, call, want, snap, damaged>>
  BY DEF AboutToModify, Ready, Idle
<1> HIDE DEF e, r
<1>5. /\ Len(redolog') = Len(redolog) + 1 /\ Len(redolog) \in Nat
      /\ redolog'[Len(redolog) + 1] = r
      /\ \A i \in 1 .. Len(redolog) : redolog'[i] = redolog[i]
  BY <1>1, <1>3, <1>4
<1>6. ASSUME NEW x \in Segs, NEW d
      PROVE  (\E i \in 1 .. Len(redolog') : About(redolog'[i], x, d))
               <=> (x = s /\ d = c) \/ \E i \in 1 .. Len(redolog) : About(redolog[i], x, d)
  <2>1. \A i \in 1 .. Len(redolog') : i \in 1 .. Len(redolog) \/ i = Len(redolog) + 1
    BY <1>5
  <2>2. /\ Len(redolog) + 1 \in 1 .. Len(redolog')
        /\ \A i \in 1 .. Len(redolog) : i \in 1 .. Len(redolog')
    BY <1>5
  <2>3. About(r, x, d) <=> x = s /\ d = c
    BY <1>3 DEF About
  <2> QED BY <1>5, <2>1, <2>2, <2>3
<1>7. ASSUME NEW x \in Segs, NEW d
      PROVE  (\E i \in 1 .. Len(mods'[x]) : mods'[x][i].off = d)
               <=> (x = s /\ d = c) \/ \E i \in 1 .. Len(mods[x]) : mods[x][i].off = d
  <2>1. CASE x = s
    <3> DEFINE q == <<e>> \o mods[s]
    <3>1. mods'[x] = q /\ mods[s] \in Seq(Undo)
      BY <1>1, <1>4, <2>1
    <3>2. <<e>> \in Seq(Undo) /\ Len(<<e>>) = 1 /\ <<e>>[1] = e
      BY <1>3
    <3>3. /\ Len(q) = 1 + Len(mods[s])
          /\ \A i \in 1 .. 1 + Len(mods[s]) : q[i] = IF i <= 1 THEN e ELSE mods[s][i - 1]
      BY <3>1, <3>2, ConcatProperties
    <3> HIDE DEF q
    <3>4. /\ Len(mods[s]) \in Nat
          /\ \A i \in 1 .. Len(q) : i = 1 \/ (i - 1 \in 1 .. Len(mods[s]) /\ q[i] = mods[s][i - 1])
          /\ \A i \in 1 .. Len(mods[s]) : i + 1 \in 1 .. Len(q) /\ q[i + 1] = mods[s][i]
          /\ 1 \in 1 .. Len(q) /\ q[1] = e
      <4>1. PICK n \in Nat : n = Len(mods[s])
        BY <3>1
      <4>2. \A i \in 1 .. 1 + n : i = 1 \/ (i - 1 \in 1 .. n /\ ~(i <= 1))
        OBVIOUS
      <4>3. \A i \in 1 .. n : i + 1 \in 1 .. 1 + n /\ ~(i + 1 <= 1) /\ (i + 1) - 1 = i
        OBVIOUS
      <4>4. 1 \in 1 .. 1 + n /\ q[1] = e
        BY <3>3, <4>1
      <4>5. \A i \in 1 .. n : q[i + 1] = mods[s][i]
        BY <3>3, <4>1, <4>3
      <4> QED BY <3>3, <4>1, <4>2, <4>3, <4>4, <4>5
    <3>5. (\E i \in 1 .. Len(q) : q[i].off = d)
            <=> d = c \/ \E i \in 1 .. Len(mods[s]) : mods[s][i].off = d
      <4>1. d = c => \E i \in 1 .. Len(q) : q[i].off = d
        BY <1>3, <3>4
      <4>2. ASSUME NEW i \in 1 .. Len(mods[s]), mods[s][i].off = d
            PROVE  \E j \in 1 .. Len(q) : q[j].off = d
        BY <3>4, <4>2
      <4>3. ASSUME NEW i \in 1 .. Len(q), q[i].off = d
            PROVE  d = c \/ \E j \in 1 .. Len(mods[s]) : mods[s][j].off = d
        <5>1. CASE i = 1
          BY <1>3, <3>4, <4>3, <5>1
        <5>2. CASE i # 1
          BY <3>4, <4>3, <5>2
        <5> QED BY <5>1, <5>2
      <4> QED BY <4>1, <4>2, <4>3
    <3> QED BY <2>1, <3>1, <3>5
  <2>2. CASE x # s
    BY <1>1, <1>4, <2>2
  <2> QED BY <2>1, <2>2
<1>8. SameDeclared'
  <2>1. SUFFICES ASSUME NEW x \in Segs, NEW d \in Nat \ {0}
                 PROVE  (\E i \in 1 .. Len(mods'[x]) : mods'[x][i].off = d)
                          <=> \E i \in 1 .. Len(redolog') : About(redolog'[i], x, d)
    BY DEF SameDeclared, Declared
  <2>2. (\E i \in 1 .. Len(mods[x]) : mods[x][i].off = d)
          <=> \E i \in 1 .. Len(redolog) : About(redolog[i], x, d)
    BY DEF MemoryInv, SameDeclared, Declared
  <2> QED BY <1>6, <1>7, <2>2
<1>9. Logged' /\ SnapCurrent' /\ MappedCurrent'
  BY <1>4 DEF MemoryInv, Logged, SnapCurrent, Done, MappedCurrent, InTransaction
<1> QED BY <1>8, <1>9 DEF MemoryInv

LEMMA WriteMemory ==
  ASSUME TypeInv, MemoryInv, NEW t \in Trans, NEW s \in Segs, NEW c \in DOMAIN mem[s],
         NEW x \in Val, Write(t, s, c, x)
  PROVE  MemoryInv'
<1>1. /\ mem \in [Segs -> Seq(Cells)] /\ mapped \subseteq Segs
      /\ s \in tsegs[t]
  BY DEF Write, TypeInv, TypeOK
<1>2. /\ call.op = "none" /\ mem' = [mem EXCEPT ![s] = [mem[s] EXCEPT ![c] = x]]
      /\ UNCHANGED <<mapped, cur_trans, mods, redolog, tsegs, call, want, snap, damaged>>
  BY DEF Write, Ready, Idle
<1>3. /\ Len(mem'[s]) = Len(mem[s])
      /\ \A y \in Segs : y # s => mem'[y] = mem[y]
  BY <1>1, <1>2
<1>4. Logged' /\ SameDeclared'
  BY <1>2 DEF MemoryInv, Logged, SameDeclared, Declared
<1>5. SnapCurrent'
  BY <1>2, <1>3 DEF MemoryInv, SnapCurrent, Done
<1>6. MappedCurrent'
  <2>1. InTransaction(s)' /\ \A y : InTransaction(y)' <=> InTransaction(y)
    BY <1>1, <1>2 DEF InTransaction
  <2> QED BY <1>1, <1>2, <1>3, <2>1 DEF MemoryInv, MappedCurrent
<1> QED BY <1>4, <1>5, <1>6 DEF MemoryInv

LEMMA LineMemory ==
  ASSUME OneTransaction, TypeInv, MemoryInv, CommitLine
  PROVE  MemoryInv'
<1> DEFINE z == redolog[call.i].seg
           d == redolog[call.i].off
           x == mem[z][d]
<1>1. call.i \in 1 .. Len(redolog) /\ call.t \in Trans /\ call.op = "commit"
  <2>1. call.op = "commit" /\ call.i <= Len(redolog)
    BY DEF CommitLine
  <2> QED BY <2>1, DiskTypes, CallFacts, EntryFacts
<1>2. /\ z \in Segs /\ d \in 1 .. Len(want[z]) /\ cur_trans[z] \in Trans
      /\ want[z] \in Seq(Cells)
  BY <1>1, LineFacts, CellsFacts
<1>3. z \in tsegs[call.t]
  BY <1>1, <1>2 DEF OneTransaction, TypeInv, TypeOK
<1>4. /\ want' = [want EXCEPT ![z][d] = x]
      /\ UNCHANGED <<mapped, mem, cur_trans, mods, redolog, tsegs, snap>>
      /\ \A s, c : <<s, c>> \in damaged /\ (s # z \/ c # d) => <<s, c>> \in damaged'
  <2>1. PICK i \in 1 .. Len(redolog), y \in Cells, rest \in Rest :
          i = call.i /\ logged(redolog[i], mem[redolog[i].seg][redolog[i].off], y, rest)
    BY CommitLogs
  <2>2. damaged \ {<<z, d>>} \subseteq damaged' /\ want' = [want EXCEPT ![z][d] = x]
    BY <1>3, <2>1 DEF logged, cell
  <2> QED BY <2>2 DEF CommitLine
<1>5. want \in [Segs -> Files] /\ Len(redolog) \in Nat /\ redolog \in Seq(Entry)
  BY DiskTypes
<1>i. call'.op = "commit" /\ call'.i = call.i + 1
  <2>1. call \in [op : {"commit"}, i : Nat \ {0}, t : Trans]
    BY <1>1, DiskTypes DEF Calls, Idle
  <2> QED BY <2>1 DEF CommitLine
<1>6. PICK i \in 1 .. Len(redolog) : i = call.i /\ z = redolog[i].seg /\ d = redolog[i].off
  BY <1>1
<1>7. /\ want'[z][d] = x
      /\ \A y \in Segs : \A c : (y # z \/ c # d) => want'[y][c] = want[y][c]
  <2>1. want[z] = want[z] /\ d \in DOMAIN want[z] /\ z \in DOMAIN want
    BY <1>2, <1>5
  <2>2. want' = [want EXCEPT ![z] = [want[z] EXCEPT ![d] = x]]
    BY <1>4
  <2> HIDE DEF z, d, x
  <2>3. want'[z] = [want[z] EXCEPT ![d] = x] /\ \A y \in Segs : y # z => want'[y] = want[y]
    BY <1>5, <2>1, <2>2
  <2>4. [want[z] EXCEPT ![d] = x][d] = x /\ \A c : c # d => [want[z] EXCEPT ![d] = x][c] = want[z][c]
    BY <1>2, <2>1
  <2> QED BY <2>3, <2>4
<1>8. \A j \in 1 .. i + 1 - 1 : j \in 1 .. i - 1 \/ j = i
  BY <1>5
<1>9. Logged'
  <2>1. \A j \in 1 .. i : redolog[j].seg \in Segs
    <3>1. \A j \in 1 .. i : redolog[j] \in Entry
      BY <1>5
    <3> QED BY <3>1 DEF Entry
  <2>2. ASSUME NEW j \in 1 .. i
        PROVE  want'[redolog[j].seg][redolog[j].off] = mem[redolog[j].seg][redolog[j].off]
    <3>1. CASE redolog[j].seg = z /\ redolog[j].off = d
      BY <1>7, <3>1
    <3>2. CASE ~(redolog[j].seg = z /\ redolog[j].off = d)
      <4>1. j \in 1 .. i - 1
        BY <1>5, <1>6, <3>2
      <4>2. want[redolog[j].seg][redolog[j].off] = mem[redolog[j].seg][redolog[j].off]
        BY <1>1, <1>6, <4>1 DEF MemoryInv, Logged
      <4> QED BY <1>7, <2>1, <3>2, <4>2
    <3> QED BY <3>1, <3>2
  <2>3. i + 1 <= Len(redolog) + 1 /\ i + 1 - 1 = i
    BY <1>5
  <2> QED BY <1>4, <1>i, <1>6, <2>2, <2>3 DEF Logged
<1>10. SameDeclared'
  BY <1>4 DEF MemoryInv, SameDeclared, Declared
<1>11. SnapCurrent'
  <2>1. SUFFICES ASSUME NEW s \in Segs, cur_trans[s] \in Trans, NEW c \in 1 .. Len(mem[s]),
                        ~Done(s, c)'
                 PROVE  <<s, c>> \in damaged' \/ want'[s][c] \in {snap[s][c], Garbage}
    BY <1>4 DEF SnapCurrent
  <2>2. \A j \in 1 .. i : ~About(redolog[j], s, c)
    <3>1. i + 1 - 1 = i
      BY <1>5
    <3> QED BY <1>4, <1>i, <1>6, <2>1, <3>1 DEF Done
  <2>3. ~Done(s, c) /\ (s # z \/ c # d)
    <3>1. i \in 1 .. i /\ \A j \in 1 .. i - 1 : j \in 1 .. i
      BY <1>5
    <3> QED BY <1>6, <2>2, <3>1 DEF Done, About
  <2>4. <<s, c>> \in damaged \/ want[s][c] \in {snap[s][c], Garbage}
    BY <2>1, <2>3 DEF MemoryInv, SnapCurrent
  <2> QED BY <1>4, <1>7, <2>1, <2>3, <2>4
<1>12. MappedCurrent'
  <2>1. InTransaction(z) /\ \A y : InTransaction(y)' <=> InTransaction(y)
    BY <1>1, <1>3, <1>4 DEF InTransaction
  <2>2. mapped \subseteq Segs
    BY DEF TypeInv, TypeOK
  <2>3. SUFFICES ASSUME NEW s \in mapped, ~InTransaction(s), NEW c \in DOMAIN mem[s]
                 PROVE  <<s, c>> \in damaged' \/ want'[s][c] \in {mem[s][c], Garbage}
    BY <1>4, <2>1 DEF MappedCurrent
  <2>4. s # z /\ s \in Segs
    BY <2>1, <2>2, <2>3
  <2>5. <<s, c>> \in damaged \/ want[s][c] \in {mem[s][c], Garbage}
    BY <2>3 DEF MemoryInv, MappedCurrent
  <2> QED BY <1>4, <1>7, <2>4, <2>5
<1> QED BY <1>9, <1>10, <1>11, <1>12 DEF MemoryInv

-----------------------------------------------------------------------------
(* The invariant, and what follows from it. *)

DurableInv == TypeInv /\ AbortRestores /\ Kept /\ Played /\ MemoryInv

LEMMA InitDurable == Init => DurableInv
<1> SUFFICES ASSUME Init PROVE DurableInv
  OBVIOUS
<1>1. call.op = "none" /\ mapped = {} /\ redolog = <<>> /\ log = <<>>
      /\ \A s \in Segs : /\ mods[s] = <<>> /\ cur_trans[s] = NoTrans
                         /\ file[s] = NoFile /\ want[s] = NoFile
  BY DEF Init, Idle
<1>2. AbortRestores
  BY DEF Init, AbortRestores
<1>3. Kept /\ Played
  BY <1>1 DEF Kept, Keeps, Played, Truncating
<1>4. Logged /\ SnapCurrent /\ MappedCurrent
  BY <1>1, NamesAssumption DEF Logged, SnapCurrent, MappedCurrent
<1>5. SameDeclared
  BY <1>1, EmptySeqs DEF SameDeclared, Declared
<1> QED BY <1>2, <1>3, <1>4, <1>5, InitTypes DEF DurableInv, MemoryInv

(* The disk, step by step. *)
LEMMA NextPlayed ==
  ASSUME TypeInv, Played, [Next]_vars
  PROVE  Played'
<1>1. Len(log) \in Nat /\ Idle.op = "none" /\ call \in Calls
  BY DiskTypes DEF Idle
<1>2. CASE UNCHANGED vars
  BY <1>2 DEF vars, disk, process, Played, Truncating
<1>3. CASE Start
  BY <1>3 DEF Start, disk, Played, Truncating
<1>4. CASE BeginTruncate \/ \E s \in Segs : \E n \in Sizes : BeginMap(s, n)
  <2>1. UNCHANGED <<file, log>> /\ call'.i = 1
    BY <1>4 DEF BeginTruncate, BeginMap, disk
  <2> QED BY <1>1, <2>1 DEF Played, PlayedTo
<1>5. CASE TruncateLine
  BY <1>5, PlayedTruncate
<1>6. CASE CommitLine
  <2>1. call.op = "commit"
    BY <1>6 DEF CommitLine
  <2>2. call \in [op : {"commit"}, i : Nat \ {0}, t : Trans]
    BY <1>1, <2>1 DEF Calls, Idle
  <2>3. call'.op = "commit"
    BY <1>6, <2>2 DEF CommitLine
  <2> QED BY <2>3 DEF Played, Truncating
<1>7. CASE \E t \in Trans : BeginCommit(t)
  <2>1. call'.op = "commit"
    BY <1>7 DEF BeginCommit
  <2> QED BY <2>1 DEF Played, Truncating
<1>8. CASE \/ EndTruncate \/ MapRefused \/ MapSegment \/ EndCommit
           \/ TruncateDies \/ Crash \/ CrashInLine \/ CrashInMap
  <2>1. call' = Idle
    BY <1>8 DEF EndTruncate, MapRefused, MapSegment, EndCommit, TruncateDies, Crash,
                CrashInLine, CrashInMap, Dead
  <2> QED BY <1>1, <2>1 DEF Played, Truncating
<1>9. CASE \/ \E s \in Segs : Unmap(s) \/ Destroy(s)
           \/ \E t \in Trans : Abort(t) \/ \E l \in Lists : Begin(t, l)
           \/ \E t \in Trans, s \in Segs : \E c \in DOMAIN mem[s] : AboutToModify(t, s, c)
           \/ Application
  <2>1. call' = Idle
    BY <1>9 DEF Unmap, Destroy, Abort, Begin, AboutToModify, Application, Write, Ready
  <2> QED BY <1>1, <2>1 DEF Played, Truncating
<1> QED BY <1>2, <1>3, <1>4, <1>5, <1>6, <1>7, <1>8, <1>9 DEF Next, Library

LEMMA NextKept ==
  ASSUME OneTransaction, DurableInv, [Next]_vars
  PROVE  Kept'
<1>1. TypeInv /\ Kept /\ Played /\ AbortRestores /\ MemoryInv
  BY DEF DurableInv
<1>2. CASE UNCHANGED <<file, log, want, damaged>>
  BY <1>1, <1>2, SameDisk
<1>3. CASE UNCHANGED vars \/ Start
  BY <1>2, <1>3 DEF Start, vars, disk
<1>4. CASE \/ BeginTruncate \/ TruncateDies \/ Crash
           \/ \E s \in Segs : Unmap(s) \/ \E n \in Sizes : BeginMap(s, n)
           \/ \E t \in Trans : BeginCommit(t) \/ Abort(t) \/ \E l \in Lists : Begin(t, l)
           \/ \E t \in Trans, s \in Segs : \E c \in DOMAIN mem[s] : AboutToModify(t, s, c)
           \/ Application
  BY <1>2, <1>4
     DEF BeginTruncate, TruncateDies, Crash, Unmap, BeginMap, BeginCommit, Abort, Begin,
         AboutToModify, Application, Write, disk
<1>5. CASE TruncateLine
  BY <1>1, <1>5, KeptTruncate
<1>6. CASE EndTruncate \/ MapRefused \/ MapSegment \/ CrashInMap
  BY <1>1, <1>6, KeptMap
<1>7. CASE CommitLine \/ CrashInLine
  BY <1>1, <1>7, KeptLine
<1>8. CASE EndCommit
  BY <1>1, <1>2, <1>8, CommitMemory DEF EndCommit, disk
<1>9. ASSUME NEW s \in Segs, Destroy(s) PROVE Kept'
  BY <1>1, <1>9, KeptDestroy
<1> QED BY <1>3, <1>4, <1>5, <1>6, <1>7, <1>8, <1>9 DEF Next, Library

(* The memory, step by step. *)
LEMMA NextMemory ==
  ASSUME OneTransaction, DurableInv, [Next]_vars
  PROVE  MemoryInv'
<1>1. TypeInv /\ Kept /\ Played /\ AbortRestores /\ MemoryInv
  BY DEF DurableInv
<1>2. Len(redolog) \in Nat /\ Idle.op = "none" /\ call \in Calls
  BY <1>1, DiskTypes DEF Idle
<1>3. ASSUME UNCHANGED <<mapped, mem, cur_trans, mods, redolog, tsegs, want, snap, damaged>>,
             call.op # "commit", call'.op = "commit" => call'.i = 1
      PROVE  MemoryInv'
  BY <1>1, <1>2, <1>3, SameMemory
<1>4. CASE UNCHANGED vars
  <2>1. Logged' /\ SnapCurrent'
    BY <1>1, <1>4 DEF MemoryInv, Logged, SnapCurrent, Done, vars, process
  <2>2. SameDeclared' /\ MappedCurrent'
    BY <1>1, <1>4
       DEF MemoryInv, SameDeclared, Declared, MappedCurrent, InTransaction, vars, process
  <2> QED BY <2>1, <2>2 DEF MemoryInv
<1>5. CASE Start
  <2>1. call = Idle /\ call' = call
    BY <1>1, <1>5 DEF Start, TypeInv, TypeOK
  <2> QED BY <1>2, <1>3, <1>5, <2>1 DEF Start
<1>6. CASE \/ BeginTruncate \/ \E s \in Segs : \E n \in Sizes : BeginMap(s, n)
           \/ \E t \in Trans : BeginCommit(t)
  BY <1>2, <1>3, <1>6 DEF BeginTruncate, BeginMap, BeginCommit, Ready
<1>7. CASE TruncateLine
  <2>1. call'.op # "commit" /\ call.op # "commit"
    <3>1. \/ call \in [op : {"truncate"}, i : Nat \ {0}]
          \/ call \in [op : {"map"}, i : Nat \ {0}, seg : Segs, size : Sizes]
      BY <1>2, <1>7 DEF TruncateLine, Truncating, Calls
    <3> QED BY <1>7, <3>1 DEF TruncateLine
  <2> QED BY <1>3, <1>7, <2>1 DEF TruncateLine
<1>8. CASE EndTruncate \/ MapRefused
  BY <1>2, <1>3, <1>8 DEF EndTruncate, MapRefused
<1>9. CASE TruncateDies \/ Crash \/ CrashInLine \/ CrashInMap
  BY <1>9, DeadMemory DEF TruncateDies, Crash, CrashInLine, CrashInMap
<1>10. ASSUME NEW s \in Segs, Unmap(s) PROVE MemoryInv'
  <2>1. Logged' /\ SnapCurrent' /\ SameDeclared'
    BY <1>1, <1>10 DEF Unmap, MemoryInv, Logged, SnapCurrent, Done, SameDeclared, Declared
  <2>2. MappedCurrent'
    BY <1>1, <1>10 DEF Unmap, MemoryInv, MappedCurrent, InTransaction
  <2> QED BY <2>1, <2>2 DEF MemoryInv
<1>11. CASE Application
  BY <1>1, <1>11, WriteMemory DEF Application
<1> QED BY <1>1, <1>4, <1>5, <1>6, <1>7, <1>8, <1>9, <1>10, <1>11, MapMemory,
           DestroyMemory, BeginMemory, AbortMemory, DeclareMemory, LineMemory, CommitMemory
        DEF Next, Library

LEMMA NextDurable ==
  ASSUME OneTransaction, DurableInv, [Next]_vars
  PROVE  DurableInv'
BY NextTypes, NextRestores, NextPlayed, NextKept, NextMemory DEF DurableInv

LEMMA DurableDisk ==
  ASSUME DurableInv, LogPlayable, NEW s \in Segs
  PROVE  Durable(s)
<1>1. /\ TypeInv /\ want \in [Segs -> Files] /\ Keeps(log, file[s], want[s], damaged, s)
      /\ log \in Seq(Line) /\ file \in [Segs -> Files]
  BY DiskTypes DEF DurableInv, Kept
<1>2. SUFFICES ASSUME want[s] # NoFile
               PROVE  /\ file[s] # NoFile
                      /\ \A c \in DOMAIN want[s] :
                           <<s, c>> \in damaged \/ want[s][c] \in {recovered(s, c), Garbage}
  BY DEF Durable
<1>3. DOMAIN want[s] = 1 .. Len(want[s])
  BY <1>1, <1>2 DEF Files
<1>4. file[s] # NoFile
  BY <1>1, <1>2 DEF Keeps
<1>5. ASSUME NEW c \in 1 .. Len(want[s]), want[s][c] # Garbage, <<s, c>> \notin damaged
      PROVE  want[s][c] = recovered(s, c)
  <2>1. Holds(log, file[s], s, c, want[s][c])
    BY <1>1, <1>2, <1>5 DEF Keeps
  <2>2. file[s] \in Seq(Cells)
    BY <1>1, <1>4 DEF Files
  <2>3. Found(log, file[s], s, c) = want[s][c]
    BY <1>1, <2>1, <2>2, FoundHolds
  <2> QED BY <2>3, FoundRecovered
<1> QED BY <1>3, <1>4, <1>5

(* When one transaction runs at a time, what was committed is on the disk  *)
(* after any number of commits, maps, truncations and crashes, in the      *)
(* middle of a line or of a truncation too: as long as every line of the   *)
(* log can be played, and but for the cells over which a torn line, or one *)
(* with a newline in its data, has put something else.                     *)
THEOREM CommitsSurvive ==
  ASSUME OneTransaction
  PROVE  Spec => []CommittedKept
<1>1. DurableInv /\ [Next]_vars => DurableInv'
  BY NextDurable
<1>2. DurableInv => CommittedKept
  BY DurableDisk DEF CommittedKept
<1> QED BY InitDurable, <1>1, <1>2, PTL DEF Spec

(* ... and between transactions the memory of a mapped segment is what was *)
(* committed, but for the same damaged cells.                              *)
THEOREM MemoryCurrent ==
  ASSUME OneTransaction
  PROVE  Spec => []MappedCurrent
<1>1. DurableInv /\ [Next]_vars => DurableInv'
  BY NextDurable
<1>2. DurableInv => MappedCurrent
  BY DEF DurableInv, MemoryInv
<1> QED BY InitDurable, <1>1, <1>2, PTL DEF Spec

-----------------------------------------------------------------------------
(* What a process will find in a cell, and what changes it.  This needs no *)
(* assumption about the transactions.                                      *)

(* Playing a line that is in the log changes nothing, ...                  *)
LEMMA FoundPut ==
  ASSUME NEW l \in Seq(Line), NEW f \in Seq(Cells), NEW s, NEW c \in Nat \ {0},
         NEW d \in Nat \ {0}, NEW v \in Cells, d = c => ~None(l, s, c)
  PROVE  Found(l, put(f, d, v), s, c) = Found(l, f, s, c)
<1> DEFINE g == put(f, d, v)
<1>1. g \in Seq(Cells)
  BY PutFacts
<1>2. /\ \A x : Holds(l, f, s, c, x) => Holds(l, g, s, c, x)
      /\ Clear(l, f, s, c) => Clear(l, g, s, c)
  BY HoldsPut, Zenon
<1> HIDE DEF g
<1>3. ASSUME NEW x, Holds(l, f, s, c, x) PROVE Found(l, g, s, c) = Found(l, f, s, c)
  <2>1. Found(l, f, s, c) = x
    BY <1>3, FoundHolds
  <2>2. Found(l, g, s, c) = x
    BY <1>1, <1>2, <1>3, FoundHolds
  <2> QED BY <2>1, <2>2
<1>4. ASSUME None(l, s, c) /\ c \notin 1 .. Len(f)
      PROVE  Found(l, g, s, c) = Found(l, f, s, c)
  <2>1. Found(l, f, s, c) = 0
    BY <1>4, FoundHolds
  <2>2. Clear(l, g, s, c)
    BY <1>2, <1>4 DEF Clear
  <2>3. Found(l, g, s, c) = 0
    BY <1>1, <2>2, FoundHolds DEF Clear
  <2> QED BY <2>1, <2>3
<1>5. Found(l, g, s, c) = Found(l, f, s, c)
  BY <1>3, <1>4, HoldsSomething
<1> QED BY <1>5 DEF g

(* ... nor does dropping the log once all of it is played, ...             *)
LEMMA FoundPlayed ==
  ASSUME NEW l \in Seq(Line), NEW f \in [Segs -> Files], PlayedTo(l, f, Len(l)),
         NEW s \in Segs, NEW c \in Nat \ {0}, f[s] # NoFile
  PROVE  Found(<<>>, f[s], s, c) = Found(l, f[s], s, c)
<1>1. f \in [Segs -> Seq(Cells) \cup {NoFile}] /\ f[s] \in Seq(Cells)
  BY DEF Files
<1>2. /\ \A x : Holds(l, f[s], s, c, x) => c \in 1 .. Len(f[s]) /\ f[s][c] = x
      /\ Clear(l, f[s], s, c) => (c \in 1 .. Len(f[s]) => f[s][c] = 0)
  BY <1>1, HoldsPlayed, Zenon
<1>3. None(<<>>, s, c) /\ <<>> \in Seq(Line)
  BY EmptySeqs DEF None
<1>4. ASSUME NEW x, Holds(l, f[s], s, c, x)
      PROVE  Found(<<>>, f[s], s, c) = Found(l, f[s], s, c)
  <2>1. Holds(<<>>, f[s], s, c, x)
    BY <1>2, <1>3, <1>4 DEF Holds
  <2>2. Found(<<>>, f[s], s, c) = x
    BY <1>1, <1>3, <2>1, FoundHolds
  <2>3. Found(l, f[s], s, c) = x
    BY <1>1, <1>4, FoundHolds
  <2> QED BY <2>2, <2>3
<1>5. CASE None(l, s, c) /\ c \notin 1 .. Len(f[s])
  <2>1. Found(<<>>, f[s], s, c) = 0
    BY <1>1, <1>3, <1>5, FoundHolds
  <2>2. Found(l, f[s], s, c) = 0
    BY <1>1, <1>5, FoundHolds
  <2> QED BY <2>1, <2>2
<1> QED BY <1>1, <1>4, <1>5, HoldsSomething

(* ... nor zeros at the end of the file.                                   *)
LEMMA FoundLonger ==
  ASSUME NEW f \in Seq(Cells), NEW g \in Seq(Cells), Len(g) >= Len(f),
         \A c \in 1 .. Len(g) : g[c] = IF c <= Len(f) THEN f[c] ELSE 0,
         NEW s, NEW c \in Nat \ {0}
  PROVE  Found(<<>>, g, s, c) = Found(<<>>, f, s, c)
<1>1. None(<<>>, s, c) /\ <<>> \in Seq(Line)
  BY EmptySeqs DEF None
<1>2. DOMAIN f = 1 .. Len(f) /\ DOMAIN g = 1 .. Len(g) /\ Len(f) \in Nat /\ Len(g) \in Nat
  OBVIOUS
<1>3. \A h : Found(<<>>, h, s, c) = IF c \in DOMAIN h THEN h[c] ELSE 0
  <2>1. {i \in 1 .. Len(<<>>) : About(<<>>[i], s, c)} = {}
    BY <1>1 DEF None
  <2> QED BY <2>1 DEF Found
<1> QED BY <1>2, <1>3

(* The cells that the disk names. *)
LEMMA NamedFacts ==
  ASSUME NEW l \in Seq(Line), NEW f \in Seq(Cells)
  PROVE  DOMAIN f \cup {l[i].off : i \in 1 .. Len(l)} \subseteq Nat \ {0}
<1>1. \A i \in 1 .. Len(l) : l[i] \in Line
  OBVIOUS
<1>2. \A i \in 1 .. Len(l) : l[i].off \in Nat \ {0}
  BY <1>1 DEF Line
<1>3. DOMAIN f = 1 .. Len(f)
  OBVIOUS
<1> QED BY <1>2, <1>3

(* A line changes its own cell, and no other.                              *)
LEMMA FoundAppend ==
  ASSUME NEW l \in Seq(Line), NEW r \in Line, NEW f \in Seq(Cells), NEW s \in Segs,
         NEW c \in Nat \ {0}
  PROVE  Found(Append(l, r), f, s, c) =
           IF About(r, s, c) THEN r.val ELSE Found(l, f, s, c)
<1> DEFINE k == Append(l, r)
<1>1. /\ k \in Seq(Line)
      /\ About(r, s, c) => Holds(k, f, s, c, r.val)
      /\ ~About(r, s, c) =>
           /\ \A x : Holds(l, f, s, c, x) => Holds(k, f, s, c, x)
           /\ None(l, s, c) => None(k, s, c)
  BY HoldsAppend
<1> HIDE DEF k
<1>2. CASE About(r, s, c)
  BY <1>1, <1>2, FoundHolds DEF k
<1>3. ASSUME ~About(r, s, c), NEW x, Holds(l, f, s, c, x)
      PROVE  Found(k, f, s, c) = Found(l, f, s, c)
  <2>1. Found(k, f, s, c) = x
    BY <1>1, <1>3, FoundHolds
  <2>2. Found(l, f, s, c) = x
    BY <1>3, FoundHolds
  <2> QED BY <2>1, <2>2
<1>4. ASSUME ~About(r, s, c), None(l, s, c) /\ c \notin 1 .. Len(f)
      PROVE  Found(k, f, s, c) = Found(l, f, s, c)
  <2>1. Found(k, f, s, c) = 0
    BY <1>1, <1>4, FoundHolds
  <2>2. Found(l, f, s, c) = 0
    BY <1>4, FoundHolds
  <2> QED BY <2>1, <2>2
<1>5. ~About(r, s, c) => Found(k, f, s, c) = Found(l, f, s, c)
  BY <1>3, <1>4, HoldsSomething
<1> QED BY <1>2, <1>5 DEF k

(* The line of an entry, and what a split one leaves after it.             *)
LEMMA FoundLogged ==
  ASSUME TypeInv, NEW i \in 1 .. Len(redolog), NEW x \in Cells, NEW y \in Cells,
         NEW rest \in Rest, logged(redolog[i], x, y, rest), file' = file, LogPlayable',
         NEW s \in Segs, NEW c \in Nat \ {0}, file[s] # NoFile
  PROVE  \/ Found(log', file[s], s, c) = Found(log, file[s], s, c)
         \/ <<s, c>> = cell(redolog[i]) /\ Found(log', file[s], s, c) = x
         \/ <<s, c>> \in damaged'
<1> DEFINE r == whole(redolog[i], y)
           l == Append(log, r)
           d == (damaged \ {<<redolog[i].seg, redolog[i].off>>})
                  \cup (IF y = x THEN {} ELSE {<<redolog[i].seg, redolog[i].off>>})
<1>1. log \in Seq(Line) /\ file[s] \in Seq(Cells) /\ redolog[i] \in Entry
  BY DiskTypes, EntryFacts DEF Files
<1>2. /\ r \in Line /\ l \in Seq(Line)
      /\ r.seg = redolog[i].seg /\ r.off = redolog[i].off /\ r.val = y
      /\ \/ log' = l /\ damaged' = d
         \/ \E q \in Line : /\ log' = Append(l, q)
                            /\ damaged' = d \cup (IF q.parses THEN {<<q.seg, q.off>>} ELSE {})
  BY LoggedFacts DEF whole
<1>3. About(r, s, c) <=> <<s, c>> = cell(redolog[i])
  BY <1>2 DEF About, cell
<1>4. <<s, c>> = cell(redolog[i]) /\ y # x => <<s, c>> \in d
  BY DEF cell
<1> HIDE DEF r, d
<1>5. Found(l, file[s], s, c) = IF About(r, s, c) THEN y ELSE Found(log, file[s], s, c)
  BY <1>1, <1>2, FoundAppend
<1> HIDE DEF l
<1>6. LogPlayable' <=> Plays(log', file)
  BY DEF LogPlayable, Playable, Plays
<1>7. CASE log' = l /\ damaged' = d
  BY <1>3, <1>4, <1>5, <1>7
<1>8. ASSUME NEW q \in Line, log' = Append(l, q),
             damaged' = d \cup (IF q.parses THEN {<<q.seg, q.off>>} ELSE {}),
             <<s, c>> \notin damaged'
      PROVE  Found(log', file[s], s, c) = Found(l, file[s], s, c) /\ <<s, c>> \notin d
  <2>1. q.parses
    BY <1>2, <1>6, <1>8, PlaysAppend
  <2>2. ~About(q, s, c) /\ <<s, c>> \notin d
    BY <1>8, <2>1 DEF About
  <2> QED BY <1>1, <1>2, <1>8, <2>2, FoundAppend
<1> QED BY <1>2, <1>3, <1>4, <1>5, <1>7, <1>8

LEMMA StepAlone ==
  ASSUME TypeInv, Played, Next, LogPlayable', NEW s \in Segs, NEW c \in Nat \ {0},
         file[s] # NoFile, file'[s] # NoFile,
         Found(log', file'[s], s, c) # Found(log, file[s], s, c)
  PROVE  /\ call.op = "commit" /\ call.i <= Len(redolog)
         /\ \/ /\ <<s, c>> = cell(redolog[call.i])
               /\ Found(log', file'[s], s, c) = mem[s][c]
            \/ <<s, c>> \in damaged'
<1>1. /\ file \in [Segs -> Files] /\ log \in Seq(Line) /\ Len(log) \in Nat
      /\ mem \in [Segs -> Seq(Cells)] /\ file[s] \in Seq(Cells) /\ call \in Calls
  BY DiskTypes DEF Files
<1>2. ~(log' = log /\ file'[s] = file[s])
  OBVIOUS
<1>3. ~(\/ Start \/ BeginTruncate \/ TruncateDies \/ EndCommit \/ Crash \/ Application
        \/ \E z \in Segs : Unmap(z) \/ \E n \in Sizes : BeginMap(z, n)
        \/ \E t \in Trans : BeginCommit(t) \/ Abort(t) \/ \E l \in Lists : Begin(t, l)
        \/ \E t \in Trans, z \in Segs : \E d \in DOMAIN mem[z] : AboutToModify(t, z, d))
  BY <1>2 DEF Start, BeginTruncate, TruncateDies, EndCommit, Crash, Application, Write, Unmap,
              BeginMap, BeginCommit, Abort, Begin, AboutToModify, disk
<1>4. ASSUME NEW z \in Segs, Destroy(z) PROVE FALSE
  BY <1>1, <1>2, <1>4 DEF Destroy
<1>5. ASSUME TruncateLine PROVE FALSE
  <2> DEFINE r == log[call.i]
  <2>1. /\ r \in Line /\ ~None(log, r.seg, r.off) /\ log' = log
        /\ file' = [file EXCEPT ![r.seg] = put(file[r.seg], r.off, r.val)]
    BY <1>5, PlayedTruncate
  <2> HIDE DEF r
  <2>2. r.seg \in Segs /\ r.off \in Nat \ {0} /\ r.val \in Cells
    BY <2>1 DEF Line
  <2>3. s = r.seg
    BY <1>1, <1>2, <2>1
  <2>4. r.off = c => ~None(log, s, c)
    BY <2>1, <2>3
  <2>5. Found(log, put(file[s], r.off, r.val), s, c) = Found(log, file[s], s, c)
    <3>1. PICK d \in Nat \ {0}, v \in Cells : d = r.off /\ v = r.val
      BY <2>2
    <3>2. Found(log, put(file[s], d, v), s, c) = Found(log, file[s], s, c)
      BY <1>1, <2>4, <3>1, FoundPut
    <3> QED BY <3>1, <3>2
  <2> QED BY <1>1, <2>1, <2>2, <2>3, <2>5
<1>6. ASSUME Truncating, call.i > Len(log), log' = <<>>
      PROVE  Found(<<>>, file[s], s, c) = Found(log, file[s], s, c)
  <2>1. call.i \in Nat
    BY <1>1, <1>6, CallFacts
  <2>2. call.i - 1 = Len(log)
    BY <1>1, <1>6, <2>1 DEF Played
  <2>3. PlayedTo(log, file, Len(log))
    BY <1>6, <2>2 DEF Played
  <2> QED BY <1>1, <2>3, FoundPlayed
<1>7. ASSUME EndTruncate \/ MapRefused PROVE FALSE
  <2>1. Truncating /\ call.i > Len(log) /\ log' = <<>> /\ file' = file
    BY <1>7 DEF EndTruncate, MapRefused, Truncating
  <2> QED BY <1>6, <2>1
<1>8. ASSUME MapSegment \/ CrashInMap PROVE FALSE
  <2>1. /\ Truncating /\ call.op = "map" /\ call.i > Len(log) /\ log' = <<>>
        /\ \A z \in Segs : z # call.seg => file'[z] = file[z]
    BY <1>1, <1>8 DEF MapSegment, CrashInMap, Truncating
  <2>2. s = call.seg
    BY <1>6, <2>1
  <2>3. PICK n \in Nat : n = call.size
    BY <1>1, <2>1, CallFacts
  <2> DEFINE e == extended(s, n)
  <2>4. PICK k \in Len(file[s]) .. Len(e) : file'[s] = e \/ file'[s] = SubSeq(e, 1, k)
    <3>1. e \in Seq(Cells) /\ Len(e) >= Len(file[s])
      BY <1>1, ExtendedFacts DEF Files
    <3>2. MapSegment => file'[s] = e
      BY <1>1, <2>2, <2>3 DEF MapSegment
    <3>3. CrashInMap => \E k \in Len(file[s]) .. Len(e) : file'[s] = SubSeq(e, 1, k)
      BY <1>1, <2>2, <2>3 DEF CrashInMap
    <3>4. Len(file[s]) \in Len(file[s]) .. Len(e)
      BY <1>1, <3>1
    <3> HIDE DEF e
    <3> QED BY <1>8, <3>2, <3>3, <3>4
  <2>5. /\ e \in Seq(Cells) /\ Len(e) >= Len(file[s])
        /\ \A d \in 1 .. Len(e) : e[d] = IF d <= Len(file[s]) THEN file[s][d] ELSE 0
    BY <1>1, ExtendedFacts DEF Files
  <2> HIDE DEF e
  <2>6. /\ file'[s] \in Seq(Cells) /\ Len(file'[s]) >= Len(file[s])
        /\ \A d \in 1 .. Len(file'[s]) :
             file'[s][d] = IF d <= Len(file[s]) THEN file[s][d] ELSE 0
    <3>1. CASE file'[s] = e
      BY <2>5, <3>1
    <3>2. CASE file'[s] = SubSeq(e, 1, k)
      <4>1. k \in Nat /\ k <= Len(e) /\ k >= Len(file[s])
        BY <1>1, <2>5
      <4>2. \A d \in 1 .. k : e[d] \in Cells /\ d \in 1 .. Len(e)
        BY <2>5, <4>1
      <4>3. /\ SubSeq(e, 1, k) \in Seq(Cells) /\ Len(SubSeq(e, 1, k)) = k
            /\ \A d \in 1 .. k : SubSeq(e, 1, k)[d] = e[d]
        BY <4>1, <4>2, SubSeqProperties
      <4> QED BY <2>5, <3>2, <4>1, <4>2, <4>3
    <3> QED BY <2>4, <3>1, <3>2
  <2>7. Found(<<>>, file'[s], s, c) = Found(<<>>, file[s], s, c)
    BY <1>1, <2>6, FoundLonger
  <2> QED BY <1>6, <2>1, <2>7
<1>9. CASE CommitLine \/ CrashInLine
  <2>1. call.op = "commit" /\ call.i <= Len(redolog) /\ file' = file
    BY <1>9 DEF CommitLine, CrashInLine
  <2>2. PICK i \in 1 .. Len(redolog) : i = call.i
    BY <2>1, EntryFacts
  <2> DEFINE q == redolog[i]
             x == mem[q.seg][q.off]
  <2>3. q \in Entry /\ x \in Cells
    BY EntryFacts, LineFacts, CellsFacts
  <2>4. <<s, c>> = cell(q) => x = mem[s][c]
    BY <2>3 DEF cell, Entry
  <2>5. ASSUME NEW y \in Cells, NEW rest \in Rest, logged(q, x, y, rest)
        PROVE  (<<s, c>> = cell(q) /\ Found(log', file'[s], s, c) = mem[s][c]) \/ <<s, c>> \in damaged'
    BY <2>1, <2>3, <2>4, <2>5, FoundLogged
  <2>6. CASE CommitLine
    BY <2>1, <2>2, <2>5, <2>6, CommitLogs
  <2>7. CASE CrashInLine
    <3>1. \/ log' = Append(log, torn(q))
          \/ log' = Append(log, whole(q, Garbage)) /\ damaged' = damaged \cup {cell(q)}
          \/ logged(q, x, x, <<>>)
      BY <2>2, <2>7 DEF CrashInLine
    <3>2. LogPlayable' <=> Plays(log', file)
      BY <2>1 DEF LogPlayable, Playable, Plays
    <3>3. CASE logged(q, x, x, <<>>)
      BY <2>1, <2>2, <2>3, <2>5, <3>3 DEF Rest
    <3> HIDE DEF q, x
    <3>4. CASE log' = Append(log, torn(q))
      <4>1. torn(q) \in Line /\ ~torn(q).parses
        BY <2>3, CellsFacts DEF torn, Line, Entry
      <4> QED BY <1>1, <3>2, <3>4, <4>1, PlaysAppend
    <3>5. CASE log' = Append(log, whole(q, Garbage)) /\ damaged' = damaged \cup {cell(q)}
      <4>1. whole(q, Garbage) \in Line
        BY <2>3, CellsFacts DEF whole, Line, Entry
      <4>2. About(whole(q, Garbage), s, c) => <<s, c>> \in damaged'
        BY <3>5 DEF About, whole, cell
      <4>3. ~About(whole(q, Garbage), s, c) => FALSE
        BY <1>1, <2>1, <3>5, <4>1, FoundAppend
      <4> QED BY <2>1, <4>2, <4>3
    <3> QED BY <3>1, <3>3, <3>4, <3>5
  <2> QED BY <2>6, <2>7, <1>9
<1> QED BY <1>3, <1>4, <1>5, <1>7, <1>8, <1>9 DEF Next, Library

(* Whatever transactions run, only a line of a commit changes what a       *)
(* process will find on the disk: no declaration, write, abort, map or     *)
(* crash between two calls does, and no truncation, done half or whole.    *)
THEOREM OnlyCommits == Spec => OnlyCommitsChange
<1> DEFINE Inv == TypeInv /\ Played
           Alone == LogPlayable' =>
             \A s \in Segs : file[s] # NoFile /\ file'[s] # NoFile =>
               \A c \in Named(s) \cup Named(s)' :
                 recovered(s, c)' # recovered(s, c) =>
                   /\ call.op = "commit" /\ call.i <= Len(redolog)
                   /\ \/ <<s, c>> = cell(redolog[call.i]) /\ recovered(s, c)' = mem[s][c]
                      \/ <<s, c>> \in damaged'
<1>1. Init => Inv
  BY InitDurable DEF DurableInv
<1>2. Inv /\ [Next]_vars => Inv'
  BY NextTypes, NextPlayed
<1>3. ASSUME Inv, Inv', [Next]_vars PROVE [Alone]_disk
  <2>1. CASE UNCHANGED vars
    BY <2>1 DEF vars
  <2>2. CASE Next
    <3>1. SUFFICES ASSUME LogPlayable', NEW s \in Segs, file[s] # NoFile, file'[s] # NoFile,
                          NEW c \in Named(s) \cup Named(s)',
                          recovered(s, c)' # recovered(s, c)
                   PROVE  /\ call.op = "commit" /\ call.i <= Len(redolog)
                          /\ \/ /\ <<s, c>> = cell(redolog[call.i])
                                /\ recovered(s, c)' = mem[s][c]
                             \/ <<s, c>> \in damaged'
      OBVIOUS
    <3>2. Named(s) \subseteq Nat \ {0}
      <4>1. log \in Seq(Line) /\ file[s] \in Seq(Cells)
        BY <1>3, <3>1, DiskTypes DEF Files
      <4> QED BY <4>1, NamedFacts DEF Named
    <3>3. Named(s)' \subseteq Nat \ {0}
      <4>1. log' \in Seq(Line) /\ file'[s] \in Seq(Cells)
        BY <1>3, <3>1 DEF TypeInv, TypeOK, Line
      <4> QED BY <4>1, NamedFacts DEF Named
    <3>4. recovered(s, c) = Found(log, file[s], s, c)
      BY FoundRecovered
    <3>5. recovered(s, c)' = Found(log', file'[s], s, c)
      BY DEF recovered, lines, Found, About
    <3> QED BY <1>3, <2>2, <3>1, <3>2, <3>3, <3>4, <3>5, StepAlone
  <2> QED BY <1>3, <2>1, <2>2
<1> QED BY <1>1, <1>2, <1>3, PTL DEF Spec, OnlyCommitsChange

=============================================================================
